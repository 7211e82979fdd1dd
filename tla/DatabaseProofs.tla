--------------------------- MODULE DatabaseProofs ---------------------------
(***************************************************************************)
(* Proofs about Database: from any release, after any number of stops and  *)
(* failed resets, an open database has the current tables and only data of *)
(* the current kind, and only a reset forgets such data.                   *)
(***************************************************************************)
EXTENDS Database, TLAPS

DB == [tab : [Tables -> [cols : SUBSET Columns, rows : Rows]], version : 0..10]
Kind(db, t) == db.tab[t].rows
Cols(db, t) == db.tab[t].cols
-----------------------------------------------------------------------------
(* What is to do *)

\* The statement that comes next.
At == IF todo = << >> THEN "end" ELSE Head(todo)

\* The statement behind each one: todo is a tail of the schema, perhaps with
\* the rest of a migration or of the drops before it.
Behind(op) ==
    CASE op = "drop_predictions" -> "drop_error_metrics"
      [] op = "drop_error_metrics" -> "drop_bias_correction"
      [] op = "drop_bias_correction" -> "drop_price_history"
      [] op = "drop_price_history" -> "drop_spot_prices"
      [] op = "drop_spot_prices" -> "drop_lead_time_accuracy"
      [] op = "drop_lead_time_accuracy" -> "drop_evaluation"
      [] op = "drop_evaluation" -> "drop_meta"
      [] op = "drop_meta" -> "tables"
      [] op = "tables" -> "bias"
      [] op = "bias" -> "v2"
      [] op = "v2_commit" -> "v2_rename"
      [] op = "v2_rename" -> "v2_create"
      [] op = "v2_create" -> "v2_copy"
      [] op = "v2_copy" -> "v2_drop"
      [] op = "v2" \/ op = "v2_drop" -> "v3"
      [] op = "v3" -> "v4"
      [] op = "v4_commit" -> "temp"
      [] op = "temp" -> "wind"
      [] op = "wind" -> "cloud"
      [] op = "cloud" -> "v4_version"
      [] op = "v4" \/ op = "v4_version" -> "v5"
      [] op = "v5" -> "accuracy"
      [] op = "accuracy" -> "evaluation"
      [] op = "eval_rename" -> "eval_recreate"
      [] op = "eval_recreate" -> "eval_copy"
      [] op = "eval_copy" -> "eval_drop"
      [] op = "evaluation" \/ op = "eval_create" \/ op = "eval_drop" -> "v6"
      [] op = "v6" -> "v7"
      [] op = "v7" -> "v8"
      [] op = "v8" -> "v9"
      [] op = "v9_rename" -> "v9_create"
      [] op = "v9_create" -> "v9_copy"
      [] op = "v9_copy" -> "v9_drop"
      [] op = "v9_drop" -> "v9_version"
      [] op = "v9" \/ op = "v9_version" -> "v10"
      [] OTHER -> "commit"

Chain ==
    /\ todo \in Seq(Statements)
    /\ \A i \in 1..(Len(todo) - 1) : todo[i + 1] = Behind(todo[i])
    /\ todo # << >> => todo[Len(todo)] = "commit"
    /\ mode \notin {"opening", "clearing"} => todo = << >>

\* The statements before a fact about the tables is established.
Drops == {"drop_predictions", "drop_error_metrics", "drop_bias_correction",
          "drop_price_history", "drop_spot_prices", "drop_lead_time_accuracy",
          "drop_evaluation", "drop_meta"}
BeforeTables == Drops \union {"tables"}
BeforeBias == BeforeTables \union {"bias"}
BeforeV2 == BeforeBias \union
    {"v2", "v2_commit", "v2_rename", "v2_create", "v2_copy", "v2_drop"}
BeforeV3 == BeforeV2 \union {"v3"}
BeforeTemp == BeforeV3 \union {"v4", "v4_commit", "temp"}
BeforeV5 == BeforeTemp \union {"wind", "cloud", "v4_version", "v5"}
BeforeAccuracy == BeforeV5 \union {"accuracy"}
BeforeEvaluation == BeforeAccuracy \union
    {"evaluation", "eval_rename", "eval_recreate", "eval_create"}
BeforeV6 == BeforeEvaluation \union {"eval_copy", "eval_drop", "v6"}
BeforeV7 == BeforeV6 \union {"v7"}
BeforeV8 == BeforeV7 \union {"v8"}
BeforeV9 == BeforeV8 \union
    {"v9", "v9_rename", "v9_create", "v9_copy", "v9_drop", "v9_version"}
BeforeOffset == BeforeV9 \union {"v10"}
BeforeV10 == BeforeOffset \union {"v10_reset"}
-----------------------------------------------------------------------------
(* What holds of the tables *)

\* A table that is not there has no columns, a kind of rows belongs to some of
\* the tables, and a table's columns were added in the order of its releases.
Learned == {"absent", "none", "consumer", "spot"}
KindsOK(db) ==
    /\ \A t \in Tables : Kind(db, t) = "absent" => Cols(db, t) = {}
    /\ \A t \in {"predictions", "price_history", "lead_time_accuracy"} :
          Kind(db, t) \in Learned
    /\ Kind(db, "error_metrics") \in Learned \union {"hourly"}
    /\ Kind(db, "bias_correction")
          \in {"absent", "none", "factors", "consumer", "lagging", "raw"}
    /\ Kind(db, "spot_prices") \in {"absent", "none", "spot"}
    /\ Kind(db, "weather_history") \in {"absent", "none", "local", "utc"}
    /\ Kind(db, "evaluation") \in {"absent", "none", "single", "leads"}
    /\ Kind(db, "meta") \in {"absent", "none", "trained", "file"}
    /\ Kind(db, "predictions_old") \in Learned
    /\ Kind(db, "bias_correction_pooled") # "raw"
ColumnsOK(db) ==
    LET P == Cols(db, "predictions") IN
    /\ "wind" \in P => "temp" \in P
    /\ "cloud" \in P => "wind" \in P
    /\ Kind(db, "predictions") # "absent" =>
          /\ "id" \notin P => db.version = 0
          /\ "temp" \notin P => db.version <= 3
    /\ Cols(db, "bias_correction") \in {{}, {"bucket"}}
    /\ Cols(db, "bias_correction") = {} => Kind(db, "bias_correction") # "raw"
    /\ Cols(db, "evaluation") \in {{}, {"target_hours"}}
    /\ Kind(db, "evaluation") = "single" => Cols(db, "evaluation") = {}
    /\ Kind(db, "evaluation") # "absent" /\ Cols(db, "evaluation") = {}
          => Kind(db, "evaluation") = "single"

\* What a schema version says of the data.
VersionOK(db) ==
    /\ db.version >= 3 => Kind(db, "error_metrics") # "hourly"
    /\ db.version >= 6 =>
          \A t \in {"predictions", "error_metrics", "bias_correction",
                    "price_history", "lead_time_accuracy"} : Kind(db, t) # "consumer"
    /\ db.version \in 6..9 => Kind(db, "bias_correction") # "raw"
    /\ db.version >= 7 => Kind(db, "weather_history") # "local"
    /\ db.version >= 8 => Kind(db, "price_history") \in {"absent", "none"}
    /\ db.version >= 9 => \/ Kind(db, "bias_correction") = "absent"
                          \/ Cols(db, "bias_correction") = {"bucket"}
    /\ db.version = 10 =>
          /\ Kind(db, "bias_correction") \in {"absent", "none", "raw"}
          /\ \/ Kind(db, "predictions") = "absent"
             \/ "offset" \in Cols(db, "predictions")

Legal(db) == db \in DB /\ KindsOK(db) /\ ColumnsOK(db) /\ VersionOK(db)

\* What the statements so far have established, when op comes next.
TablesMade(op, db) ==
    /\ op \notin BeforeTables =>
          \A t \in {"error_metrics", "price_history", "meta", "weather_history",
                    "spot_prices"} : Kind(db, t) # "absent"
    /\ op \notin BeforeTables \union {"v2_create"} => Kind(db, "predictions") # "absent"
    /\ op \notin BeforeBias \union {"v9_create"} => Kind(db, "bias_correction") # "absent"
    /\ op \notin BeforeAccuracy => Kind(db, "lead_time_accuracy") # "absent"
    /\ op \notin BeforeEvaluation => Cols(db, "evaluation") = {"target_hours"}
ColumnsMade(op, db) ==
    /\ op \notin BeforeV2 => "id" \in Cols(db, "predictions")
    /\ op \notin BeforeTemp => "temp" \in Cols(db, "predictions")
    /\ op \notin BeforeOffset => "offset" \in Cols(db, "predictions")
VersionMade(op, db) ==
    /\ op \notin BeforeV3 => db.version >= 3
    /\ op \notin BeforeV5 => db.version >= 5
    /\ op \notin BeforeV6 => db.version >= 6
    /\ op \notin BeforeV7 => db.version >= 7
    /\ op \notin BeforeV8 => db.version >= 8
    /\ op \notin BeforeV9 => db.version >= 9
    /\ op \notin BeforeV10 => db.version = 10

\* Where a migration is: only an opening has one to run.
Migrating(op, db, m) ==
    /\ op \in BeforeV2 \ (BeforeBias \union {"v2"}) => m = "opening" /\ db.version = 0
    /\ op \in {"v2_create", "v2_copy"} => Kind(db, "predictions_old") # "absent"
    /\ op \in {"v2_copy", "v2_drop"} => "id" \in Cols(db, "predictions")
    /\ op \in {"v4_commit", "temp", "wind", "cloud", "v4_version"} =>
          m = "opening" /\ db.version <= 3
    /\ op = "cloud" => "wind" \in Cols(db, "predictions")
    /\ op \in {"eval_rename", "eval_recreate", "eval_copy", "eval_drop"} => m = "opening"
    /\ op = "eval_rename" => Cols(db, "evaluation") = {}
    /\ op = "eval_recreate" => Kind(db, "evaluation") = "absent"
    /\ op = "eval_create" => \/ Kind(db, "evaluation") = "absent"
                             \/ Cols(db, "evaluation") = {"target_hours"}
    /\ op = "eval_drop" => Kind(db, "evaluation") = "leads"
    /\ op \in {"v9_rename", "v9_create", "v9_copy", "v9_drop"} => m = "opening"
    /\ op \in {"v9_rename", "v9_create", "v9_copy", "v9_drop", "v9_version"} => db.version = 8
    /\ op = "v9_rename" => Cols(db, "bias_correction") = {}
    /\ op \in {"v9_create", "v9_copy"} =>
          Kind(db, "bias_correction_pooled") \in {"none", "factors", "lagging"}
    /\ op = "v9_create" => Kind(db, "bias_correction") = "absent"
    /\ op \in {"v9_copy", "v9_drop", "v9_version"} => Cols(db, "bias_correction") = {"bucket"}

\* A reset empties the tables one by one and fills none.
Droppable == {"predictions", "error_metrics", "bias_correction", "price_history",
              "spot_prices", "lead_time_accuracy", "evaluation", "meta"}
Undropped(op) ==
    CASE op = "drop_predictions" -> Droppable
      [] op = "drop_error_metrics" -> Droppable \ {"predictions"}
      [] op = "drop_bias_correction" -> {"bias_correction", "price_history", "spot_prices",
                                         "lead_time_accuracy", "evaluation", "meta"}
      [] op = "drop_price_history" -> {"price_history", "spot_prices",
                                       "lead_time_accuracy", "evaluation", "meta"}
      [] op = "drop_spot_prices" -> {"spot_prices", "lead_time_accuracy", "evaluation", "meta"}
      [] op = "drop_lead_time_accuracy" -> {"lead_time_accuracy", "evaluation", "meta"}
      [] op = "drop_evaluation" -> {"evaluation", "meta"}
      [] op = "drop_meta" -> {"meta"}
      [] OTHER -> {}
Fresh(db, t) == \/ Kind(db, t) = "absent"
                \/ Kind(db, t) = "none" /\ Cols(db, t) = Full(t)
Emptied(op, db, m) == m = "clearing" => \A t \in Droppable \ Undropped(op) : Fresh(db, t)

\* The tables in front of a statement.
Good(op, db, m) ==
    /\ TablesMade(op, db) /\ ColumnsMade(op, db) /\ VersionMade(op, db)
    /\ Migrating(op, db, m) /\ Emptied(op, db, m)
Reached == mode \notin {"down", "failed"} => Good(At, work, mode)

\* There is no transaction in the scripts, nor outside of an opening or a
\* reset; and a reset commits no version between the last and this one.
Committed ==
    /\ mode \notin {"opening", "clearing"} \/ At \in BeforeTables \union {"end"} => ~ txn
    /\ At \in Drops => mode = "clearing"
    /\ mode \in {"clearing", "failed"} => disk.version \in {0, 10}

\* What a change from one database to another keeps of what was learned.
Keeps(a, b) ==
    /\ a.version <= b.version
    /\ \A t \in {"predictions", "error_metrics", "lead_time_accuracy", "spot_prices"} :
          Kind(a, t) = "spot" => Kind(b, t) = "spot"
    /\ Kind(a, "bias_correction") = "raw" => Kind(b, "bias_correction") = "raw"
    /\ Kind(a, "evaluation") = "leads" => Kind(b, "evaluation") = "leads"
    /\ Kind(a, "meta") = "trained" => Kind(b, "meta") = "trained"
    /\ Kind(a, "price_history") = "spot" => \/ Kind(b, "price_history") = "spot"
                                            \/ Kind(b, "spot_prices") = "spot"
    /\ "single" \in {Kind(a, "evaluation"), Kind(a, "evaluation_single")} =>
          \/ "single" \in {Kind(b, "evaluation"), Kind(b, "evaluation_single")}
          \/ Kind(b, "evaluation") = "leads"
KeepsWeather(a, b) ==
    Kind(a, "weather_history") = "utc" => Kind(b, "weather_history") = "utc"
Kept == /\ mode # "clearing" /\ disk.version >= 6 => Keeps(disk, work)
        /\ KeepsWeather(disk, work)

\* The inductive invariant.
Inv == /\ TypeOK /\ Chain /\ Legal(disk) /\ Legal(work)
       /\ Reached /\ Committed /\ Kept
-----------------------------------------------------------------------------
(* Tables *)

LEMMA WithIs ==
    ASSUME NEW db \in DB, NEW t \in Tables, NEW cols \in SUBSET Columns, NEW rows \in Rows
    PROVE  /\ With(db, t, Table(cols, rows)) \in DB
           /\ With(db, t, Table(cols, rows)).version = db.version
           /\ \A u \in Tables :
                 /\ Kind(With(db, t, Table(cols, rows)), u) = IF u = t THEN rows ELSE Kind(db, u)
                 /\ Cols(With(db, t, Table(cols, rows)), u) = IF u = t THEN cols ELSE Cols(db, u)
    BY DEF With, Table, DB, Kind, Cols

LEMMA GoneIs ==
    ASSUME NEW db \in DB, NEW t \in Tables
    PROVE  /\ With(db, t, Absent) \in DB
           /\ With(db, t, Absent).version = db.version
           /\ \A u \in Tables :
                 /\ Kind(With(db, t, Absent), u) = IF u = t THEN "absent" ELSE Kind(db, u)
                 /\ Cols(With(db, t, Absent), u) = IF u = t THEN {} ELSE Cols(db, u)
<1>1. {} \in SUBSET Columns /\ "absent" \in Rows /\ Absent = Table({}, "absent")
    BY DEF Rows, Absent
<1> QED
    BY <1>1, WithIs

LEMMA HoldIs ==
    ASSUME NEW db \in DB, NEW S, NEW rows \in Rows
    PROVE  /\ Hold(db, S, rows) \in DB
           /\ Hold(db, S, rows).version = db.version
           /\ \A u \in Tables :
                 /\ Kind(Hold(db, S, rows), u) = IF u \in S THEN rows ELSE Kind(db, u)
                 /\ Cols(Hold(db, S, rows), u) = Cols(db, u)
    BY DEF Hold, DB, Kind, Cols

Versioned(db, v) == [db EXCEPT !.version = v]

LEMMA VersionIs ==
    ASSUME NEW db \in DB, NEW v \in 0..10
    PROVE  /\ Versioned(db, v) \in DB
           /\ Versioned(db, v).version = v
           /\ \A u \in Tables :
                 /\ Kind(Versioned(db, v), u) = Kind(db, u)
                 /\ Cols(Versioned(db, v), u) = Cols(db, u)
    BY DEF Versioned, DB, Kind, Cols

LEMMA HoldAtIs ==
    ASSUME NEW db \in DB, NEW S, NEW rows \in Rows, NEW v \in 0..10
    PROVE  /\ Versioned(Hold(db, S, rows), v) \in DB
           /\ Versioned(Hold(db, S, rows), v).version = v
           /\ \A u \in Tables :
                 /\ Kind(Versioned(Hold(db, S, rows), v), u)
                       = IF u \in S THEN rows ELSE Kind(db, u)
                 /\ Cols(Versioned(Hold(db, S, rows), v), u) = Cols(db, u)
<1> DEFINE c == Hold(db, S, rows)
<1>1. /\ c \in DB
      /\ \A u \in Tables : /\ Kind(c, u) = IF u \in S THEN rows ELSE Kind(db, u)
                           /\ Cols(c, u) = Cols(db, u)
    BY HoldIs
<1> HIDE DEF c
<1>2. /\ Versioned(c, v) \in DB /\ Versioned(c, v).version = v
      /\ \A u \in Tables : /\ Kind(Versioned(c, v), u) = Kind(c, u)
                           /\ Cols(Versioned(c, v), u) = Cols(c, u)
    BY <1>1, VersionIs
<1> QED
    BY <1>1, <1>2 DEF c

LEMMA AddedIs ==
    ASSUME NEW db \in DB, NEW t \in Tables, NEW c \in Columns
    PROVE  /\ [db EXCEPT !.tab[t].cols = @ \union {c}] \in DB
           /\ [db EXCEPT !.tab[t].cols = @ \union {c}].version = db.version
           /\ \A u \in Tables :
                 /\ Kind([db EXCEPT !.tab[t].cols = @ \union {c}], u) = Kind(db, u)
                 /\ Cols([db EXCEPT !.tab[t].cols = @ \union {c}], u)
                       = IF u = t THEN Cols(db, u) \union {c} ELSE Cols(db, u)
    BY DEF DB, Kind, Cols

LEMMA HasIs ==
    ASSUME NEW db \in DB, KindsOK(db), NEW t \in Tables
    PROVE  Has(db, t) <=> Kind(db, t) # "absent"
<1>1. db.tab[t] \in [cols : SUBSET Columns, rows : Rows]
    BY DEF DB
<1>2. Kind(db, t) = "absent" => Cols(db, t) = {}
    BY DEF KindsOK
<1> QED
    BY <1>1, <1>2 DEF Has, Absent, Table, Kind, Cols

LEMMA FullIs ==
    ASSUME NEW t
    PROVE  /\ Full(t) \in SUBSET Columns
           /\ t = "predictions" => Full(t) = {"id", "offset", "temp", "wind", "cloud"}
           /\ t = "bias_correction" => Full(t) = {"bucket"}
           /\ t = "evaluation" => Full(t) = {"target_hours"}
           /\ t \notin {"predictions", "bias_correction", "evaluation"} => Full(t) = {}
    BY DEF Full, Columns, Forecast

LEMMA CreateIs ==
    ASSUME NEW db \in DB, KindsOK(db), NEW t \in Tables
    PROVE  /\ Create(db, t) \in DB
           /\ Create(db, t).version = db.version
           /\ \A u \in Tables :
                 IF u = t /\ Kind(db, t) = "absent"
                 THEN Kind(Create(db, t), u) = "none" /\ Cols(Create(db, t), u) = Full(t)
                 ELSE Kind(Create(db, t), u) = Kind(db, u) /\ Cols(Create(db, t), u) = Cols(db, u)
<1>1. Full(t) \in SUBSET Columns /\ "none" \in Rows
    BY FullIs DEF Rows
<1>2. CASE Kind(db, t) = "absent"
    BY <1>1, <1>2, HasIs, WithIs DEF Create
<1>3. CASE Kind(db, t) # "absent"
    BY <1>3, HasIs DEF Create
<1> QED
    BY <1>2, <1>3

LEMMA RenameIs ==
    ASSUME NEW db \in DB, NEW a \in Tables, NEW b \in Tables, a # b
    PROVE  /\ Rename(db, a, b) \in DB
           /\ Rename(db, a, b).version = db.version
           /\ \A u \in Tables :
                 /\ Kind(Rename(db, a, b), u) = IF u = a THEN "absent" ELSE
                                                IF u = b THEN Kind(db, a) ELSE Kind(db, u)
                 /\ Cols(Rename(db, a, b), u) = IF u = a THEN {} ELSE
                                                IF u = b THEN Cols(db, a) ELSE Cols(db, u)
<1>1. /\ db.tab[a] = Table(Cols(db, a), Kind(db, a))
      /\ Cols(db, a) \in SUBSET Columns /\ Kind(db, a) \in Rows
    BY DEF DB, Table, Kind, Cols
<1>2. {} \in SUBSET Columns /\ "absent" \in Rows
    BY DEF Rows
<1> DEFINE c == With(db, b, Table(Cols(db, a), Kind(db, a)))
<1>3. /\ c \in DB /\ c.version = db.version
      /\ \A u \in Tables : /\ Kind(c, u) = IF u = b THEN Kind(db, a) ELSE Kind(db, u)
                           /\ Cols(c, u) = IF u = b THEN Cols(db, a) ELSE Cols(db, u)
    BY <1>1, WithIs
<1>4. Rename(db, a, b) = With(c, a, Table({}, "absent"))
    BY <1>1 DEF Rename, Absent
<1> HIDE DEF c
<1>5. /\ With(c, a, Table({}, "absent")) \in DB
      /\ With(c, a, Table({}, "absent")).version = c.version
      /\ \A u \in Tables :
            /\ Kind(With(c, a, Table({}, "absent")), u) = IF u = a THEN "absent" ELSE Kind(c, u)
            /\ Cols(With(c, a, Table({}, "absent")), u) = IF u = a THEN {} ELSE Cols(c, u)
    BY <1>2, <1>3, WithIs
<1> QED
    BY <1>3, <1>4, <1>5
-----------------------------------------------------------------------------
(* From one statement to the next *)

\* A list of statements to put in for another one.
IsPart(more, what) ==
    /\ more \in Seq(Statements) /\ more # << >>
    /\ \A i \in 1..(Len(more) - 1) : more[i + 1] = Behind(more[i])
    /\ Behind(more[Len(more)]) = Behind(what)

LEMMA FirstIs ==
    ASSUME NEW s \in Seq(Statements), Len(s) > 0
    PROVE  s # << >> /\ Head(s) = s[1]
OBVIOUS

\* Where a step leaves the program that puts in nothing.
LEMMA FlowOn ==
    ASSUME Chain, NEW what, Goes(what)
    PROVE  /\ At = what /\ Chain' /\ mode \in {"opening", "clearing"}
           /\ UNCHANGED <<mode, file, stops>>
           /\ what # "commit" => At' = Behind(what)
           /\ what = "commit" => At' \in {"end", "commit"}
<1> DEFINE n == Len(todo)
<1>1. /\ todo \in Seq(Statements) /\ todo # << >> /\ Head(todo) = what
      /\ todo' = << >> \o Tail(todo)
      /\ mode \in {"opening", "clearing"} /\ UNCHANGED <<mode, file, stops>>
    BY DEF Goes, Do, Chain
<1>2. /\ n \in Nat /\ n >= 1 /\ todo[1] = what /\ todo[n] = "commit"
      /\ Tail(todo) \in Seq(Statements) /\ Len(Tail(todo)) = n - 1
      /\ \A i \in 1..(n - 1) : Tail(todo)[i] = todo[i + 1]
    BY <1>1 DEF Chain
<1>3. todo' = Tail(todo)
    BY <1>1, <1>2
<1>4. Chain'
    <2>1. \A i \in 1..(Len(todo') - 1) : todo'[i + 1] = Behind(todo'[i])
        BY <1>2, <1>3 DEF Chain
    <2>2. todo' # << >> => todo'[Len(todo')] = "commit"
        BY <1>2, <1>3
    <2> QED
        BY <1>1, <1>2, <1>3, <2>1, <2>2 DEF Chain
<1>5. CASE n = 1
    <2>1. what = "commit" /\ todo' = << >>
        BY <1>2, <1>3, <1>5
    <2> QED
        BY <1>1, <1>4, <2>1 DEF At
<1>6. CASE n > 1
    <2>1. todo' # << >> /\ Head(todo') = todo[2]
        <3>1. Len(Tail(todo)) > 0 /\ Tail(todo)[1] = todo[2]
            BY <1>2, <1>6
        <3> QED
            BY <1>2, <1>3, <3>1, FirstIs
    <2>2. todo[2] = Behind(what)
        BY <1>2, <1>6 DEF Chain
    <2>3. Behind("commit") = "commit"
        BY DEF Behind
    <2> QED
        BY <1>1, <1>4, <2>1, <2>2, <2>3 DEF At
<1> QED
    BY <1>2, <1>5, <1>6

\* And one that puts in the statements of a migration.
LEMMA FlowInto ==
    ASSUME Chain, NEW what, NEW more, Do(what, more), IsPart(more, what),
           what # "commit"
    PROVE  /\ At = what /\ Chain' /\ mode \in {"opening", "clearing"}
           /\ UNCHANGED <<mode, file, stops>>
           /\ At' = more[1]
<1> DEFINE n == Len(todo)
           k == Len(more)
<1>1. /\ todo \in Seq(Statements) /\ todo # << >> /\ Head(todo) = what
      /\ todo' = more \o Tail(todo)
      /\ mode \in {"opening", "clearing"} /\ UNCHANGED <<mode, file, stops>>
    BY DEF Do, Chain
<1>2. /\ n \in Nat /\ n >= 1 /\ todo[1] = what /\ todo[n] = "commit"
      /\ Tail(todo) \in Seq(Statements) /\ Len(Tail(todo)) = n - 1
      /\ \A i \in 1..(n - 1) : Tail(todo)[i] = todo[i + 1]
    BY <1>1 DEF Chain
<1>3. n >= 2 /\ todo[2] = Behind(what)
    BY <1>2 DEF Chain
<1>4. k \in Nat /\ k >= 1 /\ more \in Seq(Statements)
    BY DEF IsPart
<1>5. /\ todo' \in Seq(Statements) /\ Len(todo') = k + n - 1
      /\ \A i \in 1..(k + n - 1) :
            todo'[i] = IF i <= k THEN more[i] ELSE todo[i - k + 1]
    BY <1>1, <1>2, <1>4
<1>6. ASSUME NEW i \in 1..(Len(todo') - 1) PROVE todo'[i + 1] = Behind(todo'[i])
    <2>1. CASE i < k
        BY <1>2, <1>4, <1>5, <2>1 DEF IsPart
    <2>2. CASE i = k
        <3>1. todo'[i] = more[k] /\ todo'[i + 1] = todo[2]
            BY <1>2, <1>3, <1>4, <1>5, <2>2
        <3> QED
            BY <1>3, <3>1 DEF IsPart
    <2>3. CASE i > k
        <3>1. todo'[i] = todo[i - k + 1] /\ todo'[i + 1] = todo[(i - k + 1) + 1]
            BY <1>2, <1>4, <1>5, <2>3
        <3>2. i - k + 1 \in 1..(n - 1)
            BY <1>2, <1>4, <1>5, <2>3
        <3> QED
            BY <3>1, <3>2 DEF Chain
    <2> QED
        BY <1>2, <1>4, <1>5, <2>1, <2>2, <2>3
<1>7. todo' # << >> /\ todo'[Len(todo')] = "commit" /\ Head(todo') = more[1]
    BY <1>2, <1>3, <1>4, <1>5
<1> QED
    BY <1>1, <1>2, <1>5, <1>6, <1>7 DEF Chain, At

\* What the parts are.
LEMMA Parts ==
    /\ IsPart(<<"tables">>, "tables")
    /\ IsPart(<<"v2_commit", "v2_rename", "v2_create", "v2_copy", "v2_drop">>, "v2")
    /\ IsPart(<<"v4_commit", "temp", "wind", "cloud", "v4_version">>, "v4")
    /\ IsPart(<<"eval_create">>, "evaluation")
    /\ IsPart(<<"eval_rename", "eval_recreate", "eval_copy", "eval_drop">>, "evaluation")
    /\ IsPart(<<"v9_version">>, "v9")
    /\ IsPart(<<"v9_rename", "v9_create", "v9_copy", "v9_drop", "v9_version">>, "v9")
    /\ IsPart(<<"v10_reset">>, "v10")
<1>1. ASSUME NEW a \in Statements, NEW what, Behind(a) = Behind(what)
      PROVE  IsPart(<<a>>, what)
    <2>1. <<a>> \in Seq(Statements) /\ Len(<<a>>) = 1 /\ <<a>>[1] = a /\ <<a>> # << >>
        OBVIOUS
    <2> DEFINE q == <<a>>
    <2> HIDE DEF q
    <2> SUFFICES IsPart(q, what)
        BY DEF q
    <2>2. q \in Seq(Statements) /\ Len(q) = 1 /\ q[1] = a /\ q # << >>
        BY <2>1 DEF q
    <2> QED
        BY <1>1, <2>2 DEF IsPart
<1>2. ASSUME NEW a \in Statements, NEW b \in Statements, NEW c \in Statements, NEW d \in Statements,
             NEW what, Behind(a) = b, Behind(b) = c, Behind(c) = d, Behind(d) = Behind(what)
      PROVE  IsPart(<<a, b, c, d>>, what)
    <2> DEFINE q == <<a, b, c, d>>
    <2>1. /\ q \in Seq(Statements) /\ Len(q) = 4 /\ q # << >>
          /\ q[1] = a /\ q[2] = b /\ q[3] = c /\ q[4] = d
        OBVIOUS
    <2> HIDE DEF q
    <2> SUFFICES IsPart(q, what)
        BY DEF q
    <2>2. ASSUME NEW i \in 1..3 PROVE q[i + 1] = Behind(q[i])
        <3>1. i = 1 \/ i = 2 \/ i = 3
            OBVIOUS
        <3> QED
            BY <1>2, <2>1, <3>1
    <2> QED
        BY <1>2, <2>1, <2>2 DEF IsPart
<1>3. ASSUME NEW a \in Statements, NEW b \in Statements, NEW c \in Statements, NEW d \in Statements,
             NEW e \in Statements, NEW what, Behind(a) = b, Behind(b) = c, Behind(c) = d,
             Behind(d) = e, Behind(e) = Behind(what)
      PROVE  IsPart(<<a, b, c, d, e>>, what)
    <2> DEFINE q == <<a, b, c, d, e>>
    <2>1. /\ q \in Seq(Statements) /\ Len(q) = 5 /\ q # << >>
          /\ q[1] = a /\ q[2] = b /\ q[3] = c /\ q[4] = d /\ q[5] = e
        OBVIOUS
    <2> HIDE DEF q
    <2> SUFFICES IsPart(q, what)
        BY DEF q
    <2>2. ASSUME NEW i \in 1..4 PROVE q[i + 1] = Behind(q[i])
        <3>1. i = 1 \/ i = 2 \/ i = 3 \/ i = 4
            OBVIOUS
        <3> QED
            BY <1>3, <2>1, <3>1
    <2> QED
        BY <1>3, <2>1, <2>2 DEF IsPart
<1>4. /\ Behind("v2_commit") = "v2_rename" /\ Behind("v2_rename") = "v2_create"
      /\ Behind("v2_create") = "v2_copy" /\ Behind("v2_copy") = "v2_drop"
      /\ Behind("v2_drop") = Behind("v2")
    BY DEF Behind
<1>5. /\ Behind("v4_commit") = "temp" /\ Behind("temp") = "wind"
      /\ Behind("wind") = "cloud" /\ Behind("cloud") = "v4_version"
      /\ Behind("v4_version") = Behind("v4")
    BY DEF Behind
<1>6. /\ Behind("eval_rename") = "eval_recreate" /\ Behind("eval_recreate") = "eval_copy"
      /\ Behind("eval_copy") = "eval_drop" /\ Behind("eval_drop") = Behind("evaluation")
      /\ Behind("eval_create") = Behind("evaluation")
    BY DEF Behind
<1>7. /\ Behind("v9_rename") = "v9_create" /\ Behind("v9_create") = "v9_copy"
      /\ Behind("v9_copy") = "v9_drop" /\ Behind("v9_drop") = "v9_version"
      /\ Behind("v9_version") = Behind("v9") /\ Behind("v10_reset") = Behind("v10")
    BY DEF Behind
<1>8. /\ IsPart(<<"tables">>, "tables") /\ IsPart(<<"eval_create">>, "evaluation")
      /\ IsPart(<<"v9_version">>, "v9") /\ IsPart(<<"v10_reset">>, "v10")
    BY <1>1, <1>6, <1>7 DEF Statements
<1>9. IsPart(<<"v2_commit", "v2_rename", "v2_create", "v2_copy", "v2_drop">>, "v2")
    <2>1. /\ "v2_commit" \in Statements /\ "v2_rename" \in Statements /\ "v2_create" \in Statements
          /\ "v2_copy" \in Statements /\ "v2_drop" \in Statements
        BY DEF Statements
    <2> QED
        BY <1>3, <1>4, <2>1, Zenon
<1>10. IsPart(<<"v4_commit", "temp", "wind", "cloud", "v4_version">>, "v4")
    <2>1. /\ "v4_commit" \in Statements /\ "temp" \in Statements /\ "wind" \in Statements
          /\ "cloud" \in Statements /\ "v4_version" \in Statements
        BY DEF Statements
    <2> QED
        BY <1>3, <1>5, <2>1, Zenon
<1>11. IsPart(<<"eval_rename", "eval_recreate", "eval_copy", "eval_drop">>, "evaluation")
    <2>1. /\ "eval_rename" \in Statements /\ "eval_recreate" \in Statements /\ "eval_copy" \in Statements
          /\ "eval_drop" \in Statements
        BY DEF Statements
    <2> QED
        BY <1>2, <1>6, <2>1, Zenon
<1>12. IsPart(<<"v9_rename", "v9_create", "v9_copy", "v9_drop", "v9_version">>, "v9")
    <2>1. /\ "v9_rename" \in Statements /\ "v9_create" \in Statements /\ "v9_copy" \in Statements
          /\ "v9_drop" \in Statements /\ "v9_version" \in Statements
        BY DEF Statements
    <2> QED
        BY <1>3, <1>7, <2>1, Zenon
<1> QED
    BY <1>8, <1>9, <1>10, <1>11, <1>12
-----------------------------------------------------------------------------
(* Each statement leads from tables as they are before it to tables as they *)
(* are before the next one.  The lemmas all have one shape: what the        *)
(* statement makes of the tables, then each part of Legal, of Good and of   *)
(* Keeps.  Only the migrations' guards make them differ.                    *)

Leads(a, b, next, m) ==
    /\ Legal(b) /\ Good(next, b, m)
    /\ m = "opening" /\ a.version >= 6 => Keeps(a, b)
    /\ KeepsWeather(a, b)

LEMMA BiasLeads ==
    ASSUME NEW a, NEW m \in {"opening", "clearing"}, Legal(a), Good("bias", a, m)
    PROVE  Leads(a, Create(a, "bias_correction"), "v2", m)
<1> DEFINE b == Create(a, "bias_correction")
<1>1. /\ a \in DB /\ KindsOK(a) /\ ColumnsOK(a) /\ VersionOK(a)
      /\ "bias_correction" \in Tables
      /\ Full("bias_correction") = {"bucket"}
    BY FullIs DEF Legal, Tables, Current
<1>2. /\ b \in DB /\ b.version = a.version
      /\ \A u \in Tables :
            IF u = "bias_correction" /\ Kind(a, "bias_correction") = "absent"
            THEN Kind(b, u) = "none" /\ Cols(b, u) = Full("bias_correction")
            ELSE Kind(b, u) = Kind(a, u) /\ Cols(b, u) = Cols(a, u)
    BY <1>1, CreateIs
<1> HIDE DEF b
<1>3. KindsOK(b)
    <2>1. \A t \in Tables : Kind(b, t) = "absent" => Cols(b, t) = {}
        BY <1>1, <1>2 DEF KindsOK
    <2> QED
        BY <1>1, <1>2, <2>1 DEF KindsOK, Tables, Current, Learned
<1>4. ColumnsOK(b)
    BY <1>1, <1>2 DEF ColumnsOK, Tables, Current
<1>5. VersionOK(b)
    BY <1>1, <1>2 DEF VersionOK, Tables, Current
<1>6. TablesMade("v2", b)
    BY <1>1, <1>2 DEF Good, TablesMade, Tables, Current, Drops, BeforeTables, BeforeBias,
        BeforeV2, BeforeV3, BeforeTemp, BeforeV5, BeforeAccuracy, BeforeEvaluation
<1>7. ColumnsMade("v2", b)
    BY <1>2 DEF Good, ColumnsMade, Tables, Current, BeforeTables, BeforeBias, BeforeV2, BeforeV3,
        BeforeTemp, BeforeV5, BeforeAccuracy, BeforeEvaluation, BeforeV6, BeforeV7,
        BeforeV8, BeforeV9, BeforeOffset, BeforeV10, Drops
<1>8. VersionMade("v2", b)
    BY <1>2 DEF Good, VersionMade, BeforeTables, BeforeBias, BeforeV2, BeforeV3,
        BeforeTemp, BeforeV5, BeforeAccuracy, BeforeEvaluation, BeforeV6, BeforeV7,
        BeforeV8, BeforeV9, BeforeOffset, BeforeV10, Drops
<1>9. Migrating("v2", b, m)
    BY <1>1, <1>2 DEF Good, Migrating, Tables, Current, BeforeV2, BeforeBias, BeforeTables, Drops
<1>10. Emptied("v2", b, m)
    BY <1>1, <1>2, FullIs DEF Good, Emptied, Undropped, Droppable, Fresh, Tables, Current
<1>11. m = "opening" /\ a.version >= 6 => Keeps(a, b)
    BY <1>1, <1>2 DEF Keeps, DB, Tables, Current
<1>12. KeepsWeather(a, b)
    BY <1>2 DEF KeepsWeather, Tables, Current
<1> QED
    BY <1>2, <1>3, <1>4, <1>5, <1>6, <1>7, <1>8, <1>9, <1>10, <1>11, <1>12 DEF Leads, Legal, Good, b

LEMMA BiasAgainLeads ==
    ASSUME NEW a, NEW m \in {"opening", "clearing"}, Legal(a), Good("v9_create", a, m)
    PROVE  Leads(a, Create(a, "bias_correction"), "v9_copy", m)
<1> DEFINE b == Create(a, "bias_correction")
<1>1. /\ a \in DB /\ KindsOK(a) /\ ColumnsOK(a) /\ VersionOK(a)
      /\ "bias_correction" \in Tables
      /\ Full("bias_correction") = {"bucket"}
    BY FullIs DEF Legal, Tables, Current
<1>2. /\ b \in DB /\ b.version = a.version
      /\ \A u \in Tables :
            IF u = "bias_correction" /\ Kind(a, "bias_correction") = "absent"
            THEN Kind(b, u) = "none" /\ Cols(b, u) = Full("bias_correction")
            ELSE Kind(b, u) = Kind(a, u) /\ Cols(b, u) = Cols(a, u)
    BY <1>1, CreateIs
<1> HIDE DEF b
<1>3. KindsOK(b)
    <2>1. \A t \in Tables : Kind(b, t) = "absent" => Cols(b, t) = {}
        BY <1>1, <1>2 DEF KindsOK
    <2> QED
        BY <1>1, <1>2, <2>1 DEF KindsOK, Tables, Current, Learned
<1>4. ColumnsOK(b)
    BY <1>1, <1>2 DEF ColumnsOK, Tables, Current
<1>5. VersionOK(b)
    BY <1>1, <1>2 DEF VersionOK, Tables, Current
<1>6. TablesMade("v9_copy", b)
    BY <1>1, <1>2 DEF Good, TablesMade, Tables, Current, Drops, BeforeTables, BeforeBias,
        BeforeV2, BeforeV3, BeforeTemp, BeforeV5, BeforeAccuracy, BeforeEvaluation
<1>7. ColumnsMade("v9_copy", b)
    BY <1>2 DEF Good, ColumnsMade, Tables, Current, BeforeTables, BeforeBias, BeforeV2, BeforeV3,
        BeforeTemp, BeforeV5, BeforeAccuracy, BeforeEvaluation, BeforeV6, BeforeV7,
        BeforeV8, BeforeV9, BeforeOffset, BeforeV10, Drops
<1>8. VersionMade("v9_copy", b)
    BY <1>2 DEF Good, VersionMade, BeforeTables, BeforeBias, BeforeV2, BeforeV3,
        BeforeTemp, BeforeV5, BeforeAccuracy, BeforeEvaluation, BeforeV6, BeforeV7,
        BeforeV8, BeforeV9, BeforeOffset, BeforeV10, Drops
<1>9. Migrating("v9_copy", b, m)
    BY <1>1, <1>2 DEF Good, Migrating, Tables, Current, BeforeV2, BeforeBias, BeforeTables, Drops
<1>10. Emptied("v9_copy", b, m)
    BY <1>1, <1>2, FullIs DEF Good, Emptied, Undropped, Droppable, Fresh, Tables, Current
<1>11. m = "opening" /\ a.version >= 6 => Keeps(a, b)
    BY <1>1, <1>2 DEF Keeps, DB, Tables, Current
<1>12. KeepsWeather(a, b)
    BY <1>2 DEF KeepsWeather, Tables, Current
<1> QED
    BY <1>2, <1>3, <1>4, <1>5, <1>6, <1>7, <1>8, <1>9, <1>10, <1>11, <1>12 DEF Leads, Legal, Good, b

LEMMA AccuracyLeads ==
    ASSUME NEW a, NEW m \in {"opening", "clearing"}, Legal(a), Good("accuracy", a, m)
    PROVE  Leads(a, Create(a, "lead_time_accuracy"), "evaluation", m)
<1> DEFINE b == Create(a, "lead_time_accuracy")
<1>1. /\ a \in DB /\ KindsOK(a) /\ ColumnsOK(a) /\ VersionOK(a)
      /\ "lead_time_accuracy" \in Tables
      /\ Full("lead_time_accuracy") = {}
    BY FullIs DEF Legal, Tables, Current
<1>2. /\ b \in DB /\ b.version = a.version
      /\ \A u \in Tables :
            IF u = "lead_time_accuracy" /\ Kind(a, "lead_time_accuracy") = "absent"
            THEN Kind(b, u) = "none" /\ Cols(b, u) = Full("lead_time_accuracy")
            ELSE Kind(b, u) = Kind(a, u) /\ Cols(b, u) = Cols(a, u)
    BY <1>1, CreateIs
<1> HIDE DEF b
<1>3. KindsOK(b)
    <2>1. \A t \in Tables : Kind(b, t) = "absent" => Cols(b, t) = {}
        BY <1>1, <1>2 DEF KindsOK
    <2> QED
        BY <1>1, <1>2, <2>1 DEF KindsOK, Tables, Current, Learned
<1>4. ColumnsOK(b)
    BY <1>1, <1>2 DEF ColumnsOK, Tables, Current
<1>5. VersionOK(b)
    BY <1>1, <1>2 DEF VersionOK, Tables, Current
<1>6. TablesMade("evaluation", b)
    BY <1>1, <1>2 DEF Good, TablesMade, Tables, Current, Drops, BeforeTables, BeforeBias,
        BeforeV2, BeforeV3, BeforeTemp, BeforeV5, BeforeAccuracy, BeforeEvaluation
<1>7. ColumnsMade("evaluation", b)
    BY <1>2 DEF Good, ColumnsMade, Tables, Current, BeforeTables, BeforeBias, BeforeV2, BeforeV3,
        BeforeTemp, BeforeV5, BeforeAccuracy, BeforeEvaluation, BeforeV6, BeforeV7,
        BeforeV8, BeforeV9, BeforeOffset, BeforeV10, Drops
<1>8. VersionMade("evaluation", b)
    BY <1>2 DEF Good, VersionMade, BeforeTables, BeforeBias, BeforeV2, BeforeV3,
        BeforeTemp, BeforeV5, BeforeAccuracy, BeforeEvaluation, BeforeV6, BeforeV7,
        BeforeV8, BeforeV9, BeforeOffset, BeforeV10, Drops
<1>9. Migrating("evaluation", b, m)
    BY <1>1, <1>2 DEF Good, Migrating, Tables, Current, BeforeV2, BeforeBias, BeforeTables, Drops
<1>10. Emptied("evaluation", b, m)
    BY <1>1, <1>2, FullIs DEF Good, Emptied, Undropped, Droppable, Fresh, Tables, Current
<1>11. m = "opening" /\ a.version >= 6 => Keeps(a, b)
    BY <1>1, <1>2 DEF Keeps, DB, Tables, Current
<1>12. KeepsWeather(a, b)
    BY <1>2 DEF KeepsWeather, Tables, Current
<1> QED
    BY <1>2, <1>3, <1>4, <1>5, <1>6, <1>7, <1>8, <1>9, <1>10, <1>11, <1>12 DEF Leads, Legal, Good, b

LEMMA EvaluationLeads ==
    ASSUME NEW a, NEW m \in {"opening", "clearing"}, Legal(a), Good("eval_create", a, m)
    PROVE  Leads(a, Create(a, "evaluation"), "v6", m)
<1> DEFINE b == Create(a, "evaluation")
<1>1. /\ a \in DB /\ KindsOK(a) /\ ColumnsOK(a) /\ VersionOK(a)
      /\ "evaluation" \in Tables
      /\ Full("evaluation") = {"target_hours"}
    BY FullIs DEF Legal, Tables, Current
<1>2. Kind(a, "evaluation") = "absent" \/ Cols(a, "evaluation") = {"target_hours"}
    BY <1>1 DEF Good, Migrating
<1>3. /\ b \in DB /\ b.version = a.version
      /\ \A u \in Tables :
            IF u = "evaluation" /\ Kind(a, "evaluation") = "absent"
            THEN Kind(b, u) = "none" /\ Cols(b, u) = Full("evaluation")
            ELSE Kind(b, u) = Kind(a, u) /\ Cols(b, u) = Cols(a, u)
    BY <1>1, <1>2, CreateIs
<1> HIDE DEF b
<1>4. KindsOK(b)
    <2>1. \A t \in Tables : Kind(b, t) = "absent" => Cols(b, t) = {}
        BY <1>1, <1>2, <1>3 DEF KindsOK
    <2> QED
        BY <1>1, <1>2, <1>3, <2>1 DEF KindsOK, Tables, Current, Learned
<1>5. ColumnsOK(b)
    BY <1>1, <1>2, <1>3 DEF ColumnsOK, Tables, Current
<1>6. VersionOK(b)
    BY <1>1, <1>2, <1>3 DEF VersionOK, Tables, Current
<1>7. TablesMade("v6", b)
    BY <1>1, <1>2, <1>3 DEF Good, TablesMade, Tables, Current, Drops, BeforeTables, BeforeBias,
        BeforeV2, BeforeV3, BeforeTemp, BeforeV5, BeforeAccuracy, BeforeEvaluation
<1>8. ColumnsMade("v6", b)
    BY <1>2, <1>3 DEF Good, ColumnsMade, Tables, Current, BeforeTables, BeforeBias, BeforeV2, BeforeV3,
        BeforeTemp, BeforeV5, BeforeAccuracy, BeforeEvaluation, BeforeV6, BeforeV7,
        BeforeV8, BeforeV9, BeforeOffset, BeforeV10, Drops
<1>9. VersionMade("v6", b)
    BY <1>2, <1>3 DEF Good, VersionMade, BeforeTables, BeforeBias, BeforeV2, BeforeV3,
        BeforeTemp, BeforeV5, BeforeAccuracy, BeforeEvaluation, BeforeV6, BeforeV7,
        BeforeV8, BeforeV9, BeforeOffset, BeforeV10, Drops
<1>10. Migrating("v6", b, m)
    BY <1>1, <1>2, <1>3 DEF Good, Migrating, Tables, Current, BeforeV2, BeforeBias, BeforeTables, Drops
<1>11. Emptied("v6", b, m)
    BY <1>1, <1>2, <1>3, FullIs DEF Good, Emptied, Undropped, Droppable, Fresh, Tables, Current
<1>12. m = "opening" /\ a.version >= 6 => Keeps(a, b)
    BY <1>1, <1>2, <1>3 DEF Keeps, DB, Tables, Current
<1>13. KeepsWeather(a, b)
    BY <1>3 DEF KeepsWeather, Tables, Current
<1> QED
    BY <1>3, <1>4, <1>5, <1>6, <1>7, <1>8, <1>9, <1>10, <1>11, <1>12, <1>13 DEF Leads, Legal, Good, b

LEMMA EvaluationAgainLeads ==
    ASSUME NEW a, NEW m \in {"opening", "clearing"}, Legal(a), Good("eval_recreate", a, m)
    PROVE  Leads(a, Create(a, "evaluation"), "eval_copy", m)
<1> DEFINE b == Create(a, "evaluation")
<1>1. /\ a \in DB /\ KindsOK(a) /\ ColumnsOK(a) /\ VersionOK(a)
      /\ "evaluation" \in Tables
      /\ Full("evaluation") = {"target_hours"}
    BY FullIs DEF Legal, Tables, Current
<1>2. Kind(a, "evaluation") = "absent"
    BY <1>1 DEF Good, Migrating
<1>3. /\ b \in DB /\ b.version = a.version
      /\ \A u \in Tables :
            IF u = "evaluation" /\ Kind(a, "evaluation") = "absent"
            THEN Kind(b, u) = "none" /\ Cols(b, u) = Full("evaluation")
            ELSE Kind(b, u) = Kind(a, u) /\ Cols(b, u) = Cols(a, u)
    BY <1>1, <1>2, CreateIs
<1> HIDE DEF b
<1>4. KindsOK(b)
    <2>1. \A t \in Tables : Kind(b, t) = "absent" => Cols(b, t) = {}
        BY <1>1, <1>2, <1>3 DEF KindsOK
    <2> QED
        BY <1>1, <1>2, <1>3, <2>1 DEF KindsOK, Tables, Current, Learned
<1>5. ColumnsOK(b)
    BY <1>1, <1>2, <1>3 DEF ColumnsOK, Tables, Current
<1>6. VersionOK(b)
    BY <1>1, <1>2, <1>3 DEF VersionOK, Tables, Current
<1>7. TablesMade("eval_copy", b)
    BY <1>1, <1>2, <1>3 DEF Good, TablesMade, Tables, Current, Drops, BeforeTables, BeforeBias,
        BeforeV2, BeforeV3, BeforeTemp, BeforeV5, BeforeAccuracy, BeforeEvaluation
<1>8. ColumnsMade("eval_copy", b)
    BY <1>2, <1>3 DEF Good, ColumnsMade, Tables, Current, BeforeTables, BeforeBias, BeforeV2, BeforeV3,
        BeforeTemp, BeforeV5, BeforeAccuracy, BeforeEvaluation, BeforeV6, BeforeV7,
        BeforeV8, BeforeV9, BeforeOffset, BeforeV10, Drops
<1>9. VersionMade("eval_copy", b)
    BY <1>2, <1>3 DEF Good, VersionMade, BeforeTables, BeforeBias, BeforeV2, BeforeV3,
        BeforeTemp, BeforeV5, BeforeAccuracy, BeforeEvaluation, BeforeV6, BeforeV7,
        BeforeV8, BeforeV9, BeforeOffset, BeforeV10, Drops
<1>10. Migrating("eval_copy", b, m)
    BY <1>1, <1>2, <1>3 DEF Good, Migrating, Tables, Current, BeforeV2, BeforeBias, BeforeTables, Drops
<1>11. Emptied("eval_copy", b, m)
    BY <1>1, <1>2, <1>3, FullIs DEF Good, Emptied, Undropped, Droppable, Fresh, Tables, Current
<1>12. m = "opening" /\ a.version >= 6 => Keeps(a, b)
    BY <1>1, <1>2, <1>3 DEF Keeps, DB, Tables, Current
<1>13. KeepsWeather(a, b)
    BY <1>3 DEF KeepsWeather, Tables, Current
<1> QED
    BY <1>3, <1>4, <1>5, <1>6, <1>7, <1>8, <1>9, <1>10, <1>11, <1>12, <1>13 DEF Leads, Legal, Good, b

LEMMA RenamePredictionsLeads ==
    ASSUME NEW a, NEW m \in {"opening", "clearing"}, Legal(a), Good("v2_rename", a, m)
    PROVE  Leads(a, Rename(a, "predictions", "predictions_old"), "v2_create", m)
<1> DEFINE b == Rename(a, "predictions", "predictions_old")
<1>1. /\ a \in DB /\ KindsOK(a) /\ ColumnsOK(a) /\ VersionOK(a)
      /\ "predictions" \in Tables /\ "predictions_old" \in Tables
    BY DEF Legal, Tables, Current
<1>2. m = "opening" /\ a.version = 0 /\ Kind(a, "predictions") # "absent"
    BY <1>1 DEF Good, Migrating, TablesMade, BeforeTables, BeforeBias, BeforeV2, BeforeV3,
        BeforeTemp, BeforeV5, BeforeAccuracy, BeforeEvaluation, BeforeV6, BeforeV7,
        BeforeV8, BeforeV9, BeforeOffset, BeforeV10, Drops
<1>3. /\ b \in DB /\ b.version = a.version
      /\ \A u \in Tables :
            /\ Kind(b, u) = IF u = "predictions" THEN "absent" ELSE
                            IF u = "predictions_old" THEN Kind(a, "predictions") ELSE Kind(a, u)
            /\ Cols(b, u) = IF u = "predictions" THEN {} ELSE
                            IF u = "predictions_old" THEN Cols(a, "predictions") ELSE Cols(a, u)
    BY <1>1, <1>2, RenameIs
<1> HIDE DEF b
<1>4. KindsOK(b)
    <2>1. \A t \in Tables : Kind(b, t) = "absent" => Cols(b, t) = {}
        BY <1>1, <1>2, <1>3 DEF KindsOK
    <2> QED
        BY <1>1, <1>2, <1>3, <2>1 DEF KindsOK, Tables, Current, Learned
<1>5. ColumnsOK(b)
    BY <1>1, <1>2, <1>3 DEF ColumnsOK, Tables, Current
<1>6. VersionOK(b)
    BY <1>1, <1>2, <1>3 DEF VersionOK, Tables, Current
<1>7. TablesMade("v2_create", b)
    BY <1>1, <1>2, <1>3 DEF Good, TablesMade, Tables, Current, Drops, BeforeTables, BeforeBias,
        BeforeV2, BeforeV3, BeforeTemp, BeforeV5, BeforeAccuracy, BeforeEvaluation
<1>8. ColumnsMade("v2_create", b)
    BY <1>2, <1>3 DEF Good, ColumnsMade, Tables, Current, BeforeTables, BeforeBias, BeforeV2, BeforeV3,
        BeforeTemp, BeforeV5, BeforeAccuracy, BeforeEvaluation, BeforeV6, BeforeV7,
        BeforeV8, BeforeV9, BeforeOffset, BeforeV10, Drops
<1>9. VersionMade("v2_create", b)
    BY <1>2, <1>3 DEF Good, VersionMade, BeforeTables, BeforeBias, BeforeV2, BeforeV3,
        BeforeTemp, BeforeV5, BeforeAccuracy, BeforeEvaluation, BeforeV6, BeforeV7,
        BeforeV8, BeforeV9, BeforeOffset, BeforeV10, Drops
<1>10. Migrating("v2_create", b, m)
    BY <1>1, <1>2, <1>3 DEF Good, Migrating, Tables, Current, BeforeV2, BeforeBias, BeforeTables, Drops
<1>11. Emptied("v2_create", b, m)
    BY <1>1, <1>2, <1>3, FullIs DEF Good, Emptied, Undropped, Droppable, Fresh, Tables, Current
<1>12. m = "opening" /\ a.version >= 6 => Keeps(a, b)
    BY <1>1, <1>2, <1>3 DEF Keeps, DB, Tables, Current
<1>13. KeepsWeather(a, b)
    BY <1>3 DEF KeepsWeather, Tables, Current
<1> QED
    BY <1>3, <1>4, <1>5, <1>6, <1>7, <1>8, <1>9, <1>10, <1>11, <1>12, <1>13 DEF Leads, Legal, Good, b

LEMMA RenameEvaluationLeads ==
    ASSUME NEW a, NEW m \in {"opening", "clearing"}, Legal(a), Good("eval_rename", a, m),
           Kind(a, "evaluation_single") = "absent"
    PROVE  Leads(a, Rename(a, "evaluation", "evaluation_single"), "eval_recreate", m)
<1> DEFINE b == Rename(a, "evaluation", "evaluation_single")
<1>1. /\ a \in DB /\ KindsOK(a) /\ ColumnsOK(a) /\ VersionOK(a)
      /\ "evaluation" \in Tables /\ "evaluation_single" \in Tables
    BY DEF Legal, Tables, Current
<1>2. m = "opening" /\ Kind(a, "evaluation") \in {"single", "absent"}
    BY <1>1 DEF Good, Migrating, ColumnsOK
<1>3. /\ b \in DB /\ b.version = a.version
      /\ \A u \in Tables :
            /\ Kind(b, u) = IF u = "evaluation" THEN "absent" ELSE
                            IF u = "evaluation_single" THEN Kind(a, "evaluation") ELSE Kind(a, u)
            /\ Cols(b, u) = IF u = "evaluation" THEN {} ELSE
                            IF u = "evaluation_single" THEN Cols(a, "evaluation") ELSE Cols(a, u)
    BY <1>1, <1>2, RenameIs
<1> HIDE DEF b
<1>4. KindsOK(b)
    <2>1. \A t \in Tables : Kind(b, t) = "absent" => Cols(b, t) = {}
        BY <1>1, <1>2, <1>3 DEF KindsOK
    <2> QED
        BY <1>1, <1>2, <1>3, <2>1 DEF KindsOK, Tables, Current, Learned
<1>5. ColumnsOK(b)
    BY <1>1, <1>2, <1>3 DEF ColumnsOK, Tables, Current
<1>6. VersionOK(b)
    BY <1>1, <1>2, <1>3 DEF VersionOK, Tables, Current
<1>7. TablesMade("eval_recreate", b)
    BY <1>1, <1>2, <1>3 DEF Good, TablesMade, Tables, Current, Drops, BeforeTables, BeforeBias,
        BeforeV2, BeforeV3, BeforeTemp, BeforeV5, BeforeAccuracy, BeforeEvaluation
<1>8. ColumnsMade("eval_recreate", b)
    BY <1>2, <1>3 DEF Good, ColumnsMade, Tables, Current, BeforeTables, BeforeBias, BeforeV2, BeforeV3,
        BeforeTemp, BeforeV5, BeforeAccuracy, BeforeEvaluation, BeforeV6, BeforeV7,
        BeforeV8, BeforeV9, BeforeOffset, BeforeV10, Drops
<1>9. VersionMade("eval_recreate", b)
    BY <1>2, <1>3 DEF Good, VersionMade, BeforeTables, BeforeBias, BeforeV2, BeforeV3,
        BeforeTemp, BeforeV5, BeforeAccuracy, BeforeEvaluation, BeforeV6, BeforeV7,
        BeforeV8, BeforeV9, BeforeOffset, BeforeV10, Drops
<1>10. Migrating("eval_recreate", b, m)
    BY <1>1, <1>2, <1>3 DEF Good, Migrating, Tables, Current, BeforeV2, BeforeBias, BeforeTables, Drops
<1>11. Emptied("eval_recreate", b, m)
    BY <1>1, <1>2, <1>3, FullIs DEF Good, Emptied, Undropped, Droppable, Fresh, Tables, Current
<1>12. m = "opening" /\ a.version >= 6 => Keeps(a, b)
    BY <1>1, <1>2, <1>3 DEF Keeps, DB, Tables, Current
<1>13. KeepsWeather(a, b)
    BY <1>3 DEF KeepsWeather, Tables, Current
<1> QED
    BY <1>3, <1>4, <1>5, <1>6, <1>7, <1>8, <1>9, <1>10, <1>11, <1>12, <1>13 DEF Leads, Legal, Good, b

LEMMA RenameBiasLeads ==
    ASSUME NEW a, NEW m \in {"opening", "clearing"}, Legal(a), Good("v9_rename", a, m)
    PROVE  Leads(a, Rename(a, "bias_correction", "bias_correction_pooled"), "v9_create", m)
<1> DEFINE b == Rename(a, "bias_correction", "bias_correction_pooled")
<1>1. /\ a \in DB /\ KindsOK(a) /\ ColumnsOK(a) /\ VersionOK(a)
      /\ "bias_correction" \in Tables /\ "bias_correction_pooled" \in Tables
    BY DEF Legal, Tables, Current
<1>2. /\ m = "opening" /\ a.version = 8
      /\ Kind(a, "bias_correction") \in {"none", "factors", "lagging"}
    BY <1>1 DEF Good, Migrating, TablesMade, KindsOK, VersionOK, BeforeTables, BeforeBias, BeforeV2, BeforeV3,
        BeforeTemp, BeforeV5, BeforeAccuracy, BeforeEvaluation, BeforeV6, BeforeV7,
        BeforeV8, BeforeV9, BeforeOffset, BeforeV10, Drops
<1>3. /\ b \in DB /\ b.version = a.version
      /\ \A u \in Tables :
            /\ Kind(b, u) = IF u = "bias_correction" THEN "absent" ELSE
                            IF u = "bias_correction_pooled" THEN Kind(a, "bias_correction") ELSE Kind(a, u)
            /\ Cols(b, u) = IF u = "bias_correction" THEN {} ELSE
                            IF u = "bias_correction_pooled" THEN Cols(a, "bias_correction") ELSE Cols(a, u)
    BY <1>1, <1>2, RenameIs
<1> HIDE DEF b
<1>4. KindsOK(b)
    <2>1. \A t \in Tables : Kind(b, t) = "absent" => Cols(b, t) = {}
        BY <1>1, <1>2, <1>3 DEF KindsOK
    <2> QED
        BY <1>1, <1>2, <1>3, <2>1 DEF KindsOK, Tables, Current, Learned
<1>5. ColumnsOK(b)
    BY <1>1, <1>2, <1>3 DEF ColumnsOK, Tables, Current
<1>6. VersionOK(b)
    BY <1>1, <1>2, <1>3 DEF VersionOK, Tables, Current
<1>7. TablesMade("v9_create", b)
    BY <1>1, <1>2, <1>3 DEF Good, TablesMade, Tables, Current, Drops, BeforeTables, BeforeBias,
        BeforeV2, BeforeV3, BeforeTemp, BeforeV5, BeforeAccuracy, BeforeEvaluation
<1>8. ColumnsMade("v9_create", b)
    BY <1>2, <1>3 DEF Good, ColumnsMade, Tables, Current, BeforeTables, BeforeBias, BeforeV2, BeforeV3,
        BeforeTemp, BeforeV5, BeforeAccuracy, BeforeEvaluation, BeforeV6, BeforeV7,
        BeforeV8, BeforeV9, BeforeOffset, BeforeV10, Drops
<1>9. VersionMade("v9_create", b)
    BY <1>2, <1>3 DEF Good, VersionMade, BeforeTables, BeforeBias, BeforeV2, BeforeV3,
        BeforeTemp, BeforeV5, BeforeAccuracy, BeforeEvaluation, BeforeV6, BeforeV7,
        BeforeV8, BeforeV9, BeforeOffset, BeforeV10, Drops
<1>10. Migrating("v9_create", b, m)
    BY <1>1, <1>2, <1>3 DEF Good, Migrating, Tables, Current, BeforeV2, BeforeBias, BeforeTables, Drops
<1>11. Emptied("v9_create", b, m)
    BY <1>1, <1>2, <1>3, FullIs DEF Good, Emptied, Undropped, Droppable, Fresh, Tables, Current
<1>12. m = "opening" /\ a.version >= 6 => Keeps(a, b)
    BY <1>1, <1>2, <1>3 DEF Keeps, DB, Tables, Current
<1>13. KeepsWeather(a, b)
    BY <1>3 DEF KeepsWeather, Tables, Current
<1> QED
    BY <1>3, <1>4, <1>5, <1>6, <1>7, <1>8, <1>9, <1>10, <1>11, <1>12, <1>13 DEF Leads, Legal, Good, b

LEMMA RecreatePredictionsLeads ==
    ASSUME NEW a, NEW m \in {"opening", "clearing"}, Legal(a), Good("v2_create", a, m)
    PROVE  Leads(a, With(a, "predictions", Table({"id"}, "none")), "v2_copy", m)
<1> DEFINE b == With(a, "predictions", Table({"id"}, "none"))
<1>1. /\ a \in DB /\ KindsOK(a) /\ ColumnsOK(a) /\ VersionOK(a)
      /\ "predictions" \in Tables /\ "predictions_old" \in Tables
      /\ {"id"} \in SUBSET Columns /\ "none" \in Rows
    BY DEF Columns, Rows, Legal, Tables, Current
<1>2. /\ m = "opening" /\ a.version = 0
      /\ Kind(a, "predictions_old") # "absent"
    BY <1>1 DEF Good, Migrating, BeforeTables, BeforeBias, BeforeV2, BeforeV3,
        BeforeTemp, BeforeV5, BeforeAccuracy, BeforeEvaluation, BeforeV6, BeforeV7,
        BeforeV8, BeforeV9, BeforeOffset, BeforeV10, Drops
<1>3. /\ b \in DB /\ b.version = a.version
      /\ \A u \in Tables :
            /\ Kind(b, u) = IF u = "predictions" THEN "none" ELSE Kind(a, u)
            /\ Cols(b, u) = IF u = "predictions" THEN {"id"} ELSE Cols(a, u)
    BY <1>1, <1>2, WithIs DEF Table
<1> HIDE DEF b
<1>4. KindsOK(b)
    <2>1. \A t \in Tables : Kind(b, t) = "absent" => Cols(b, t) = {}
        BY <1>1, <1>2, <1>3 DEF KindsOK
    <2> QED
        BY <1>1, <1>2, <1>3, <2>1 DEF KindsOK, Tables, Current, Learned
<1>5. ColumnsOK(b)
    BY <1>1, <1>2, <1>3 DEF ColumnsOK, Tables, Current
<1>6. VersionOK(b)
    BY <1>1, <1>2, <1>3 DEF VersionOK, Tables, Current
<1>7. TablesMade("v2_copy", b)
    BY <1>1, <1>2, <1>3 DEF Good, TablesMade, Tables, Current, Drops, BeforeTables, BeforeBias,
        BeforeV2, BeforeV3, BeforeTemp, BeforeV5, BeforeAccuracy, BeforeEvaluation
<1>8. ColumnsMade("v2_copy", b)
    BY <1>2, <1>3 DEF Good, ColumnsMade, Tables, Current, BeforeTables, BeforeBias, BeforeV2, BeforeV3,
        BeforeTemp, BeforeV5, BeforeAccuracy, BeforeEvaluation, BeforeV6, BeforeV7,
        BeforeV8, BeforeV9, BeforeOffset, BeforeV10, Drops
<1>9. VersionMade("v2_copy", b)
    BY <1>2, <1>3 DEF Good, VersionMade, BeforeTables, BeforeBias, BeforeV2, BeforeV3,
        BeforeTemp, BeforeV5, BeforeAccuracy, BeforeEvaluation, BeforeV6, BeforeV7,
        BeforeV8, BeforeV9, BeforeOffset, BeforeV10, Drops
<1>10. Migrating("v2_copy", b, m)
    BY <1>1, <1>2, <1>3 DEF Good, Migrating, Tables, Current, BeforeV2, BeforeBias, BeforeTables, Drops
<1>11. Emptied("v2_copy", b, m)
    BY <1>1, <1>2, <1>3, FullIs DEF Good, Emptied, Undropped, Droppable, Fresh, Tables, Current
<1>12. m = "opening" /\ a.version >= 6 => Keeps(a, b)
    BY <1>1, <1>2, <1>3 DEF Keeps, DB, Tables, Current
<1>13. KeepsWeather(a, b)
    BY <1>3 DEF KeepsWeather, Tables, Current
<1> QED
    BY <1>3, <1>4, <1>5, <1>6, <1>7, <1>8, <1>9, <1>10, <1>11, <1>12, <1>13 DEF Leads, Legal, Good, b

LEMMA DropPredictionsLeads ==
    ASSUME NEW a, NEW m \in {"opening", "clearing"}, Legal(a), Good("v2_drop", a, m)
    PROVE  Leads(a, With(a, "predictions_old", Absent), "v3", m)
<1> DEFINE b == With(a, "predictions_old", Absent)
<1>1. /\ a \in DB /\ KindsOK(a) /\ ColumnsOK(a) /\ VersionOK(a)
      /\ "predictions_old" \in Tables
    BY DEF Legal, Tables, Current
<1>2. "id" \in Cols(a, "predictions")
    BY <1>1 DEF Good, Migrating
<1>3. /\ b \in DB /\ b.version = a.version
      /\ \A u \in Tables :
            /\ Kind(b, u) = IF u = "predictions_old" THEN "absent" ELSE Kind(a, u)
            /\ Cols(b, u) = IF u = "predictions_old" THEN {} ELSE Cols(a, u)
    BY <1>1, <1>2, GoneIs
<1> HIDE DEF b
<1>4. KindsOK(b)
    <2>1. \A t \in Tables : Kind(b, t) = "absent" => Cols(b, t) = {}
        BY <1>1, <1>2, <1>3 DEF KindsOK
    <2> QED
        BY <1>1, <1>2, <1>3, <2>1 DEF KindsOK, Tables, Current, Learned
<1>5. ColumnsOK(b)
    BY <1>1, <1>2, <1>3 DEF ColumnsOK, Tables, Current
<1>6. VersionOK(b)
    BY <1>1, <1>2, <1>3 DEF VersionOK, Tables, Current
<1>7. TablesMade("v3", b)
    BY <1>1, <1>2, <1>3 DEF Good, TablesMade, Tables, Current, Drops, BeforeTables, BeforeBias,
        BeforeV2, BeforeV3, BeforeTemp, BeforeV5, BeforeAccuracy, BeforeEvaluation
<1>8. ColumnsMade("v3", b)
    BY <1>2, <1>3 DEF Good, ColumnsMade, Tables, Current, BeforeTables, BeforeBias, BeforeV2, BeforeV3,
        BeforeTemp, BeforeV5, BeforeAccuracy, BeforeEvaluation, BeforeV6, BeforeV7,
        BeforeV8, BeforeV9, BeforeOffset, BeforeV10, Drops
<1>9. VersionMade("v3", b)
    BY <1>2, <1>3 DEF Good, VersionMade, BeforeTables, BeforeBias, BeforeV2, BeforeV3,
        BeforeTemp, BeforeV5, BeforeAccuracy, BeforeEvaluation, BeforeV6, BeforeV7,
        BeforeV8, BeforeV9, BeforeOffset, BeforeV10, Drops
<1>10. Migrating("v3", b, m)
    BY <1>1, <1>2, <1>3 DEF Good, Migrating, Tables, Current, BeforeV2, BeforeBias, BeforeTables, Drops
<1>11. Emptied("v3", b, m)
    BY <1>1, <1>2, <1>3, FullIs DEF Good, Emptied, Undropped, Droppable, Fresh, Tables, Current
<1>12. m = "opening" /\ a.version >= 6 => Keeps(a, b)
    BY <1>1, <1>2, <1>3 DEF Keeps, DB, Tables, Current
<1>13. KeepsWeather(a, b)
    BY <1>3 DEF KeepsWeather, Tables, Current
<1> QED
    BY <1>3, <1>4, <1>5, <1>6, <1>7, <1>8, <1>9, <1>10, <1>11, <1>12, <1>13 DEF Leads, Legal, Good, b

LEMMA DropEvaluationLeads ==
    ASSUME NEW a, NEW m \in {"opening", "clearing"}, Legal(a), Good("eval_drop", a, m)
    PROVE  Leads(a, With(a, "evaluation_single", Absent), "v6", m)
<1> DEFINE b == With(a, "evaluation_single", Absent)
<1>1. /\ a \in DB /\ KindsOK(a) /\ ColumnsOK(a) /\ VersionOK(a)
      /\ "evaluation_single" \in Tables
    BY DEF Legal, Tables, Current
<1>2. Kind(a, "evaluation") = "leads"
    BY <1>1 DEF Good, Migrating
<1>3. /\ b \in DB /\ b.version = a.version
      /\ \A u \in Tables :
            /\ Kind(b, u) = IF u = "evaluation_single" THEN "absent" ELSE Kind(a, u)
            /\ Cols(b, u) = IF u = "evaluation_single" THEN {} ELSE Cols(a, u)
    BY <1>1, <1>2, GoneIs
<1> HIDE DEF b
<1>4. KindsOK(b)
    <2>1. \A t \in Tables : Kind(b, t) = "absent" => Cols(b, t) = {}
        BY <1>1, <1>2, <1>3 DEF KindsOK
    <2> QED
        BY <1>1, <1>2, <1>3, <2>1 DEF KindsOK, Tables, Current, Learned
<1>5. ColumnsOK(b)
    BY <1>1, <1>2, <1>3 DEF ColumnsOK, Tables, Current
<1>6. VersionOK(b)
    BY <1>1, <1>2, <1>3 DEF VersionOK, Tables, Current
<1>7. TablesMade("v6", b)
    BY <1>1, <1>2, <1>3 DEF Good, TablesMade, Tables, Current, Drops, BeforeTables, BeforeBias,
        BeforeV2, BeforeV3, BeforeTemp, BeforeV5, BeforeAccuracy, BeforeEvaluation
<1>8. ColumnsMade("v6", b)
    BY <1>2, <1>3 DEF Good, ColumnsMade, Tables, Current, BeforeTables, BeforeBias, BeforeV2, BeforeV3,
        BeforeTemp, BeforeV5, BeforeAccuracy, BeforeEvaluation, BeforeV6, BeforeV7,
        BeforeV8, BeforeV9, BeforeOffset, BeforeV10, Drops
<1>9. VersionMade("v6", b)
    BY <1>2, <1>3 DEF Good, VersionMade, BeforeTables, BeforeBias, BeforeV2, BeforeV3,
        BeforeTemp, BeforeV5, BeforeAccuracy, BeforeEvaluation, BeforeV6, BeforeV7,
        BeforeV8, BeforeV9, BeforeOffset, BeforeV10, Drops
<1>10. Migrating("v6", b, m)
    BY <1>1, <1>2, <1>3 DEF Good, Migrating, Tables, Current, BeforeV2, BeforeBias, BeforeTables, Drops
<1>11. Emptied("v6", b, m)
    BY <1>1, <1>2, <1>3, FullIs DEF Good, Emptied, Undropped, Droppable, Fresh, Tables, Current
<1>12. m = "opening" /\ a.version >= 6 => Keeps(a, b)
    BY <1>1, <1>2, <1>3 DEF Keeps, DB, Tables, Current
<1>13. KeepsWeather(a, b)
    BY <1>3 DEF KeepsWeather, Tables, Current
<1> QED
    BY <1>3, <1>4, <1>5, <1>6, <1>7, <1>8, <1>9, <1>10, <1>11, <1>12, <1>13 DEF Leads, Legal, Good, b

LEMMA DropBiasLeads ==
    ASSUME NEW a, NEW m \in {"opening", "clearing"}, Legal(a), Good("v9_drop", a, m)
    PROVE  Leads(a, With(a, "bias_correction_pooled", Absent), "v9_version", m)
<1> DEFINE b == With(a, "bias_correction_pooled", Absent)
<1>1. /\ a \in DB /\ KindsOK(a) /\ ColumnsOK(a) /\ VersionOK(a)
      /\ "bias_correction_pooled" \in Tables
    BY DEF Legal, Tables, Current
<1>2. /\ b \in DB /\ b.version = a.version
      /\ \A u \in Tables :
            /\ Kind(b, u) = IF u = "bias_correction_pooled" THEN "absent" ELSE Kind(a, u)
            /\ Cols(b, u) = IF u = "bias_correction_pooled" THEN {} ELSE Cols(a, u)
    BY <1>1, GoneIs
<1> HIDE DEF b
<1>3. KindsOK(b)
    <2>1. \A t \in Tables : Kind(b, t) = "absent" => Cols(b, t) = {}
        BY <1>1, <1>2 DEF KindsOK
    <2> QED
        BY <1>1, <1>2, <2>1 DEF KindsOK, Tables, Current, Learned
<1>4. ColumnsOK(b)
    BY <1>1, <1>2 DEF ColumnsOK, Tables, Current
<1>5. VersionOK(b)
    BY <1>1, <1>2 DEF VersionOK, Tables, Current
<1>6. TablesMade("v9_version", b)
    BY <1>1, <1>2 DEF Good, TablesMade, Tables, Current, Drops, BeforeTables, BeforeBias,
        BeforeV2, BeforeV3, BeforeTemp, BeforeV5, BeforeAccuracy, BeforeEvaluation
<1>7. ColumnsMade("v9_version", b)
    BY <1>2 DEF Good, ColumnsMade, Tables, Current, BeforeTables, BeforeBias, BeforeV2, BeforeV3,
        BeforeTemp, BeforeV5, BeforeAccuracy, BeforeEvaluation, BeforeV6, BeforeV7,
        BeforeV8, BeforeV9, BeforeOffset, BeforeV10, Drops
<1>8. VersionMade("v9_version", b)
    BY <1>2 DEF Good, VersionMade, BeforeTables, BeforeBias, BeforeV2, BeforeV3,
        BeforeTemp, BeforeV5, BeforeAccuracy, BeforeEvaluation, BeforeV6, BeforeV7,
        BeforeV8, BeforeV9, BeforeOffset, BeforeV10, Drops
<1>9. Migrating("v9_version", b, m)
    BY <1>1, <1>2 DEF Good, Migrating, Tables, Current, BeforeV2, BeforeBias, BeforeTables, Drops
<1>10. Emptied("v9_version", b, m)
    BY <1>1, <1>2, FullIs DEF Good, Emptied, Undropped, Droppable, Fresh, Tables, Current
<1>11. m = "opening" /\ a.version >= 6 => Keeps(a, b)
    BY <1>1, <1>2 DEF Keeps, DB, Tables, Current
<1>12. KeepsWeather(a, b)
    BY <1>2 DEF KeepsWeather, Tables, Current
<1> QED
    BY <1>2, <1>3, <1>4, <1>5, <1>6, <1>7, <1>8, <1>9, <1>10, <1>11, <1>12 DEF Leads, Legal, Good, b

LEMMA CopyPredictionsLeads ==
    ASSUME NEW a, NEW m \in {"opening", "clearing"}, Legal(a), Good("v2_copy", a, m)
    PROVE  Leads(a, Hold(a, {"predictions"}, Kind(a, "predictions_old")), "v2_drop", m)
<1> DEFINE b == Hold(a, {"predictions"}, Kind(a, "predictions_old"))
<1>1. /\ a \in DB /\ KindsOK(a) /\ ColumnsOK(a) /\ VersionOK(a)
      /\ "predictions" \in Tables /\ "predictions_old" \in Tables
      /\ Kind(a, "predictions_old") \in Rows
    BY DEF DB, Kind, Legal, Tables, Current
<1>2. /\ m = "opening" /\ a.version = 0
      /\ Kind(a, "predictions_old") # "absent" /\ "id" \in Cols(a, "predictions")
    BY <1>1 DEF Good, Migrating, BeforeTables, BeforeBias, BeforeV2, BeforeV3,
        BeforeTemp, BeforeV5, BeforeAccuracy, BeforeEvaluation, BeforeV6, BeforeV7,
        BeforeV8, BeforeV9, BeforeOffset, BeforeV10, Drops
<1>3. /\ b \in DB /\ b.version = a.version
      /\ \A u \in Tables :
            /\ Kind(b, u) = IF u \in {"predictions"} THEN Kind(a, "predictions_old") ELSE Kind(a, u)
            /\ Cols(b, u) = Cols(a, u)
    BY <1>1, <1>2, HoldIs
<1> HIDE DEF b
<1>4. KindsOK(b)
    <2>1. \A t \in Tables : Kind(b, t) = "absent" => Cols(b, t) = {}
        BY <1>1, <1>2, <1>3 DEF KindsOK
    <2> QED
        BY <1>1, <1>2, <1>3, <2>1 DEF KindsOK, Tables, Current, Learned
<1>5. ColumnsOK(b)
    BY <1>1, <1>2, <1>3 DEF ColumnsOK, Tables, Current
<1>6. VersionOK(b)
    BY <1>1, <1>2, <1>3 DEF VersionOK, Tables, Current
<1>7. TablesMade("v2_drop", b)
    BY <1>1, <1>2, <1>3 DEF Good, TablesMade, Tables, Current, Drops, BeforeTables, BeforeBias,
        BeforeV2, BeforeV3, BeforeTemp, BeforeV5, BeforeAccuracy, BeforeEvaluation
<1>8. ColumnsMade("v2_drop", b)
    BY <1>2, <1>3 DEF Good, ColumnsMade, Tables, Current, BeforeTables, BeforeBias, BeforeV2, BeforeV3,
        BeforeTemp, BeforeV5, BeforeAccuracy, BeforeEvaluation, BeforeV6, BeforeV7,
        BeforeV8, BeforeV9, BeforeOffset, BeforeV10, Drops
<1>9. VersionMade("v2_drop", b)
    BY <1>2, <1>3 DEF Good, VersionMade, BeforeTables, BeforeBias, BeforeV2, BeforeV3,
        BeforeTemp, BeforeV5, BeforeAccuracy, BeforeEvaluation, BeforeV6, BeforeV7,
        BeforeV8, BeforeV9, BeforeOffset, BeforeV10, Drops
<1>10. Migrating("v2_drop", b, m)
    BY <1>1, <1>2, <1>3 DEF Good, Migrating, Tables, Current, BeforeV2, BeforeBias, BeforeTables, Drops
<1>11. Emptied("v2_drop", b, m)
    BY <1>1, <1>2, <1>3, FullIs DEF Good, Emptied, Undropped, Droppable, Fresh, Tables, Current
<1>12. m = "opening" /\ a.version >= 6 => Keeps(a, b)
    BY <1>1, <1>2, <1>3 DEF Keeps, DB, Tables, Current
<1>13. KeepsWeather(a, b)
    BY <1>3 DEF KeepsWeather, Tables, Current
<1> QED
    BY <1>3, <1>4, <1>5, <1>6, <1>7, <1>8, <1>9, <1>10, <1>11, <1>12, <1>13 DEF Leads, Legal, Good, b

LEMMA CopyEvaluationLeads ==
    ASSUME NEW a, NEW m \in {"opening", "clearing"}, Legal(a), Good("eval_copy", a, m)
    PROVE  Leads(a, Hold(a, {"evaluation"}, "leads"), "eval_drop", m)
<1> DEFINE b == Hold(a, {"evaluation"}, "leads")
<1>1. /\ a \in DB /\ KindsOK(a) /\ ColumnsOK(a) /\ VersionOK(a)
      /\ "evaluation" \in Tables
      /\ "leads" \in Rows
    BY DEF Rows, Legal, Tables, Current
<1>2. m = "opening" /\ Cols(a, "evaluation") = {"target_hours"}
    BY <1>1 DEF Good, Migrating, TablesMade, BeforeTables, BeforeBias, BeforeV2, BeforeV3,
        BeforeTemp, BeforeV5, BeforeAccuracy, BeforeEvaluation, BeforeV6, BeforeV7,
        BeforeV8, BeforeV9, BeforeOffset, BeforeV10, Drops
<1>3. /\ b \in DB /\ b.version = a.version
      /\ \A u \in Tables :
            /\ Kind(b, u) = IF u \in {"evaluation"} THEN "leads" ELSE Kind(a, u)
            /\ Cols(b, u) = Cols(a, u)
    BY <1>1, <1>2, HoldIs
<1> HIDE DEF b
<1>4. KindsOK(b)
    <2>1. \A t \in Tables : Kind(b, t) = "absent" => Cols(b, t) = {}
        BY <1>1, <1>2, <1>3 DEF KindsOK
    <2> QED
        BY <1>1, <1>2, <1>3, <2>1 DEF KindsOK, Tables, Current, Learned
<1>5. ColumnsOK(b)
    BY <1>1, <1>2, <1>3 DEF ColumnsOK, Tables, Current
<1>6. VersionOK(b)
    BY <1>1, <1>2, <1>3 DEF VersionOK, Tables, Current
<1>7. TablesMade("eval_drop", b)
    BY <1>1, <1>2, <1>3 DEF Good, TablesMade, Tables, Current, Drops, BeforeTables, BeforeBias,
        BeforeV2, BeforeV3, BeforeTemp, BeforeV5, BeforeAccuracy, BeforeEvaluation
<1>8. ColumnsMade("eval_drop", b)
    BY <1>2, <1>3 DEF Good, ColumnsMade, Tables, Current, BeforeTables, BeforeBias, BeforeV2, BeforeV3,
        BeforeTemp, BeforeV5, BeforeAccuracy, BeforeEvaluation, BeforeV6, BeforeV7,
        BeforeV8, BeforeV9, BeforeOffset, BeforeV10, Drops
<1>9. VersionMade("eval_drop", b)
    BY <1>2, <1>3 DEF Good, VersionMade, BeforeTables, BeforeBias, BeforeV2, BeforeV3,
        BeforeTemp, BeforeV5, BeforeAccuracy, BeforeEvaluation, BeforeV6, BeforeV7,
        BeforeV8, BeforeV9, BeforeOffset, BeforeV10, Drops
<1>10. Migrating("eval_drop", b, m)
    BY <1>1, <1>2, <1>3 DEF Good, Migrating, Tables, Current, BeforeV2, BeforeBias, BeforeTables, Drops
<1>11. Emptied("eval_drop", b, m)
    BY <1>1, <1>2, <1>3, FullIs DEF Good, Emptied, Undropped, Droppable, Fresh, Tables, Current
<1>12. m = "opening" /\ a.version >= 6 => Keeps(a, b)
    BY <1>1, <1>2, <1>3 DEF Keeps, DB, Tables, Current
<1>13. KeepsWeather(a, b)
    BY <1>3 DEF KeepsWeather, Tables, Current
<1> QED
    BY <1>3, <1>4, <1>5, <1>6, <1>7, <1>8, <1>9, <1>10, <1>11, <1>12, <1>13 DEF Leads, Legal, Good, b

LEMMA CopyBiasLeads ==
    ASSUME NEW a, NEW m \in {"opening", "clearing"}, Legal(a), Good("v9_copy", a, m)
    PROVE  Leads(a, Hold(a, {"bias_correction"}, Kind(a, "bias_correction_pooled")), "v9_drop", m)
<1> DEFINE b == Hold(a, {"bias_correction"}, Kind(a, "bias_correction_pooled"))
<1>1. /\ a \in DB /\ KindsOK(a) /\ ColumnsOK(a) /\ VersionOK(a)
      /\ "bias_correction" \in Tables /\ "bias_correction_pooled" \in Tables
      /\ Kind(a, "bias_correction_pooled") \in Rows
    BY DEF DB, Kind, Legal, Tables, Current
<1>2. /\ m = "opening" /\ a.version = 8 /\ Cols(a, "bias_correction") = {"bucket"}
      /\ Kind(a, "bias_correction_pooled") \in {"none", "factors", "lagging"}
      /\ Kind(a, "bias_correction") # "raw"
    BY <1>1 DEF Good, Migrating, VersionOK
<1>3. /\ b \in DB /\ b.version = a.version
      /\ \A u \in Tables :
            /\ Kind(b, u) = IF u \in {"bias_correction"} THEN Kind(a, "bias_correction_pooled") ELSE Kind(a, u)
            /\ Cols(b, u) = Cols(a, u)
    BY <1>1, <1>2, HoldIs
<1> HIDE DEF b
<1>4. KindsOK(b)
    <2>1. \A t \in Tables : Kind(b, t) = "absent" => Cols(b, t) = {}
        BY <1>1, <1>2, <1>3 DEF KindsOK
    <2> QED
        BY <1>1, <1>2, <1>3, <2>1 DEF KindsOK, Tables, Current, Learned
<1>5. ColumnsOK(b)
    BY <1>1, <1>2, <1>3 DEF ColumnsOK, Tables, Current
<1>6. VersionOK(b)
    BY <1>1, <1>2, <1>3 DEF VersionOK, Tables, Current
<1>7. TablesMade("v9_drop", b)
    BY <1>1, <1>2, <1>3 DEF Good, TablesMade, Tables, Current, Drops, BeforeTables, BeforeBias,
        BeforeV2, BeforeV3, BeforeTemp, BeforeV5, BeforeAccuracy, BeforeEvaluation
<1>8. ColumnsMade("v9_drop", b)
    BY <1>2, <1>3 DEF Good, ColumnsMade, Tables, Current, BeforeTables, BeforeBias, BeforeV2, BeforeV3,
        BeforeTemp, BeforeV5, BeforeAccuracy, BeforeEvaluation, BeforeV6, BeforeV7,
        BeforeV8, BeforeV9, BeforeOffset, BeforeV10, Drops
<1>9. VersionMade("v9_drop", b)
    BY <1>2, <1>3 DEF Good, VersionMade, BeforeTables, BeforeBias, BeforeV2, BeforeV3,
        BeforeTemp, BeforeV5, BeforeAccuracy, BeforeEvaluation, BeforeV6, BeforeV7,
        BeforeV8, BeforeV9, BeforeOffset, BeforeV10, Drops
<1>10. Migrating("v9_drop", b, m)
    BY <1>1, <1>2, <1>3 DEF Good, Migrating, Tables, Current, BeforeV2, BeforeBias, BeforeTables, Drops
<1>11. Emptied("v9_drop", b, m)
    BY <1>1, <1>2, <1>3, FullIs DEF Good, Emptied, Undropped, Droppable, Fresh, Tables, Current
<1>12. m = "opening" /\ a.version >= 6 => Keeps(a, b)
    BY <1>1, <1>2, <1>3 DEF Keeps, DB, Tables, Current
<1>13. KeepsWeather(a, b)
    BY <1>3 DEF KeepsWeather, Tables, Current
<1> QED
    BY <1>3, <1>4, <1>5, <1>6, <1>7, <1>8, <1>9, <1>10, <1>11, <1>12, <1>13 DEF Leads, Legal, Good, b

LEMMA AddTempLeads ==
    ASSUME NEW a, NEW m \in {"opening", "clearing"}, Legal(a), Good("temp", a, m)
    PROVE  Leads(a, [a EXCEPT !.tab["predictions"].cols = @ \union {"temp"}], "wind", m)
<1> DEFINE b == [a EXCEPT !.tab["predictions"].cols = @ \union {"temp"}]
<1>1. /\ a \in DB /\ KindsOK(a) /\ ColumnsOK(a) /\ VersionOK(a)
      /\ "predictions" \in Tables
      /\ "temp" \in Columns
    BY DEF Columns, Forecast, Legal, Tables, Current
<1>2. m = "opening" /\ a.version <= 3 /\ Kind(a, "predictions") # "absent"
    BY <1>1 DEF Good, Migrating, TablesMade, BeforeTables, BeforeBias, BeforeV2, BeforeV3,
        BeforeTemp, BeforeV5, BeforeAccuracy, BeforeEvaluation, BeforeV6, BeforeV7,
        BeforeV8, BeforeV9, BeforeOffset, BeforeV10, Drops
<1>3. /\ b \in DB /\ b.version = a.version
      /\ \A u \in Tables :
            /\ Kind(b, u) = Kind(a, u)
            /\ Cols(b, u) = IF u = "predictions" THEN Cols(a, u) \union {"temp"} ELSE Cols(a, u)
    BY <1>1, <1>2, AddedIs
<1> HIDE DEF b
<1>4. KindsOK(b)
    <2>1. \A t \in Tables : Kind(b, t) = "absent" => Cols(b, t) = {}
        BY <1>1, <1>2, <1>3 DEF KindsOK
    <2> QED
        BY <1>1, <1>2, <1>3, <2>1 DEF KindsOK, Tables, Current, Learned
<1>5. ColumnsOK(b)
    BY <1>1, <1>2, <1>3 DEF ColumnsOK, Tables, Current
<1>6. VersionOK(b)
    BY <1>1, <1>2, <1>3 DEF VersionOK, Tables, Current
<1>7. TablesMade("wind", b)
    BY <1>1, <1>2, <1>3 DEF Good, TablesMade, Tables, Current, Drops, BeforeTables, BeforeBias,
        BeforeV2, BeforeV3, BeforeTemp, BeforeV5, BeforeAccuracy, BeforeEvaluation
<1>8. ColumnsMade("wind", b)
    BY <1>2, <1>3 DEF Good, ColumnsMade, Tables, Current, BeforeTables, BeforeBias, BeforeV2, BeforeV3,
        BeforeTemp, BeforeV5, BeforeAccuracy, BeforeEvaluation, BeforeV6, BeforeV7,
        BeforeV8, BeforeV9, BeforeOffset, BeforeV10, Drops
<1>9. VersionMade("wind", b)
    BY <1>2, <1>3 DEF Good, VersionMade, BeforeTables, BeforeBias, BeforeV2, BeforeV3,
        BeforeTemp, BeforeV5, BeforeAccuracy, BeforeEvaluation, BeforeV6, BeforeV7,
        BeforeV8, BeforeV9, BeforeOffset, BeforeV10, Drops
<1>10. Migrating("wind", b, m)
    BY <1>1, <1>2, <1>3 DEF Good, Migrating, Tables, Current, BeforeV2, BeforeBias, BeforeTables, Drops
<1>11. Emptied("wind", b, m)
    BY <1>1, <1>2, <1>3, FullIs DEF Good, Emptied, Undropped, Droppable, Fresh, Tables, Current
<1>12. m = "opening" /\ a.version >= 6 => Keeps(a, b)
    BY <1>1, <1>2, <1>3 DEF Keeps, DB, Tables, Current
<1>13. KeepsWeather(a, b)
    BY <1>3 DEF KeepsWeather, Tables, Current
<1> QED
    BY <1>3, <1>4, <1>5, <1>6, <1>7, <1>8, <1>9, <1>10, <1>11, <1>12, <1>13 DEF Leads, Legal, Good, b

LEMMA AddWindLeads ==
    ASSUME NEW a, NEW m \in {"opening", "clearing"}, Legal(a), Good("wind", a, m)
    PROVE  Leads(a, [a EXCEPT !.tab["predictions"].cols = @ \union {"wind"}], "cloud", m)
<1> DEFINE b == [a EXCEPT !.tab["predictions"].cols = @ \union {"wind"}]
<1>1. /\ a \in DB /\ KindsOK(a) /\ ColumnsOK(a) /\ VersionOK(a)
      /\ "predictions" \in Tables
      /\ "wind" \in Columns
    BY DEF Columns, Forecast, Legal, Tables, Current
<1>2. m = "opening" /\ a.version <= 3 /\ "temp" \in Cols(a, "predictions")
    BY <1>1 DEF Good, Migrating, ColumnsMade, BeforeTables, BeforeBias, BeforeV2, BeforeV3,
        BeforeTemp, BeforeV5, BeforeAccuracy, BeforeEvaluation, BeforeV6, BeforeV7,
        BeforeV8, BeforeV9, BeforeOffset, BeforeV10, Drops
<1>3. /\ b \in DB /\ b.version = a.version
      /\ \A u \in Tables :
            /\ Kind(b, u) = Kind(a, u)
            /\ Cols(b, u) = IF u = "predictions" THEN Cols(a, u) \union {"wind"} ELSE Cols(a, u)
    BY <1>1, <1>2, AddedIs
<1> HIDE DEF b
<1>4. KindsOK(b)
    <2>1. \A t \in Tables : Kind(b, t) = "absent" => Cols(b, t) = {}
        BY <1>1, <1>2, <1>3 DEF KindsOK
    <2> QED
        BY <1>1, <1>2, <1>3, <2>1 DEF KindsOK, Tables, Current, Learned
<1>5. ColumnsOK(b)
    BY <1>1, <1>2, <1>3 DEF ColumnsOK, Tables, Current
<1>6. VersionOK(b)
    BY <1>1, <1>2, <1>3 DEF VersionOK, Tables, Current
<1>7. TablesMade("cloud", b)
    BY <1>1, <1>2, <1>3 DEF Good, TablesMade, Tables, Current, Drops, BeforeTables, BeforeBias,
        BeforeV2, BeforeV3, BeforeTemp, BeforeV5, BeforeAccuracy, BeforeEvaluation
<1>8. ColumnsMade("cloud", b)
    BY <1>2, <1>3 DEF Good, ColumnsMade, Tables, Current, BeforeTables, BeforeBias, BeforeV2, BeforeV3,
        BeforeTemp, BeforeV5, BeforeAccuracy, BeforeEvaluation, BeforeV6, BeforeV7,
        BeforeV8, BeforeV9, BeforeOffset, BeforeV10, Drops
<1>9. VersionMade("cloud", b)
    BY <1>2, <1>3 DEF Good, VersionMade, BeforeTables, BeforeBias, BeforeV2, BeforeV3,
        BeforeTemp, BeforeV5, BeforeAccuracy, BeforeEvaluation, BeforeV6, BeforeV7,
        BeforeV8, BeforeV9, BeforeOffset, BeforeV10, Drops
<1>10. Migrating("cloud", b, m)
    BY <1>1, <1>2, <1>3 DEF Good, Migrating, Tables, Current, BeforeV2, BeforeBias, BeforeTables, Drops
<1>11. Emptied("cloud", b, m)
    BY <1>1, <1>2, <1>3, FullIs DEF Good, Emptied, Undropped, Droppable, Fresh, Tables, Current
<1>12. m = "opening" /\ a.version >= 6 => Keeps(a, b)
    BY <1>1, <1>2, <1>3 DEF Keeps, DB, Tables, Current
<1>13. KeepsWeather(a, b)
    BY <1>3 DEF KeepsWeather, Tables, Current
<1> QED
    BY <1>3, <1>4, <1>5, <1>6, <1>7, <1>8, <1>9, <1>10, <1>11, <1>12, <1>13 DEF Leads, Legal, Good, b

LEMMA AddCloudLeads ==
    ASSUME NEW a, NEW m \in {"opening", "clearing"}, Legal(a), Good("cloud", a, m)
    PROVE  Leads(a, [a EXCEPT !.tab["predictions"].cols = @ \union {"cloud"}], "v4_version", m)
<1> DEFINE b == [a EXCEPT !.tab["predictions"].cols = @ \union {"cloud"}]
<1>1. /\ a \in DB /\ KindsOK(a) /\ ColumnsOK(a) /\ VersionOK(a)
      /\ "predictions" \in Tables
      /\ "cloud" \in Columns
    BY DEF Columns, Forecast, Legal, Tables, Current
<1>2. m = "opening" /\ a.version <= 3 /\ "wind" \in Cols(a, "predictions")
    BY <1>1 DEF Good, Migrating
<1>3. /\ b \in DB /\ b.version = a.version
      /\ \A u \in Tables :
            /\ Kind(b, u) = Kind(a, u)
            /\ Cols(b, u) = IF u = "predictions" THEN Cols(a, u) \union {"cloud"} ELSE Cols(a, u)
    BY <1>1, <1>2, AddedIs
<1> HIDE DEF b
<1>4. KindsOK(b)
    <2>1. \A t \in Tables : Kind(b, t) = "absent" => Cols(b, t) = {}
        BY <1>1, <1>2, <1>3 DEF KindsOK
    <2> QED
        BY <1>1, <1>2, <1>3, <2>1 DEF KindsOK, Tables, Current, Learned
<1>5. ColumnsOK(b)
    BY <1>1, <1>2, <1>3 DEF ColumnsOK, Tables, Current
<1>6. VersionOK(b)
    BY <1>1, <1>2, <1>3 DEF VersionOK, Tables, Current
<1>7. TablesMade("v4_version", b)
    BY <1>1, <1>2, <1>3 DEF Good, TablesMade, Tables, Current, Drops, BeforeTables, BeforeBias,
        BeforeV2, BeforeV3, BeforeTemp, BeforeV5, BeforeAccuracy, BeforeEvaluation
<1>8. ColumnsMade("v4_version", b)
    BY <1>2, <1>3 DEF Good, ColumnsMade, Tables, Current, BeforeTables, BeforeBias, BeforeV2, BeforeV3,
        BeforeTemp, BeforeV5, BeforeAccuracy, BeforeEvaluation, BeforeV6, BeforeV7,
        BeforeV8, BeforeV9, BeforeOffset, BeforeV10, Drops
<1>9. VersionMade("v4_version", b)
    BY <1>2, <1>3 DEF Good, VersionMade, BeforeTables, BeforeBias, BeforeV2, BeforeV3,
        BeforeTemp, BeforeV5, BeforeAccuracy, BeforeEvaluation, BeforeV6, BeforeV7,
        BeforeV8, BeforeV9, BeforeOffset, BeforeV10, Drops
<1>10. Migrating("v4_version", b, m)
    BY <1>1, <1>2, <1>3 DEF Good, Migrating, Tables, Current, BeforeV2, BeforeBias, BeforeTables, Drops
<1>11. Emptied("v4_version", b, m)
    BY <1>1, <1>2, <1>3, FullIs DEF Good, Emptied, Undropped, Droppable, Fresh, Tables, Current
<1>12. m = "opening" /\ a.version >= 6 => Keeps(a, b)
    BY <1>1, <1>2, <1>3 DEF Keeps, DB, Tables, Current
<1>13. KeepsWeather(a, b)
    BY <1>3 DEF KeepsWeather, Tables, Current
<1> QED
    BY <1>3, <1>4, <1>5, <1>6, <1>7, <1>8, <1>9, <1>10, <1>11, <1>12, <1>13 DEF Leads, Legal, Good, b

LEMMA AddOffsetLeads ==
    ASSUME NEW a, NEW m \in {"opening", "clearing"}, Legal(a), Good("v10", a, m)
    PROVE  Leads(a, [a EXCEPT !.tab["predictions"].cols = @ \union {"offset"}], "v10_reset", m)
<1> DEFINE b == [a EXCEPT !.tab["predictions"].cols = @ \union {"offset"}]
<1>1. /\ a \in DB /\ KindsOK(a) /\ ColumnsOK(a) /\ VersionOK(a)
      /\ "predictions" \in Tables
      /\ "offset" \in Columns
    BY DEF Columns, Forecast, Legal, Tables, Current
<1>2. Kind(a, "predictions") # "absent"
    BY <1>1 DEF Good, TablesMade, BeforeTables, BeforeBias, BeforeV2, BeforeV3,
        BeforeTemp, BeforeV5, BeforeAccuracy, BeforeEvaluation, BeforeV6, BeforeV7,
        BeforeV8, BeforeV9, BeforeOffset, BeforeV10, Drops
<1>3. /\ b \in DB /\ b.version = a.version
      /\ \A u \in Tables :
            /\ Kind(b, u) = Kind(a, u)
            /\ Cols(b, u) = IF u = "predictions" THEN Cols(a, u) \union {"offset"} ELSE Cols(a, u)
    BY <1>1, <1>2, AddedIs
<1> HIDE DEF b
<1>4. KindsOK(b)
    <2>1. \A t \in Tables : Kind(b, t) = "absent" => Cols(b, t) = {}
        BY <1>1, <1>2, <1>3 DEF KindsOK
    <2> QED
        BY <1>1, <1>2, <1>3, <2>1 DEF KindsOK, Tables, Current, Learned
<1>5. ColumnsOK(b)
    BY <1>1, <1>2, <1>3 DEF ColumnsOK, Tables, Current
<1>6. VersionOK(b)
    BY <1>1, <1>2, <1>3 DEF VersionOK, Tables, Current
<1>7. TablesMade("v10_reset", b)
    BY <1>1, <1>2, <1>3 DEF Good, TablesMade, Tables, Current, Drops, BeforeTables, BeforeBias,
        BeforeV2, BeforeV3, BeforeTemp, BeforeV5, BeforeAccuracy, BeforeEvaluation
<1>8. ColumnsMade("v10_reset", b)
    BY <1>2, <1>3 DEF Good, ColumnsMade, Tables, Current, BeforeTables, BeforeBias, BeforeV2, BeforeV3,
        BeforeTemp, BeforeV5, BeforeAccuracy, BeforeEvaluation, BeforeV6, BeforeV7,
        BeforeV8, BeforeV9, BeforeOffset, BeforeV10, Drops
<1>9. VersionMade("v10_reset", b)
    BY <1>2, <1>3 DEF Good, VersionMade, BeforeTables, BeforeBias, BeforeV2, BeforeV3,
        BeforeTemp, BeforeV5, BeforeAccuracy, BeforeEvaluation, BeforeV6, BeforeV7,
        BeforeV8, BeforeV9, BeforeOffset, BeforeV10, Drops
<1>10. Migrating("v10_reset", b, m)
    BY <1>1, <1>2, <1>3 DEF Good, Migrating, Tables, Current, BeforeV2, BeforeBias, BeforeTables, Drops
<1>11. Emptied("v10_reset", b, m)
    BY <1>1, <1>2, <1>3, FullIs DEF Good, Emptied, Undropped, Droppable, Fresh, Tables, Current
<1>12. m = "opening" /\ a.version >= 6 => Keeps(a, b)
    BY <1>1, <1>2, <1>3 DEF Keeps, DB, Tables, Current
<1>13. KeepsWeather(a, b)
    BY <1>3 DEF KeepsWeather, Tables, Current
<1> QED
    BY <1>3, <1>4, <1>5, <1>6, <1>7, <1>8, <1>9, <1>10, <1>11, <1>12, <1>13 DEF Leads, Legal, Good, b

LEMMA SetVersion4Leads ==
    ASSUME NEW a, NEW m \in {"opening", "clearing"}, Legal(a), Good("v4_version", a, m)
    PROVE  Leads(a, Versioned(a, 4), "v5", m)
<1> DEFINE b == Versioned(a, 4)
<1>1. /\ a \in DB /\ KindsOK(a) /\ ColumnsOK(a) /\ VersionOK(a)
      /\ "predictions" \in Tables
    BY DEF Legal, Tables, Current
<1>2. /\ m = "opening" /\ a.version = 3 /\ {"id", "temp"} \subseteq Cols(a, "predictions")
    BY <1>1 DEF Good, Migrating, ColumnsMade, VersionMade, DB, BeforeTables, BeforeBias, BeforeV2, BeforeV3,
        BeforeTemp, BeforeV5, BeforeAccuracy, BeforeEvaluation, BeforeV6, BeforeV7,
        BeforeV8, BeforeV9, BeforeOffset, BeforeV10, Drops
<1>3. /\ b \in DB /\ b.version = 4
      /\ \A u \in Tables : Kind(b, u) = Kind(a, u) /\ Cols(b, u) = Cols(a, u)
    BY <1>1, <1>2, VersionIs
<1> HIDE DEF b
<1>4. KindsOK(b)
    <2>1. \A t \in Tables : Kind(b, t) = "absent" => Cols(b, t) = {}
        BY <1>1, <1>2, <1>3 DEF KindsOK
    <2> QED
        BY <1>1, <1>2, <1>3, <2>1 DEF KindsOK, Tables, Current, Learned
<1>5. ColumnsOK(b)
    BY <1>1, <1>2, <1>3 DEF ColumnsOK, Tables, Current
<1>6. VersionOK(b)
    BY <1>1, <1>2, <1>3 DEF VersionOK, Tables, Current
<1>7. TablesMade("v5", b)
    BY <1>1, <1>2, <1>3 DEF Good, TablesMade, Tables, Current, Drops, BeforeTables, BeforeBias,
        BeforeV2, BeforeV3, BeforeTemp, BeforeV5, BeforeAccuracy, BeforeEvaluation
<1>8. ColumnsMade("v5", b)
    BY <1>2, <1>3 DEF Good, ColumnsMade, Tables, Current, BeforeTables, BeforeBias, BeforeV2, BeforeV3,
        BeforeTemp, BeforeV5, BeforeAccuracy, BeforeEvaluation, BeforeV6, BeforeV7,
        BeforeV8, BeforeV9, BeforeOffset, BeforeV10, Drops
<1>9. VersionMade("v5", b)
    BY <1>2, <1>3 DEF Good, VersionMade, BeforeTables, BeforeBias, BeforeV2, BeforeV3,
        BeforeTemp, BeforeV5, BeforeAccuracy, BeforeEvaluation, BeforeV6, BeforeV7,
        BeforeV8, BeforeV9, BeforeOffset, BeforeV10, Drops
<1>10. Migrating("v5", b, m)
    BY <1>1, <1>2, <1>3 DEF Good, Migrating, Tables, Current, BeforeV2, BeforeBias, BeforeTables, Drops
<1>11. Emptied("v5", b, m)
    BY <1>1, <1>2, <1>3, FullIs DEF Good, Emptied, Undropped, Droppable, Fresh, Tables, Current
<1>12. m = "opening" /\ a.version >= 6 => Keeps(a, b)
    BY <1>1, <1>2, <1>3 DEF Keeps, DB, Tables, Current
<1>13. KeepsWeather(a, b)
    BY <1>3 DEF KeepsWeather, Tables, Current
<1> QED
    BY <1>3, <1>4, <1>5, <1>6, <1>7, <1>8, <1>9, <1>10, <1>11, <1>12, <1>13 DEF Leads, Legal, Good, b

LEMMA SetVersion9Leads ==
    ASSUME NEW a, NEW m \in {"opening", "clearing"}, Legal(a), Good("v9_version", a, m)
    PROVE  Leads(a, Versioned(a, 9), "v10", m)
<1> DEFINE b == Versioned(a, 9)
<1>1. /\ a \in DB /\ KindsOK(a) /\ ColumnsOK(a) /\ VersionOK(a)
      /\ "predictions" \in Tables
    BY DEF Legal, Tables, Current
<1>2. a.version = 8 /\ Cols(a, "bias_correction") = {"bucket"}
    BY <1>1 DEF Good, Migrating
<1>3. /\ b \in DB /\ b.version = 9
      /\ \A u \in Tables : Kind(b, u) = Kind(a, u) /\ Cols(b, u) = Cols(a, u)
    BY <1>1, <1>2, VersionIs
<1> HIDE DEF b
<1>4. KindsOK(b)
    <2>1. \A t \in Tables : Kind(b, t) = "absent" => Cols(b, t) = {}
        BY <1>1, <1>2, <1>3 DEF KindsOK
    <2> QED
        BY <1>1, <1>2, <1>3, <2>1 DEF KindsOK, Tables, Current, Learned
<1>5. ColumnsOK(b)
    BY <1>1, <1>2, <1>3 DEF ColumnsOK, Tables, Current
<1>6. VersionOK(b)
    BY <1>1, <1>2, <1>3 DEF VersionOK, Tables, Current
<1>7. TablesMade("v10", b)
    BY <1>1, <1>2, <1>3 DEF Good, TablesMade, Tables, Current, Drops, BeforeTables, BeforeBias,
        BeforeV2, BeforeV3, BeforeTemp, BeforeV5, BeforeAccuracy, BeforeEvaluation
<1>8. ColumnsMade("v10", b)
    BY <1>2, <1>3 DEF Good, ColumnsMade, Tables, Current, BeforeTables, BeforeBias, BeforeV2, BeforeV3,
        BeforeTemp, BeforeV5, BeforeAccuracy, BeforeEvaluation, BeforeV6, BeforeV7,
        BeforeV8, BeforeV9, BeforeOffset, BeforeV10, Drops
<1>9. VersionMade("v10", b)
    BY <1>2, <1>3 DEF Good, VersionMade, BeforeTables, BeforeBias, BeforeV2, BeforeV3,
        BeforeTemp, BeforeV5, BeforeAccuracy, BeforeEvaluation, BeforeV6, BeforeV7,
        BeforeV8, BeforeV9, BeforeOffset, BeforeV10, Drops
<1>10. Migrating("v10", b, m)
    BY <1>1, <1>2, <1>3 DEF Good, Migrating, Tables, Current, BeforeV2, BeforeBias, BeforeTables, Drops
<1>11. Emptied("v10", b, m)
    BY <1>1, <1>2, <1>3, FullIs DEF Good, Emptied, Undropped, Droppable, Fresh, Tables, Current
<1>12. m = "opening" /\ a.version >= 6 => Keeps(a, b)
    BY <1>1, <1>2, <1>3 DEF Keeps, DB, Tables, Current
<1>13. KeepsWeather(a, b)
    BY <1>3 DEF KeepsWeather, Tables, Current
<1> QED
    BY <1>3, <1>4, <1>5, <1>6, <1>7, <1>8, <1>9, <1>10, <1>11, <1>12, <1>13 DEF Leads, Legal, Good, b

LEMMA ClearHourlyLeads ==
    ASSUME NEW a, NEW m \in {"opening", "clearing"}, Legal(a), Good("v3", a, m),
           a.version < 3
    PROVE  Leads(a, Versioned(IF a.tab["error_metrics"].rows = "hourly"
                            THEN Hold(a, {"error_metrics", "bias_correction"}, "none") ELSE a, 3), "v4", m)
<1> DEFINE b == Versioned(IF a.tab["error_metrics"].rows = "hourly"
                            THEN Hold(a, {"error_metrics", "bias_correction"}, "none") ELSE a, 3)
<1>1. /\ a \in DB /\ KindsOK(a) /\ ColumnsOK(a) /\ VersionOK(a)
      /\ "error_metrics" \in Tables
      /\ "none" \in Rows /\ "utc" \in Rows
    BY DEF Rows, Legal, Tables, Current
<1>2. /\ Kind(a, "error_metrics") # "absent" /\ Kind(a, "bias_correction") # "absent"
      /\ "id" \in Cols(a, "predictions")
    BY <1>1 DEF Good, TablesMade, ColumnsMade, Tables, Current, BeforeTables, BeforeBias, BeforeV2, BeforeV3,
        BeforeTemp, BeforeV5, BeforeAccuracy, BeforeEvaluation, BeforeV6, BeforeV7,
        BeforeV8, BeforeV9, BeforeOffset, BeforeV10, Drops
<1>3. /\ b \in DB /\ b.version = 3
      /\ \A u \in Tables :
            /\ Kind(b, u) = IF Kind(a, "error_metrics") = "hourly" /\ u \in {"error_metrics", "bias_correction"} THEN "none" ELSE Kind(a, u)
            /\ Cols(b, u) = Cols(a, u)
    <2>1. CASE Kind(a, "error_metrics") = "hourly"
        BY <1>1, <2>1, HoldAtIs DEF Kind
    <2>2. CASE ~ (Kind(a, "error_metrics") = "hourly")
        BY <1>1, <2>2, VersionIs DEF Kind
    <2> QED
        BY <2>1, <2>2
<1> HIDE DEF b
<1>4. KindsOK(b)
    <2>1. \A t \in Tables : Kind(b, t) = "absent" => Cols(b, t) = {}
        BY <1>1, <1>2, <1>3 DEF KindsOK
    <2> QED
        BY <1>1, <1>2, <1>3, <2>1 DEF KindsOK, Tables, Current, Learned
<1>5. ColumnsOK(b)
    BY <1>1, <1>2, <1>3 DEF ColumnsOK, Tables, Current
<1>6. VersionOK(b)
    BY <1>1, <1>2, <1>3 DEF VersionOK, Tables, Current
<1>7. TablesMade("v4", b)
    BY <1>1, <1>2, <1>3 DEF Good, TablesMade, Tables, Current, Drops, BeforeTables, BeforeBias,
        BeforeV2, BeforeV3, BeforeTemp, BeforeV5, BeforeAccuracy, BeforeEvaluation
<1>8. ColumnsMade("v4", b)
    BY <1>2, <1>3 DEF Good, ColumnsMade, Tables, Current, BeforeTables, BeforeBias, BeforeV2, BeforeV3,
        BeforeTemp, BeforeV5, BeforeAccuracy, BeforeEvaluation, BeforeV6, BeforeV7,
        BeforeV8, BeforeV9, BeforeOffset, BeforeV10, Drops
<1>9. VersionMade("v4", b)
    BY <1>2, <1>3 DEF Good, VersionMade, BeforeTables, BeforeBias, BeforeV2, BeforeV3,
        BeforeTemp, BeforeV5, BeforeAccuracy, BeforeEvaluation, BeforeV6, BeforeV7,
        BeforeV8, BeforeV9, BeforeOffset, BeforeV10, Drops
<1>10. Migrating("v4", b, m)
    BY <1>1, <1>2, <1>3 DEF Good, Migrating, Tables, Current, BeforeV2, BeforeBias, BeforeTables, Drops
<1>11. Emptied("v4", b, m)
    BY <1>1, <1>2, <1>3, FullIs DEF Good, Emptied, Undropped, Droppable, Fresh, Tables, Current
<1>12. m = "opening" /\ a.version >= 6 => Keeps(a, b)
    BY <1>1, <1>2, <1>3 DEF Keeps, DB, Tables, Current
<1>13. KeepsWeather(a, b)
    BY <1>3 DEF KeepsWeather, Tables, Current
<1> QED
    BY <1>3, <1>4, <1>5, <1>6, <1>7, <1>8, <1>9, <1>10, <1>11, <1>12, <1>13 DEF Leads, Legal, Good, b

LEMMA ClearFactorsLeads ==
    ASSUME NEW a, NEW m \in {"opening", "clearing"}, Legal(a), Good("v5", a, m),
           a.version < 5
    PROVE  Leads(a, Versioned(Hold(a, {"bias_correction"}, "none"), 5), "accuracy", m)
<1> DEFINE b == Versioned(Hold(a, {"bias_correction"}, "none"), 5)
<1>1. /\ a \in DB /\ KindsOK(a) /\ ColumnsOK(a) /\ VersionOK(a)
      /\ "bias_correction" \in Tables
      /\ "none" \in Rows /\ "utc" \in Rows
    BY DEF Rows, Legal, Tables, Current
<1>2. /\ 3 <= a.version /\ Kind(a, "bias_correction") # "absent"
      /\ {"id", "temp"} \subseteq Cols(a, "predictions")
    BY <1>1 DEF Good, TablesMade, ColumnsMade, VersionMade, Tables, Current, BeforeTables, BeforeBias, BeforeV2, BeforeV3,
        BeforeTemp, BeforeV5, BeforeAccuracy, BeforeEvaluation, BeforeV6, BeforeV7,
        BeforeV8, BeforeV9, BeforeOffset, BeforeV10, Drops
<1>3. /\ b \in DB /\ b.version = 5
      /\ \A u \in Tables :
            /\ Kind(b, u) = IF u \in {"bias_correction"} THEN "none" ELSE Kind(a, u)
            /\ Cols(b, u) = Cols(a, u)
    BY <1>1, <1>2, HoldAtIs
<1> HIDE DEF b
<1>4. KindsOK(b)
    <2>1. \A t \in Tables : Kind(b, t) = "absent" => Cols(b, t) = {}
        BY <1>1, <1>2, <1>3 DEF KindsOK
    <2> QED
        BY <1>1, <1>2, <1>3, <2>1 DEF KindsOK, Tables, Current, Learned
<1>5. ColumnsOK(b)
    BY <1>1, <1>2, <1>3 DEF ColumnsOK, Tables, Current
<1>6. VersionOK(b)
    BY <1>1, <1>2, <1>3 DEF VersionOK, Tables, Current
<1>7. TablesMade("accuracy", b)
    BY <1>1, <1>2, <1>3 DEF Good, TablesMade, Tables, Current, Drops, BeforeTables, BeforeBias,
        BeforeV2, BeforeV3, BeforeTemp, BeforeV5, BeforeAccuracy, BeforeEvaluation
<1>8. ColumnsMade("accuracy", b)
    BY <1>2, <1>3 DEF Good, ColumnsMade, Tables, Current, BeforeTables, BeforeBias, BeforeV2, BeforeV3,
        BeforeTemp, BeforeV5, BeforeAccuracy, BeforeEvaluation, BeforeV6, BeforeV7,
        BeforeV8, BeforeV9, BeforeOffset, BeforeV10, Drops
<1>9. VersionMade("accuracy", b)
    BY <1>2, <1>3 DEF Good, VersionMade, BeforeTables, BeforeBias, BeforeV2, BeforeV3,
        BeforeTemp, BeforeV5, BeforeAccuracy, BeforeEvaluation, BeforeV6, BeforeV7,
        BeforeV8, BeforeV9, BeforeOffset, BeforeV10, Drops
<1>10. Migrating("accuracy", b, m)
    BY <1>1, <1>2, <1>3 DEF Good, Migrating, Tables, Current, BeforeV2, BeforeBias, BeforeTables, Drops
<1>11. Emptied("accuracy", b, m)
    BY <1>1, <1>2, <1>3, FullIs DEF Good, Emptied, Undropped, Droppable, Fresh, Tables, Current
<1>12. m = "opening" /\ a.version >= 6 => Keeps(a, b)
    BY <1>1, <1>2, <1>3 DEF Keeps, DB, Tables, Current
<1>13. KeepsWeather(a, b)
    BY <1>3 DEF KeepsWeather, Tables, Current
<1> QED
    BY <1>3, <1>4, <1>5, <1>6, <1>7, <1>8, <1>9, <1>10, <1>11, <1>12, <1>13 DEF Leads, Legal, Good, b

LEMMA DiscardConsumerLeads ==
    ASSUME NEW a, NEW m \in {"opening", "clearing"}, Legal(a), Good("v6", a, m),
           a.version < 6
    PROVE  Leads(a, Versioned(Hold(a, {"price_history", "predictions", "error_metrics",
                     "bias_correction", "lead_time_accuracy"}, "none"), 6), "v7", m)
<1> DEFINE b == Versioned(Hold(a, {"price_history", "predictions", "error_metrics",
                     "bias_correction", "lead_time_accuracy"}, "none"), 6)
<1>1. /\ a \in DB /\ KindsOK(a) /\ ColumnsOK(a) /\ VersionOK(a)
      /\ "bias_correction" \in Tables
      /\ "none" \in Rows /\ "utc" \in Rows
    BY DEF Rows, Legal, Tables, Current
<1>2. /\ 5 <= a.version
      /\ \A u \in {"price_history", "predictions", "error_metrics", "bias_correction",
                 "lead_time_accuracy"} : Kind(a, u) # "absent"
      /\ {"id", "temp"} \subseteq Cols(a, "predictions")
    BY <1>1 DEF Good, TablesMade, ColumnsMade, VersionMade, Tables, Current, BeforeTables, BeforeBias, BeforeV2, BeforeV3,
        BeforeTemp, BeforeV5, BeforeAccuracy, BeforeEvaluation, BeforeV6, BeforeV7,
        BeforeV8, BeforeV9, BeforeOffset, BeforeV10, Drops
<1>3. /\ b \in DB /\ b.version = 6
      /\ \A u \in Tables :
            /\ Kind(b, u) = IF u \in {"price_history", "predictions", "error_metrics",
                     "bias_correction", "lead_time_accuracy"} THEN "none" ELSE Kind(a, u)
            /\ Cols(b, u) = Cols(a, u)
    BY <1>1, <1>2, HoldAtIs
<1> HIDE DEF b
<1>4. KindsOK(b)
    <2>1. \A t \in Tables : Kind(b, t) = "absent" => Cols(b, t) = {}
        BY <1>1, <1>2, <1>3 DEF KindsOK
    <2> QED
        BY <1>1, <1>2, <1>3, <2>1 DEF KindsOK, Tables, Current, Learned
<1>5. ColumnsOK(b)
    BY <1>1, <1>2, <1>3 DEF ColumnsOK, Tables, Current
<1>6. VersionOK(b)
    BY <1>1, <1>2, <1>3 DEF VersionOK, Tables, Current
<1>7. TablesMade("v7", b)
    BY <1>1, <1>2, <1>3 DEF Good, TablesMade, Tables, Current, Drops, BeforeTables, BeforeBias,
        BeforeV2, BeforeV3, BeforeTemp, BeforeV5, BeforeAccuracy, BeforeEvaluation
<1>8. ColumnsMade("v7", b)
    BY <1>2, <1>3 DEF Good, ColumnsMade, Tables, Current, BeforeTables, BeforeBias, BeforeV2, BeforeV3,
        BeforeTemp, BeforeV5, BeforeAccuracy, BeforeEvaluation, BeforeV6, BeforeV7,
        BeforeV8, BeforeV9, BeforeOffset, BeforeV10, Drops
<1>9. VersionMade("v7", b)
    BY <1>2, <1>3 DEF Good, VersionMade, BeforeTables, BeforeBias, BeforeV2, BeforeV3,
        BeforeTemp, BeforeV5, BeforeAccuracy, BeforeEvaluation, BeforeV6, BeforeV7,
        BeforeV8, BeforeV9, BeforeOffset, BeforeV10, Drops
<1>10. Migrating("v7", b, m)
    BY <1>1, <1>2, <1>3 DEF Good, Migrating, Tables, Current, BeforeV2, BeforeBias, BeforeTables, Drops
<1>11. Emptied("v7", b, m)
    BY <1>1, <1>2, <1>3, FullIs DEF Good, Emptied, Undropped, Droppable, Fresh, Tables, Current
<1>12. m = "opening" /\ a.version >= 6 => Keeps(a, b)
    BY <1>1, <1>2, <1>3 DEF Keeps, DB, Tables, Current
<1>13. KeepsWeather(a, b)
    BY <1>3 DEF KeepsWeather, Tables, Current
<1> QED
    BY <1>3, <1>4, <1>5, <1>6, <1>7, <1>8, <1>9, <1>10, <1>11, <1>12, <1>13 DEF Leads, Legal, Good, b

LEMMA RekeyWeatherLeads ==
    ASSUME NEW a, NEW m \in {"opening", "clearing"}, Legal(a), Good("v7", a, m),
           a.version < 7
    PROVE  Leads(a, Versioned(IF a.tab["weather_history"].rows = "none" THEN a
                            ELSE Hold(a, {"weather_history"}, "utc"), 7), "v8", m)
<1> DEFINE b == Versioned(IF a.tab["weather_history"].rows = "none" THEN a
                            ELSE Hold(a, {"weather_history"}, "utc"), 7)
<1>1. /\ a \in DB /\ KindsOK(a) /\ ColumnsOK(a) /\ VersionOK(a)
      /\ "weather_history" \in Tables
      /\ "none" \in Rows /\ "utc" \in Rows
    BY DEF Rows, Legal, Tables, Current
<1>2. a.version = 6 /\ Kind(a, "weather_history") # "absent"
    BY <1>1 DEF Good, TablesMade, VersionMade, DB, Tables, Current, BeforeTables, BeforeBias, BeforeV2, BeforeV3,
        BeforeTemp, BeforeV5, BeforeAccuracy, BeforeEvaluation, BeforeV6, BeforeV7,
        BeforeV8, BeforeV9, BeforeOffset, BeforeV10, Drops
<1>3. /\ b \in DB /\ b.version = 7
      /\ \A u \in Tables :
            /\ Kind(b, u) = IF Kind(a, "weather_history") # "none" /\ u \in {"weather_history"} THEN "utc" ELSE Kind(a, u)
            /\ Cols(b, u) = Cols(a, u)
    <2>1. CASE Kind(a, "weather_history") # "none"
        BY <1>1, <2>1, HoldAtIs DEF Kind
    <2>2. CASE ~ (Kind(a, "weather_history") # "none")
        BY <1>1, <2>2, VersionIs DEF Kind
    <2> QED
        BY <2>1, <2>2
<1> HIDE DEF b
<1>4. KindsOK(b)
    <2>1. \A t \in Tables : Kind(b, t) = "absent" => Cols(b, t) = {}
        BY <1>1, <1>2, <1>3 DEF KindsOK
    <2> QED
        BY <1>1, <1>2, <1>3, <2>1 DEF KindsOK, Tables, Current, Learned
<1>5. ColumnsOK(b)
    BY <1>1, <1>2, <1>3 DEF ColumnsOK, Tables, Current
<1>6. VersionOK(b)
    BY <1>1, <1>2, <1>3 DEF VersionOK, Tables, Current
<1>7. TablesMade("v8", b)
    BY <1>1, <1>2, <1>3 DEF Good, TablesMade, Tables, Current, Drops, BeforeTables, BeforeBias,
        BeforeV2, BeforeV3, BeforeTemp, BeforeV5, BeforeAccuracy, BeforeEvaluation
<1>8. ColumnsMade("v8", b)
    BY <1>2, <1>3 DEF Good, ColumnsMade, Tables, Current, BeforeTables, BeforeBias, BeforeV2, BeforeV3,
        BeforeTemp, BeforeV5, BeforeAccuracy, BeforeEvaluation, BeforeV6, BeforeV7,
        BeforeV8, BeforeV9, BeforeOffset, BeforeV10, Drops
<1>9. VersionMade("v8", b)
    BY <1>2, <1>3 DEF Good, VersionMade, BeforeTables, BeforeBias, BeforeV2, BeforeV3,
        BeforeTemp, BeforeV5, BeforeAccuracy, BeforeEvaluation, BeforeV6, BeforeV7,
        BeforeV8, BeforeV9, BeforeOffset, BeforeV10, Drops
<1>10. Migrating("v8", b, m)
    BY <1>1, <1>2, <1>3 DEF Good, Migrating, Tables, Current, BeforeV2, BeforeBias, BeforeTables, Drops
<1>11. Emptied("v8", b, m)
    BY <1>1, <1>2, <1>3, FullIs DEF Good, Emptied, Undropped, Droppable, Fresh, Tables, Current
<1>12. m = "opening" /\ a.version >= 6 => Keeps(a, b)
    BY <1>1, <1>2, <1>3 DEF Keeps, DB, Tables, Current
<1>13. KeepsWeather(a, b)
    BY <1>3 DEF KeepsWeather, Tables, Current
<1> QED
    BY <1>3, <1>4, <1>5, <1>6, <1>7, <1>8, <1>9, <1>10, <1>11, <1>12, <1>13 DEF Leads, Legal, Good, b

LEMMA MovePricesLeads ==
    ASSUME NEW a, NEW m \in {"opening", "clearing"}, Legal(a), Good("v8", a, m),
           a.version < 8
    PROVE  Leads(a, Versioned(IF a.tab["price_history"].rows = "none" THEN a
                            ELSE Hold(Hold(a, {"spot_prices"}, a.tab["price_history"].rows),
                                      {"price_history"}, "none"), 8), "v9", m)
<1> DEFINE b == Versioned(IF a.tab["price_history"].rows = "none" THEN a
                            ELSE Hold(Hold(a, {"spot_prices"}, a.tab["price_history"].rows),
                                      {"price_history"}, "none"), 8)
<1>1. /\ a \in DB /\ KindsOK(a) /\ ColumnsOK(a) /\ VersionOK(a)
      /\ "spot_prices" \in Tables /\ "price_history" \in Tables
      /\ "none" \in Rows /\ "spot" \in Rows
    BY DEF Rows, Legal, Tables, Current
<1>2. a.version = 7 /\ Kind(a, "price_history") \in {"none", "spot"}
    BY <1>1 DEF Good, TablesMade, VersionMade, KindsOK, VersionOK, Learned, DB, Tables, Current, BeforeTables, BeforeBias, BeforeV2, BeforeV3,
        BeforeTemp, BeforeV5, BeforeAccuracy, BeforeEvaluation, BeforeV6, BeforeV7,
        BeforeV8, BeforeV9, BeforeOffset, BeforeV10, Drops
<1>3. /\ b \in DB /\ b.version = 8
      /\ \A u \in Tables :
            /\ Kind(b, u) = IF u = "price_history" THEN "none"
                            ELSE IF u = "spot_prices" /\ Kind(a, "price_history") # "none" THEN "spot"
                            ELSE Kind(a, u)
            /\ Cols(b, u) = Cols(a, u)
    <2>1. CASE Kind(a, "price_history") # "none"
        <3> DEFINE c == Hold(a, {"spot_prices"}, a.tab["price_history"].rows)
        <3>1. a.tab["price_history"].rows = "spot"
            BY <1>2, <2>1 DEF Kind
        <3>2. /\ c \in DB
              /\ \A u \in Tables : /\ Kind(c, u) = IF u \in {"spot_prices"} THEN "spot" ELSE Kind(a, u)
                                   /\ Cols(c, u) = Cols(a, u)
            BY <1>1, <3>1, HoldIs
        <3>3. b = Versioned(Hold(c, {"price_history"}, "none"), 8)
            BY <2>1 DEF Kind
        <3> HIDE DEF b, c
        <3> QED
            BY <1>1, <2>1, <3>2, <3>3, HoldAtIs
    <2>2. CASE ~ (Kind(a, "price_history") # "none")
        BY <1>1, <2>2, VersionIs DEF Kind
    <2> QED
        BY <2>1, <2>2
<1> HIDE DEF b
<1>4. KindsOK(b)
    <2>1. \A t \in Tables : Kind(b, t) = "absent" => Cols(b, t) = {}
        BY <1>1, <1>2, <1>3 DEF KindsOK
    <2> QED
        BY <1>1, <1>2, <1>3, <2>1 DEF KindsOK, Tables, Current, Learned
<1>5. ColumnsOK(b)
    BY <1>1, <1>2, <1>3 DEF ColumnsOK, Tables, Current
<1>6. VersionOK(b)
    BY <1>1, <1>2, <1>3 DEF VersionOK, Tables, Current
<1>7. TablesMade("v9", b)
    BY <1>1, <1>2, <1>3 DEF Good, TablesMade, Tables, Current, Drops, BeforeTables, BeforeBias,
        BeforeV2, BeforeV3, BeforeTemp, BeforeV5, BeforeAccuracy, BeforeEvaluation
<1>8. ColumnsMade("v9", b)
    BY <1>2, <1>3 DEF Good, ColumnsMade, Tables, Current, BeforeTables, BeforeBias, BeforeV2, BeforeV3,
        BeforeTemp, BeforeV5, BeforeAccuracy, BeforeEvaluation, BeforeV6, BeforeV7,
        BeforeV8, BeforeV9, BeforeOffset, BeforeV10, Drops
<1>9. VersionMade("v9", b)
    BY <1>2, <1>3 DEF Good, VersionMade, BeforeTables, BeforeBias, BeforeV2, BeforeV3,
        BeforeTemp, BeforeV5, BeforeAccuracy, BeforeEvaluation, BeforeV6, BeforeV7,
        BeforeV8, BeforeV9, BeforeOffset, BeforeV10, Drops
<1>10. Migrating("v9", b, m)
    BY <1>1, <1>2, <1>3 DEF Good, Migrating, Tables, Current, BeforeV2, BeforeBias, BeforeTables, Drops
<1>11. Emptied("v9", b, m)
    BY <1>1, <1>2, <1>3, FullIs DEF Good, Emptied, Undropped, Droppable, Fresh, Tables, Current
<1>12. m = "opening" /\ a.version >= 6 => Keeps(a, b)
    BY <1>1, <1>2, <1>3 DEF Keeps, DB, Tables, Current
<1>13. KeepsWeather(a, b)
    BY <1>3 DEF KeepsWeather, Tables, Current
<1> QED
    BY <1>3, <1>4, <1>5, <1>6, <1>7, <1>8, <1>9, <1>10, <1>11, <1>12, <1>13 DEF Leads, Legal, Good, b

LEMMA ResetOffsetsLeads ==
    ASSUME NEW a, NEW m \in {"opening", "clearing"}, Legal(a), Good("v10_reset", a, m),
           a.version < 10
    PROVE  Leads(a, Versioned(Hold(a, {"bias_correction"}, "none"), 10), "commit", m)
<1> DEFINE b == Versioned(Hold(a, {"bias_correction"}, "none"), 10)
<1>1. /\ a \in DB /\ KindsOK(a) /\ ColumnsOK(a) /\ VersionOK(a)
      /\ "bias_correction" \in Tables
      /\ "none" \in Rows /\ "utc" \in Rows
    BY DEF Rows, Legal, Tables, Current
<1>2. a.version = 9 /\ Kind(a, "bias_correction") \notin {"absent", "raw"} /\ "offset" \in Cols(a, "predictions")
    BY <1>1 DEF Good, TablesMade, ColumnsMade, VersionMade, VersionOK, DB, Tables, Current, BeforeTables, BeforeBias, BeforeV2, BeforeV3,
        BeforeTemp, BeforeV5, BeforeAccuracy, BeforeEvaluation, BeforeV6, BeforeV7,
        BeforeV8, BeforeV9, BeforeOffset, BeforeV10, Drops
<1>3. /\ b \in DB /\ b.version = 10
      /\ \A u \in Tables :
            /\ Kind(b, u) = IF u \in {"bias_correction"} THEN "none" ELSE Kind(a, u)
            /\ Cols(b, u) = Cols(a, u)
    BY <1>1, <1>2, HoldAtIs
<1> HIDE DEF b
<1>4. KindsOK(b)
    <2>1. \A t \in Tables : Kind(b, t) = "absent" => Cols(b, t) = {}
        BY <1>1, <1>2, <1>3 DEF KindsOK
    <2> QED
        BY <1>1, <1>2, <1>3, <2>1 DEF KindsOK, Tables, Current, Learned
<1>5. ColumnsOK(b)
    BY <1>1, <1>2, <1>3 DEF ColumnsOK, Tables, Current
<1>6. VersionOK(b)
    BY <1>1, <1>2, <1>3 DEF VersionOK, Tables, Current
<1>7. TablesMade("commit", b)
    BY <1>1, <1>2, <1>3 DEF Good, TablesMade, Tables, Current, Drops, BeforeTables, BeforeBias,
        BeforeV2, BeforeV3, BeforeTemp, BeforeV5, BeforeAccuracy, BeforeEvaluation
<1>8. ColumnsMade("commit", b)
    BY <1>2, <1>3 DEF Good, ColumnsMade, Tables, Current, BeforeTables, BeforeBias, BeforeV2, BeforeV3,
        BeforeTemp, BeforeV5, BeforeAccuracy, BeforeEvaluation, BeforeV6, BeforeV7,
        BeforeV8, BeforeV9, BeforeOffset, BeforeV10, Drops
<1>9. VersionMade("commit", b)
    BY <1>2, <1>3 DEF Good, VersionMade, BeforeTables, BeforeBias, BeforeV2, BeforeV3,
        BeforeTemp, BeforeV5, BeforeAccuracy, BeforeEvaluation, BeforeV6, BeforeV7,
        BeforeV8, BeforeV9, BeforeOffset, BeforeV10, Drops
<1>10. Migrating("commit", b, m)
    BY <1>1, <1>2, <1>3 DEF Good, Migrating, Tables, Current, BeforeV2, BeforeBias, BeforeTables, Drops
<1>11. Emptied("commit", b, m)
    BY <1>1, <1>2, <1>3, FullIs DEF Good, Emptied, Undropped, Droppable, Fresh, Tables, Current
<1>12. m = "opening" /\ a.version >= 6 => Keeps(a, b)
    BY <1>1, <1>2, <1>3 DEF Keeps, DB, Tables, Current
<1>13. KeepsWeather(a, b)
    BY <1>3 DEF KeepsWeather, Tables, Current
<1> QED
    BY <1>3, <1>4, <1>5, <1>6, <1>7, <1>8, <1>9, <1>10, <1>11, <1>12, <1>13 DEF Leads, Legal, Good, b

LEMMA TablesDone ==
    ASSUME NEW a, NEW m \in {"opening", "clearing"}, Legal(a), Good("tables", a, m),
           \A t \in {"predictions", "error_metrics", "price_history", "meta",
                 "weather_history", "spot_prices"} : Kind(a, t) # "absent"
    PROVE  Leads(a, a, "bias", m)
<1>1. /\ a \in DB /\ KindsOK(a) /\ ColumnsOK(a) /\ VersionOK(a)
      /\ \A t \in Current : t \in Tables
    BY DEF Legal, Tables
<1>2. TablesMade("bias", a)
    BY <1>1 DEF Good, TablesMade, Drops, BeforeTables, BeforeBias,
        BeforeV2, BeforeV3, BeforeTemp, BeforeV5, BeforeAccuracy, BeforeEvaluation
<1>3. ColumnsMade("bias", a) /\ VersionMade("bias", a)
    BY <1>1 DEF Good, ColumnsMade, VersionMade, DB, BeforeTables, BeforeBias, BeforeV2, BeforeV3,
        BeforeTemp, BeforeV5, BeforeAccuracy, BeforeEvaluation, BeforeV6, BeforeV7,
        BeforeV8, BeforeV9, BeforeOffset, BeforeV10, Drops
<1>4. Migrating("bias", a, m)
    BY <1>1 DEF Good, Migrating, BeforeV2, BeforeBias, BeforeTables, Drops
<1>5. Emptied("bias", a, m)
    BY DEF Good, Emptied, Undropped, Droppable
<1>6. Keeps(a, a) /\ KeepsWeather(a, a)
    BY <1>1 DEF Keeps, KeepsWeather, DB
<1> QED
    BY <1>2, <1>3, <1>4, <1>5, <1>6 DEF Leads, Good

LEMMA PredictionsDone ==
    ASSUME NEW a, NEW m \in {"opening", "clearing"}, Legal(a), Good("v2", a, m),
           "id" \in Cols(a, "predictions")
    PROVE  Leads(a, a, "v3", m)
<1>1. /\ a \in DB /\ KindsOK(a) /\ ColumnsOK(a) /\ VersionOK(a)
      /\ \A t \in Current : t \in Tables
    BY DEF Legal, Tables
<1>2. TablesMade("v3", a)
    BY <1>1 DEF Good, TablesMade, Drops, BeforeTables, BeforeBias,
        BeforeV2, BeforeV3, BeforeTemp, BeforeV5, BeforeAccuracy, BeforeEvaluation
<1>3. ColumnsMade("v3", a) /\ VersionMade("v3", a)
    BY <1>1 DEF Good, ColumnsMade, VersionMade, DB, BeforeTables, BeforeBias, BeforeV2, BeforeV3,
        BeforeTemp, BeforeV5, BeforeAccuracy, BeforeEvaluation, BeforeV6, BeforeV7,
        BeforeV8, BeforeV9, BeforeOffset, BeforeV10, Drops
<1>4. Migrating("v3", a, m)
    BY <1>1 DEF Good, Migrating, BeforeV2, BeforeBias, BeforeTables, Drops
<1>5. Emptied("v3", a, m)
    BY DEF Good, Emptied, Undropped, Droppable
<1>6. Keeps(a, a) /\ KeepsWeather(a, a)
    BY <1>1 DEF Keeps, KeepsWeather, DB
<1> QED
    BY <1>2, <1>3, <1>4, <1>5, <1>6 DEF Leads, Good

LEMMA PredictionsBegun ==
    ASSUME NEW a, NEW m \in {"opening", "clearing"}, Legal(a), Good("v2", a, m),
           "id" \notin Cols(a, "predictions")
    PROVE  Leads(a, a, "v2_commit", m)
<1>1. /\ a \in DB /\ KindsOK(a) /\ ColumnsOK(a) /\ VersionOK(a)
      /\ \A t \in Current : t \in Tables
    BY DEF Legal, Tables
<1>2. m = "opening" /\ a.version = 0
    <2>1. CASE m = "opening"
        BY <1>1, <2>1 DEF Good, TablesMade, ColumnsOK, BeforeTables, BeforeBias, BeforeV2, BeforeV3,
        BeforeTemp, BeforeV5, BeforeAccuracy, BeforeEvaluation, BeforeV6, BeforeV7,
        BeforeV8, BeforeV9, BeforeOffset, BeforeV10, Drops
    <2>2. CASE m = "clearing"
        BY <1>1, <2>2, FullIs DEF Good, Emptied, Undropped, Droppable, Fresh, TablesMade, ColumnsOK, BeforeTables, BeforeBias, BeforeV2, BeforeV3,
        BeforeTemp, BeforeV5, BeforeAccuracy, BeforeEvaluation, BeforeV6, BeforeV7,
        BeforeV8, BeforeV9, BeforeOffset, BeforeV10, Drops
    <2> QED
        BY <2>1, <2>2
<1>3. TablesMade("v2_commit", a)
    BY <1>1, <1>2 DEF Good, TablesMade, Drops, BeforeTables, BeforeBias,
        BeforeV2, BeforeV3, BeforeTemp, BeforeV5, BeforeAccuracy, BeforeEvaluation
<1>4. ColumnsMade("v2_commit", a) /\ VersionMade("v2_commit", a)
    BY <1>1, <1>2 DEF Good, ColumnsMade, VersionMade, DB, BeforeTables, BeforeBias, BeforeV2, BeforeV3,
        BeforeTemp, BeforeV5, BeforeAccuracy, BeforeEvaluation, BeforeV6, BeforeV7,
        BeforeV8, BeforeV9, BeforeOffset, BeforeV10, Drops
<1>5. Migrating("v2_commit", a, m)
    BY <1>1, <1>2 DEF Good, Migrating, BeforeV2, BeforeBias, BeforeTables, Drops
<1>6. Emptied("v2_commit", a, m)
    BY DEF Good, Emptied, Undropped, Droppable
<1>7. Keeps(a, a) /\ KeepsWeather(a, a)
    BY <1>1 DEF Keeps, KeepsWeather, DB
<1> QED
    BY <1>3, <1>4, <1>5, <1>6, <1>7 DEF Leads, Good

LEMMA PredictionsOn ==
    ASSUME NEW a, NEW m \in {"opening", "clearing"}, Legal(a), Good("v2_commit", a, m)
    PROVE  Leads(a, a, "v2_rename", m)
<1>1. /\ a \in DB /\ KindsOK(a) /\ ColumnsOK(a) /\ VersionOK(a)
      /\ \A t \in Current : t \in Tables
    BY DEF Legal, Tables
<1>2. TablesMade("v2_rename", a)
    BY <1>1 DEF Good, TablesMade, Drops, BeforeTables, BeforeBias,
        BeforeV2, BeforeV3, BeforeTemp, BeforeV5, BeforeAccuracy, BeforeEvaluation
<1>3. ColumnsMade("v2_rename", a) /\ VersionMade("v2_rename", a)
    BY <1>1 DEF Good, ColumnsMade, VersionMade, DB, BeforeTables, BeforeBias, BeforeV2, BeforeV3,
        BeforeTemp, BeforeV5, BeforeAccuracy, BeforeEvaluation, BeforeV6, BeforeV7,
        BeforeV8, BeforeV9, BeforeOffset, BeforeV10, Drops
<1>4. Migrating("v2_rename", a, m)
    BY <1>1 DEF Good, Migrating, BeforeV2, BeforeBias, BeforeTables, Drops
<1>5. Emptied("v2_rename", a, m)
    BY DEF Good, Emptied, Undropped, Droppable
<1>6. Keeps(a, a) /\ KeepsWeather(a, a)
    BY <1>1 DEF Keeps, KeepsWeather, DB
<1> QED
    BY <1>2, <1>3, <1>4, <1>5, <1>6 DEF Leads, Good

LEMMA HourlyDone ==
    ASSUME NEW a, NEW m \in {"opening", "clearing"}, Legal(a), Good("v3", a, m),
           a.version >= 3
    PROVE  Leads(a, a, "v4", m)
<1>1. /\ a \in DB /\ KindsOK(a) /\ ColumnsOK(a) /\ VersionOK(a)
      /\ \A t \in Current : t \in Tables
    BY DEF Legal, Tables
<1>2. "id" \in Cols(a, "predictions")
    BY <1>1 DEF Good, ColumnsMade, BeforeTables, BeforeBias, BeforeV2, BeforeV3,
        BeforeTemp, BeforeV5, BeforeAccuracy, BeforeEvaluation, BeforeV6, BeforeV7,
        BeforeV8, BeforeV9, BeforeOffset, BeforeV10, Drops
<1>3. TablesMade("v4", a)
    BY <1>1, <1>2 DEF Good, TablesMade, Drops, BeforeTables, BeforeBias,
        BeforeV2, BeforeV3, BeforeTemp, BeforeV5, BeforeAccuracy, BeforeEvaluation
<1>4. ColumnsMade("v4", a) /\ VersionMade("v4", a)
    BY <1>1, <1>2 DEF Good, ColumnsMade, VersionMade, DB, BeforeTables, BeforeBias, BeforeV2, BeforeV3,
        BeforeTemp, BeforeV5, BeforeAccuracy, BeforeEvaluation, BeforeV6, BeforeV7,
        BeforeV8, BeforeV9, BeforeOffset, BeforeV10, Drops
<1>5. Migrating("v4", a, m)
    BY <1>1, <1>2 DEF Good, Migrating, BeforeV2, BeforeBias, BeforeTables, Drops
<1>6. Emptied("v4", a, m)
    BY DEF Good, Emptied, Undropped, Droppable
<1>7. Keeps(a, a) /\ KeepsWeather(a, a)
    BY <1>1 DEF Keeps, KeepsWeather, DB
<1> QED
    BY <1>3, <1>4, <1>5, <1>6, <1>7 DEF Leads, Good

LEMMA ForecastDone ==
    ASSUME NEW a, NEW m \in {"opening", "clearing"}, Legal(a), Good("v4", a, m),
           "temp" \in Cols(a, "predictions")
    PROVE  Leads(a, a, "v5", m)
<1>1. /\ a \in DB /\ KindsOK(a) /\ ColumnsOK(a) /\ VersionOK(a)
      /\ \A t \in Current : t \in Tables
    BY DEF Legal, Tables
<1>2. TablesMade("v5", a)
    BY <1>1 DEF Good, TablesMade, Drops, BeforeTables, BeforeBias,
        BeforeV2, BeforeV3, BeforeTemp, BeforeV5, BeforeAccuracy, BeforeEvaluation
<1>3. ColumnsMade("v5", a) /\ VersionMade("v5", a)
    BY <1>1 DEF Good, ColumnsMade, VersionMade, DB, BeforeTables, BeforeBias, BeforeV2, BeforeV3,
        BeforeTemp, BeforeV5, BeforeAccuracy, BeforeEvaluation, BeforeV6, BeforeV7,
        BeforeV8, BeforeV9, BeforeOffset, BeforeV10, Drops
<1>4. Migrating("v5", a, m)
    BY <1>1 DEF Good, Migrating, BeforeV2, BeforeBias, BeforeTables, Drops
<1>5. Emptied("v5", a, m)
    BY DEF Good, Emptied, Undropped, Droppable
<1>6. Keeps(a, a) /\ KeepsWeather(a, a)
    BY <1>1 DEF Keeps, KeepsWeather, DB
<1> QED
    BY <1>2, <1>3, <1>4, <1>5, <1>6 DEF Leads, Good

LEMMA ForecastBegun ==
    ASSUME NEW a, NEW m \in {"opening", "clearing"}, Legal(a), Good("v4", a, m),
           "temp" \notin Cols(a, "predictions")
    PROVE  Leads(a, a, "v4_commit", m)
<1>1. /\ a \in DB /\ KindsOK(a) /\ ColumnsOK(a) /\ VersionOK(a)
      /\ \A t \in Current : t \in Tables
    BY DEF Legal, Tables
<1>2. m = "opening" /\ a.version <= 3
    <2>1. CASE m = "opening"
        BY <1>1, <2>1 DEF Good, TablesMade, ColumnsOK, BeforeTables, BeforeBias, BeforeV2, BeforeV3,
        BeforeTemp, BeforeV5, BeforeAccuracy, BeforeEvaluation, BeforeV6, BeforeV7,
        BeforeV8, BeforeV9, BeforeOffset, BeforeV10, Drops
    <2>2. CASE m = "clearing"
        BY <1>1, <2>2, FullIs DEF Good, Emptied, Undropped, Droppable, Fresh, TablesMade, ColumnsOK, BeforeTables, BeforeBias, BeforeV2, BeforeV3,
        BeforeTemp, BeforeV5, BeforeAccuracy, BeforeEvaluation, BeforeV6, BeforeV7,
        BeforeV8, BeforeV9, BeforeOffset, BeforeV10, Drops
    <2> QED
        BY <2>1, <2>2
<1>3. TablesMade("v4_commit", a)
    BY <1>1, <1>2 DEF Good, TablesMade, Drops, BeforeTables, BeforeBias,
        BeforeV2, BeforeV3, BeforeTemp, BeforeV5, BeforeAccuracy, BeforeEvaluation
<1>4. ColumnsMade("v4_commit", a) /\ VersionMade("v4_commit", a)
    BY <1>1, <1>2 DEF Good, ColumnsMade, VersionMade, DB, BeforeTables, BeforeBias, BeforeV2, BeforeV3,
        BeforeTemp, BeforeV5, BeforeAccuracy, BeforeEvaluation, BeforeV6, BeforeV7,
        BeforeV8, BeforeV9, BeforeOffset, BeforeV10, Drops
<1>5. Migrating("v4_commit", a, m)
    BY <1>1, <1>2 DEF Good, Migrating, BeforeV2, BeforeBias, BeforeTables, Drops
<1>6. Emptied("v4_commit", a, m)
    BY DEF Good, Emptied, Undropped, Droppable
<1>7. Keeps(a, a) /\ KeepsWeather(a, a)
    BY <1>1 DEF Keeps, KeepsWeather, DB
<1> QED
    BY <1>3, <1>4, <1>5, <1>6, <1>7 DEF Leads, Good

LEMMA ForecastOn ==
    ASSUME NEW a, NEW m \in {"opening", "clearing"}, Legal(a), Good("v4_commit", a, m)
    PROVE  Leads(a, a, "temp", m)
<1>1. /\ a \in DB /\ KindsOK(a) /\ ColumnsOK(a) /\ VersionOK(a)
      /\ \A t \in Current : t \in Tables
    BY DEF Legal, Tables
<1>2. TablesMade("temp", a)
    BY <1>1 DEF Good, TablesMade, Drops, BeforeTables, BeforeBias,
        BeforeV2, BeforeV3, BeforeTemp, BeforeV5, BeforeAccuracy, BeforeEvaluation
<1>3. ColumnsMade("temp", a) /\ VersionMade("temp", a)
    BY <1>1 DEF Good, ColumnsMade, VersionMade, DB, BeforeTables, BeforeBias, BeforeV2, BeforeV3,
        BeforeTemp, BeforeV5, BeforeAccuracy, BeforeEvaluation, BeforeV6, BeforeV7,
        BeforeV8, BeforeV9, BeforeOffset, BeforeV10, Drops
<1>4. Migrating("temp", a, m)
    BY <1>1 DEF Good, Migrating, BeforeV2, BeforeBias, BeforeTables, Drops
<1>5. Emptied("temp", a, m)
    BY DEF Good, Emptied, Undropped, Droppable
<1>6. Keeps(a, a) /\ KeepsWeather(a, a)
    BY <1>1 DEF Keeps, KeepsWeather, DB
<1> QED
    BY <1>2, <1>3, <1>4, <1>5, <1>6 DEF Leads, Good

LEMMA FactorsDone ==
    ASSUME NEW a, NEW m \in {"opening", "clearing"}, Legal(a), Good("v5", a, m),
           a.version >= 5
    PROVE  Leads(a, a, "accuracy", m)
<1>1. /\ a \in DB /\ KindsOK(a) /\ ColumnsOK(a) /\ VersionOK(a)
      /\ \A t \in Current : t \in Tables
    BY DEF Legal, Tables
<1>2. TablesMade("accuracy", a)
    BY <1>1 DEF Good, TablesMade, Drops, BeforeTables, BeforeBias,
        BeforeV2, BeforeV3, BeforeTemp, BeforeV5, BeforeAccuracy, BeforeEvaluation
<1>3. ColumnsMade("accuracy", a) /\ VersionMade("accuracy", a)
    BY <1>1 DEF Good, ColumnsMade, VersionMade, DB, BeforeTables, BeforeBias, BeforeV2, BeforeV3,
        BeforeTemp, BeforeV5, BeforeAccuracy, BeforeEvaluation, BeforeV6, BeforeV7,
        BeforeV8, BeforeV9, BeforeOffset, BeforeV10, Drops
<1>4. Migrating("accuracy", a, m)
    BY <1>1 DEF Good, Migrating, BeforeV2, BeforeBias, BeforeTables, Drops
<1>5. Emptied("accuracy", a, m)
    BY DEF Good, Emptied, Undropped, Droppable
<1>6. Keeps(a, a) /\ KeepsWeather(a, a)
    BY <1>1 DEF Keeps, KeepsWeather, DB
<1> QED
    BY <1>2, <1>3, <1>4, <1>5, <1>6 DEF Leads, Good

LEMMA EvaluationDone ==
    ASSUME NEW a, NEW m \in {"opening", "clearing"}, Legal(a), Good("evaluation", a, m),
           Kind(a, "evaluation") = "absent" \/ "target_hours" \in Cols(a, "evaluation")
    PROVE  Leads(a, a, "eval_create", m)
<1>1. /\ a \in DB /\ KindsOK(a) /\ ColumnsOK(a) /\ VersionOK(a)
      /\ \A t \in Current : t \in Tables
    BY DEF Legal, Tables
<1>2. \/ Kind(a, "evaluation") = "absent"
      \/ Cols(a, "evaluation") = {"target_hours"}
    BY <1>1 DEF Good, ColumnsOK
<1>3. TablesMade("eval_create", a)
    BY <1>1, <1>2 DEF Good, TablesMade, Drops, BeforeTables, BeforeBias,
        BeforeV2, BeforeV3, BeforeTemp, BeforeV5, BeforeAccuracy, BeforeEvaluation
<1>4. ColumnsMade("eval_create", a) /\ VersionMade("eval_create", a)
    BY <1>1, <1>2 DEF Good, ColumnsMade, VersionMade, DB, BeforeTables, BeforeBias, BeforeV2, BeforeV3,
        BeforeTemp, BeforeV5, BeforeAccuracy, BeforeEvaluation, BeforeV6, BeforeV7,
        BeforeV8, BeforeV9, BeforeOffset, BeforeV10, Drops
<1>5. Migrating("eval_create", a, m)
    BY <1>1, <1>2 DEF Good, Migrating, BeforeV2, BeforeBias, BeforeTables, Drops
<1>6. Emptied("eval_create", a, m)
    BY DEF Good, Emptied, Undropped, Droppable
<1>7. Keeps(a, a) /\ KeepsWeather(a, a)
    BY <1>1 DEF Keeps, KeepsWeather, DB
<1> QED
    BY <1>3, <1>4, <1>5, <1>6, <1>7 DEF Leads, Good

LEMMA EvaluationBegun ==
    ASSUME NEW a, NEW m \in {"opening", "clearing"}, Legal(a), Good("evaluation", a, m),
           Kind(a, "evaluation") # "absent", "target_hours" \notin Cols(a, "evaluation")
    PROVE  Leads(a, a, "eval_rename", m)
<1>1. /\ a \in DB /\ KindsOK(a) /\ ColumnsOK(a) /\ VersionOK(a)
      /\ \A t \in Current : t \in Tables
    BY DEF Legal, Tables
<1>2. m = "opening" /\ Cols(a, "evaluation") = {}
    <2>1. CASE m = "opening"
        BY <1>1, <2>1 DEF Good, ColumnsOK
    <2>2. CASE m = "clearing"
        BY <1>1, <2>2, FullIs DEF Good, Emptied, Undropped, Droppable, Fresh, ColumnsOK
    <2> QED
        BY <2>1, <2>2
<1>3. TablesMade("eval_rename", a)
    BY <1>1, <1>2 DEF Good, TablesMade, Drops, BeforeTables, BeforeBias,
        BeforeV2, BeforeV3, BeforeTemp, BeforeV5, BeforeAccuracy, BeforeEvaluation
<1>4. ColumnsMade("eval_rename", a) /\ VersionMade("eval_rename", a)
    BY <1>1, <1>2 DEF Good, ColumnsMade, VersionMade, DB, BeforeTables, BeforeBias, BeforeV2, BeforeV3,
        BeforeTemp, BeforeV5, BeforeAccuracy, BeforeEvaluation, BeforeV6, BeforeV7,
        BeforeV8, BeforeV9, BeforeOffset, BeforeV10, Drops
<1>5. Migrating("eval_rename", a, m)
    BY <1>1, <1>2 DEF Good, Migrating, BeforeV2, BeforeBias, BeforeTables, Drops
<1>6. Emptied("eval_rename", a, m)
    BY DEF Good, Emptied, Undropped, Droppable
<1>7. Keeps(a, a) /\ KeepsWeather(a, a)
    BY <1>1 DEF Keeps, KeepsWeather, DB
<1> QED
    BY <1>3, <1>4, <1>5, <1>6, <1>7 DEF Leads, Good

LEMMA ConsumerDone ==
    ASSUME NEW a, NEW m \in {"opening", "clearing"}, Legal(a), Good("v6", a, m),
           a.version >= 6
    PROVE  Leads(a, a, "v7", m)
<1>1. /\ a \in DB /\ KindsOK(a) /\ ColumnsOK(a) /\ VersionOK(a)
      /\ \A t \in Current : t \in Tables
    BY DEF Legal, Tables
<1>2. TablesMade("v7", a)
    BY <1>1 DEF Good, TablesMade, Drops, BeforeTables, BeforeBias,
        BeforeV2, BeforeV3, BeforeTemp, BeforeV5, BeforeAccuracy, BeforeEvaluation
<1>3. ColumnsMade("v7", a) /\ VersionMade("v7", a)
    BY <1>1 DEF Good, ColumnsMade, VersionMade, DB, BeforeTables, BeforeBias, BeforeV2, BeforeV3,
        BeforeTemp, BeforeV5, BeforeAccuracy, BeforeEvaluation, BeforeV6, BeforeV7,
        BeforeV8, BeforeV9, BeforeOffset, BeforeV10, Drops
<1>4. Migrating("v7", a, m)
    BY <1>1 DEF Good, Migrating, BeforeV2, BeforeBias, BeforeTables, Drops
<1>5. Emptied("v7", a, m)
    BY DEF Good, Emptied, Undropped, Droppable
<1>6. Keeps(a, a) /\ KeepsWeather(a, a)
    BY <1>1 DEF Keeps, KeepsWeather, DB
<1> QED
    BY <1>2, <1>3, <1>4, <1>5, <1>6 DEF Leads, Good

LEMMA WeatherDone ==
    ASSUME NEW a, NEW m \in {"opening", "clearing"}, Legal(a), Good("v7", a, m),
           a.version >= 7
    PROVE  Leads(a, a, "v8", m)
<1>1. /\ a \in DB /\ KindsOK(a) /\ ColumnsOK(a) /\ VersionOK(a)
      /\ \A t \in Current : t \in Tables
    BY DEF Legal, Tables
<1>2. TablesMade("v8", a)
    BY <1>1 DEF Good, TablesMade, Drops, BeforeTables, BeforeBias,
        BeforeV2, BeforeV3, BeforeTemp, BeforeV5, BeforeAccuracy, BeforeEvaluation
<1>3. ColumnsMade("v8", a) /\ VersionMade("v8", a)
    BY <1>1 DEF Good, ColumnsMade, VersionMade, DB, BeforeTables, BeforeBias, BeforeV2, BeforeV3,
        BeforeTemp, BeforeV5, BeforeAccuracy, BeforeEvaluation, BeforeV6, BeforeV7,
        BeforeV8, BeforeV9, BeforeOffset, BeforeV10, Drops
<1>4. Migrating("v8", a, m)
    BY <1>1 DEF Good, Migrating, BeforeV2, BeforeBias, BeforeTables, Drops
<1>5. Emptied("v8", a, m)
    BY DEF Good, Emptied, Undropped, Droppable
<1>6. Keeps(a, a) /\ KeepsWeather(a, a)
    BY <1>1 DEF Keeps, KeepsWeather, DB
<1> QED
    BY <1>2, <1>3, <1>4, <1>5, <1>6 DEF Leads, Good

LEMMA PricesDone ==
    ASSUME NEW a, NEW m \in {"opening", "clearing"}, Legal(a), Good("v8", a, m),
           a.version >= 8
    PROVE  Leads(a, a, "v9", m)
<1>1. /\ a \in DB /\ KindsOK(a) /\ ColumnsOK(a) /\ VersionOK(a)
      /\ \A t \in Current : t \in Tables
    BY DEF Legal, Tables
<1>2. TablesMade("v9", a)
    BY <1>1 DEF Good, TablesMade, Drops, BeforeTables, BeforeBias,
        BeforeV2, BeforeV3, BeforeTemp, BeforeV5, BeforeAccuracy, BeforeEvaluation
<1>3. ColumnsMade("v9", a) /\ VersionMade("v9", a)
    BY <1>1 DEF Good, ColumnsMade, VersionMade, DB, BeforeTables, BeforeBias, BeforeV2, BeforeV3,
        BeforeTemp, BeforeV5, BeforeAccuracy, BeforeEvaluation, BeforeV6, BeforeV7,
        BeforeV8, BeforeV9, BeforeOffset, BeforeV10, Drops
<1>4. Migrating("v9", a, m)
    BY <1>1 DEF Good, Migrating, BeforeV2, BeforeBias, BeforeTables, Drops
<1>5. Emptied("v9", a, m)
    BY DEF Good, Emptied, Undropped, Droppable
<1>6. Keeps(a, a) /\ KeepsWeather(a, a)
    BY <1>1 DEF Keeps, KeepsWeather, DB
<1> QED
    BY <1>2, <1>3, <1>4, <1>5, <1>6 DEF Leads, Good

LEMMA BiasDone ==
    ASSUME NEW a, NEW m \in {"opening", "clearing"}, Legal(a), Good("v9", a, m),
           a.version >= 9
    PROVE  Leads(a, a, "v10", m)
<1>1. /\ a \in DB /\ KindsOK(a) /\ ColumnsOK(a) /\ VersionOK(a)
      /\ \A t \in Current : t \in Tables
    BY DEF Legal, Tables
<1>2. TablesMade("v10", a)
    BY <1>1 DEF Good, TablesMade, Drops, BeforeTables, BeforeBias,
        BeforeV2, BeforeV3, BeforeTemp, BeforeV5, BeforeAccuracy, BeforeEvaluation
<1>3. ColumnsMade("v10", a) /\ VersionMade("v10", a)
    BY <1>1 DEF Good, ColumnsMade, VersionMade, DB, BeforeTables, BeforeBias, BeforeV2, BeforeV3,
        BeforeTemp, BeforeV5, BeforeAccuracy, BeforeEvaluation, BeforeV6, BeforeV7,
        BeforeV8, BeforeV9, BeforeOffset, BeforeV10, Drops
<1>4. Migrating("v10", a, m)
    BY <1>1 DEF Good, Migrating, BeforeV2, BeforeBias, BeforeTables, Drops
<1>5. Emptied("v10", a, m)
    BY DEF Good, Emptied, Undropped, Droppable
<1>6. Keeps(a, a) /\ KeepsWeather(a, a)
    BY <1>1 DEF Keeps, KeepsWeather, DB
<1> QED
    BY <1>2, <1>3, <1>4, <1>5, <1>6 DEF Leads, Good

LEMMA BiasBucketed ==
    ASSUME NEW a, NEW m \in {"opening", "clearing"}, Legal(a), Good("v9", a, m),
           a.version < 9, "bucket" \in Cols(a, "bias_correction")
    PROVE  Leads(a, a, "v9_version", m)
<1>1. /\ a \in DB /\ KindsOK(a) /\ ColumnsOK(a) /\ VersionOK(a)
      /\ \A t \in Current : t \in Tables
    BY DEF Legal, Tables
<1>2. a.version = 8 /\ Cols(a, "bias_correction") = {"bucket"}
    BY <1>1 DEF Good, VersionMade, ColumnsOK, DB, BeforeTables, BeforeBias, BeforeV2, BeforeV3,
        BeforeTemp, BeforeV5, BeforeAccuracy, BeforeEvaluation, BeforeV6, BeforeV7,
        BeforeV8, BeforeV9, BeforeOffset, BeforeV10, Drops
<1>3. TablesMade("v9_version", a)
    BY <1>1, <1>2 DEF Good, TablesMade, Drops, BeforeTables, BeforeBias,
        BeforeV2, BeforeV3, BeforeTemp, BeforeV5, BeforeAccuracy, BeforeEvaluation
<1>4. ColumnsMade("v9_version", a) /\ VersionMade("v9_version", a)
    BY <1>1, <1>2 DEF Good, ColumnsMade, VersionMade, DB, BeforeTables, BeforeBias, BeforeV2, BeforeV3,
        BeforeTemp, BeforeV5, BeforeAccuracy, BeforeEvaluation, BeforeV6, BeforeV7,
        BeforeV8, BeforeV9, BeforeOffset, BeforeV10, Drops
<1>5. Migrating("v9_version", a, m)
    BY <1>1, <1>2 DEF Good, Migrating, BeforeV2, BeforeBias, BeforeTables, Drops
<1>6. Emptied("v9_version", a, m)
    BY DEF Good, Emptied, Undropped, Droppable
<1>7. Keeps(a, a) /\ KeepsWeather(a, a)
    BY <1>1 DEF Keeps, KeepsWeather, DB
<1> QED
    BY <1>3, <1>4, <1>5, <1>6, <1>7 DEF Leads, Good

LEMMA BiasBegun ==
    ASSUME NEW a, NEW m \in {"opening", "clearing"}, Legal(a), Good("v9", a, m),
           a.version < 9, "bucket" \notin Cols(a, "bias_correction")
    PROVE  Leads(a, a, "v9_rename", m)
<1>1. /\ a \in DB /\ KindsOK(a) /\ ColumnsOK(a) /\ VersionOK(a)
      /\ \A t \in Current : t \in Tables
    BY DEF Legal, Tables
<1>2. m = "opening" /\ a.version = 8 /\ Cols(a, "bias_correction") = {}
    <2>1. CASE m = "opening"
        BY <1>1, <2>1 DEF Good, VersionMade, TablesMade, ColumnsOK, DB, BeforeTables, BeforeBias, BeforeV2, BeforeV3,
        BeforeTemp, BeforeV5, BeforeAccuracy, BeforeEvaluation, BeforeV6, BeforeV7,
        BeforeV8, BeforeV9, BeforeOffset, BeforeV10, Drops
    <2>2. CASE m = "clearing"
        BY <1>1, <2>2, FullIs DEF Good, Emptied, Undropped, Droppable, Fresh, VersionMade, TablesMade, ColumnsOK, DB, BeforeTables, BeforeBias, BeforeV2, BeforeV3,
        BeforeTemp, BeforeV5, BeforeAccuracy, BeforeEvaluation, BeforeV6, BeforeV7,
        BeforeV8, BeforeV9, BeforeOffset, BeforeV10, Drops
    <2> QED
        BY <2>1, <2>2
<1>3. TablesMade("v9_rename", a)
    BY <1>1, <1>2 DEF Good, TablesMade, Drops, BeforeTables, BeforeBias,
        BeforeV2, BeforeV3, BeforeTemp, BeforeV5, BeforeAccuracy, BeforeEvaluation
<1>4. ColumnsMade("v9_rename", a) /\ VersionMade("v9_rename", a)
    BY <1>1, <1>2 DEF Good, ColumnsMade, VersionMade, DB, BeforeTables, BeforeBias, BeforeV2, BeforeV3,
        BeforeTemp, BeforeV5, BeforeAccuracy, BeforeEvaluation, BeforeV6, BeforeV7,
        BeforeV8, BeforeV9, BeforeOffset, BeforeV10, Drops
<1>5. Migrating("v9_rename", a, m)
    BY <1>1, <1>2 DEF Good, Migrating, BeforeV2, BeforeBias, BeforeTables, Drops
<1>6. Emptied("v9_rename", a, m)
    BY DEF Good, Emptied, Undropped, Droppable
<1>7. Keeps(a, a) /\ KeepsWeather(a, a)
    BY <1>1 DEF Keeps, KeepsWeather, DB
<1> QED
    BY <1>3, <1>4, <1>5, <1>6, <1>7 DEF Leads, Good

LEMMA OffsetsDone ==
    ASSUME NEW a, NEW m \in {"opening", "clearing"}, Legal(a), Good("v10_reset", a, m),
           a.version >= 10
    PROVE  Leads(a, a, "commit", m)
<1>1. /\ a \in DB /\ KindsOK(a) /\ ColumnsOK(a) /\ VersionOK(a)
      /\ \A t \in Current : t \in Tables
    BY DEF Legal, Tables
<1>2. TablesMade("commit", a)
    BY <1>1 DEF Good, TablesMade, Drops, BeforeTables, BeforeBias,
        BeforeV2, BeforeV3, BeforeTemp, BeforeV5, BeforeAccuracy, BeforeEvaluation
<1>3. ColumnsMade("commit", a) /\ VersionMade("commit", a)
    BY <1>1 DEF Good, ColumnsMade, VersionMade, DB, BeforeTables, BeforeBias, BeforeV2, BeforeV3,
        BeforeTemp, BeforeV5, BeforeAccuracy, BeforeEvaluation, BeforeV6, BeforeV7,
        BeforeV8, BeforeV9, BeforeOffset, BeforeV10, Drops
<1>4. Migrating("commit", a, m)
    BY <1>1 DEF Good, Migrating, BeforeV2, BeforeBias, BeforeTables, Drops
<1>5. Emptied("commit", a, m)
    BY DEF Good, Emptied, Undropped, Droppable
<1>6. Keeps(a, a) /\ KeepsWeather(a, a)
    BY <1>1 DEF Keeps, KeepsWeather, DB
<1> QED
    BY <1>2, <1>3, <1>4, <1>5, <1>6 DEF Leads, Good

LEMMA CommitDone ==
    ASSUME NEW a, NEW m \in {"opening", "clearing"}, Legal(a), Good("commit", a, m)
    PROVE  Leads(a, a, "end", m)
<1>1. /\ a \in DB /\ KindsOK(a) /\ ColumnsOK(a) /\ VersionOK(a)
      /\ \A t \in Current : t \in Tables
    BY DEF Legal, Tables
<1>2. TablesMade("end", a)
    BY <1>1 DEF Good, TablesMade, Drops, BeforeTables, BeforeBias,
        BeforeV2, BeforeV3, BeforeTemp, BeforeV5, BeforeAccuracy, BeforeEvaluation
<1>3. ColumnsMade("end", a) /\ VersionMade("end", a)
    BY <1>1 DEF Good, ColumnsMade, VersionMade, DB, BeforeTables, BeforeBias, BeforeV2, BeforeV3,
        BeforeTemp, BeforeV5, BeforeAccuracy, BeforeEvaluation, BeforeV6, BeforeV7,
        BeforeV8, BeforeV9, BeforeOffset, BeforeV10, Drops
<1>4. Migrating("end", a, m)
    BY <1>1 DEF Good, Migrating, BeforeV2, BeforeBias, BeforeTables, Drops
<1>5. Emptied("end", a, m)
    BY DEF Good, Emptied, Undropped, Droppable
<1>6. Keeps(a, a) /\ KeepsWeather(a, a)
    BY <1>1 DEF Keeps, KeepsWeather, DB
<1> QED
    BY <1>2, <1>3, <1>4, <1>5, <1>6 DEF Leads, Good

\* CREATE TABLE of a table that the script makes.
LEMMA TablesLeads ==
    ASSUME NEW a, NEW m \in {"opening", "clearing"}, Legal(a), Good("tables", a, m),
           NEW t \in {"predictions", "error_metrics", "price_history", "meta",
                      "weather_history", "spot_prices"}
    PROVE  Leads(a, Create(a, t), "tables", m)
<1> DEFINE b == Create(a, t)
<1>1. /\ a \in DB /\ KindsOK(a) /\ ColumnsOK(a) /\ VersionOK(a) /\ t \in Tables
      /\ t = "predictions" => Full(t) = {"id", "offset", "temp", "wind", "cloud"}
      /\ t # "predictions" => Full(t) = {}
    BY FullIs DEF Legal, Tables, Current
<1>2. /\ b \in DB /\ b.version = a.version
      /\ \A u \in Tables :
            IF u = t /\ Kind(a, t) = "absent"
            THEN Kind(b, u) = "none" /\ Cols(b, u) = Full(t)
            ELSE Kind(b, u) = Kind(a, u) /\ Cols(b, u) = Cols(a, u)
    BY <1>1, CreateIs
<1> HIDE DEF b
<1>3. KindsOK(b)
    <2>1. \A u \in Tables : Kind(b, u) = "absent" => Cols(b, u) = {}
        BY <1>1, <1>2 DEF KindsOK
    <2>2. \A u \in Tables : u = t \/ Kind(b, u) = Kind(a, u)
        BY <1>2
    <2>3. Kind(b, t) = Kind(a, t) \/ Kind(b, t) = "none"
        BY <1>1, <1>2
    <2> QED
        BY <1>1, <2>1, <2>2, <2>3 DEF KindsOK, Tables, Current, Learned
<1>4. ColumnsOK(b)
    BY <1>1, <1>2 DEF ColumnsOK, Tables, Current
<1>5. VersionOK(b)
    BY <1>1, <1>2 DEF VersionOK, Tables, Current
<1>6. TablesMade("tables", b)
    BY DEF TablesMade, BeforeTables, BeforeBias, BeforeV2, BeforeV3, BeforeTemp, BeforeV5,
        BeforeAccuracy, BeforeEvaluation
<1>7. ColumnsMade("tables", b) /\ VersionMade("tables", b)
    BY DEF ColumnsMade, VersionMade, BeforeTables, BeforeBias, BeforeV2, BeforeV3, BeforeTemp,
        BeforeV5, BeforeAccuracy, BeforeEvaluation, BeforeV6, BeforeV7, BeforeV8,
        BeforeV9, BeforeOffset, BeforeV10
<1>8. Migrating("tables", b, m)
    BY DEF Migrating, BeforeBias, BeforeTables, BeforeV2
<1>9. Emptied("tables", b, m)
    <2>1. \A u \in Droppable : u \in Tables
        BY DEF Droppable, Tables, Current
    <2>2. m = "clearing" => \A u \in Droppable : Fresh(a, u)
        BY DEF Good, Emptied, Undropped
    <2>3. m = "clearing" => \A u \in Droppable : Fresh(b, u)
        BY <1>2, <2>1, <2>2 DEF Fresh
    <2> QED
        BY <2>3 DEF Emptied
<1>10. Keeps(a, b)
    <2>1. a.version <= b.version
        BY <1>1, <1>2 DEF DB
    <2>2. \A u \in Tables : Kind(b, u) = Kind(a, u) \/ Kind(a, u) = "absent"
        BY <1>2
    <2> QED
        BY <2>1, <2>2 DEF Keeps, Tables, Current
<1>11. KeepsWeather(a, b)
    BY <1>2 DEF KeepsWeather, Tables, Current
<1> QED
    BY <1>2, <1>3, <1>4, <1>5, <1>6, <1>7, <1>8, <1>9, <1>10, <1>11 DEF Leads, Legal, Good, b

\* DROP of a table; with meta goes the version.
LEMMA DropLeads ==
    ASSUME NEW a, NEW t \in Droppable, NEW op, NEW next \in BeforeTables,
           Legal(a), Good(op, a, "clearing"),
           Droppable \ Undropped(next) \subseteq (Droppable \ Undropped(op)) \union {t}
    PROVE  Leads(a, Versioned(With(a, t, Absent), IF t = "meta" THEN 0 ELSE a.version),
                 next, "clearing")
<1> DEFINE c == With(a, t, Absent)
           v == IF t = "meta" THEN 0 ELSE a.version
           b == Versioned(c, v)
<1>1. /\ a \in DB /\ KindsOK(a) /\ ColumnsOK(a) /\ VersionOK(a)
      /\ t \in Tables /\ t # "weather_history"
    BY DEF Legal, Droppable, Tables, Current
<1>2. c \in DB /\ \A u \in Tables : /\ Kind(c, u) = IF u = t THEN "absent" ELSE Kind(a, u)
                                    /\ Cols(c, u) = IF u = t THEN {} ELSE Cols(a, u)
    BY <1>1, GoneIs
<1>3. v \in 0..10 /\ (v = a.version \/ v = 0)
    BY <1>1 DEF DB
<1> HIDE DEF c, v
<1>4. /\ b \in DB /\ b.version = v
      /\ \A u \in Tables : /\ Kind(b, u) = IF u = t THEN "absent" ELSE Kind(a, u)
                           /\ Cols(b, u) = IF u = t THEN {} ELSE Cols(a, u)
    BY <1>2, <1>3, VersionIs
<1> HIDE DEF b
<1>5. KindsOK(b)
    <2>1. \A u \in Tables : Kind(b, u) = "absent" => Cols(b, u) = {}
        BY <1>1, <1>4 DEF KindsOK
    <2>2. \A u \in Tables : Kind(b, u) = Kind(a, u) \/ (u = t /\ Kind(b, u) = "absent")
        BY <1>4
    <2> QED
        BY <1>1, <2>1, <2>2 DEF KindsOK, Tables, Current, Learned, Droppable
<1>6. ColumnsOK(b)
    BY <1>1, <1>3, <1>4 DEF ColumnsOK, Tables, Current
<1>7. VersionOK(b)
    BY <1>1, <1>3, <1>4 DEF VersionOK, Tables, Current
<1>8. TablesMade(next, b)
    BY DEF TablesMade, BeforeBias, BeforeV2, BeforeV3, BeforeTemp, BeforeV5,
        BeforeAccuracy, BeforeEvaluation
<1>9. ColumnsMade(next, b) /\ VersionMade(next, b)
    BY DEF ColumnsMade, VersionMade, BeforeBias, BeforeV2, BeforeV3, BeforeTemp,
        BeforeV5, BeforeAccuracy, BeforeEvaluation, BeforeV6, BeforeV7, BeforeV8,
        BeforeV9, BeforeOffset, BeforeV10
<1>10. Migrating(next, b, "clearing")
    BY DEF Migrating, BeforeBias, BeforeTables, BeforeV2, Drops
<1>11. Emptied(next, b, "clearing")
    <2>1. \A u \in Droppable : u \in Tables
        BY DEF Droppable, Tables, Current
    <2>2. \A u \in Droppable \ Undropped(op) : Fresh(a, u)
        BY DEF Good, Emptied
    <2>3. \A u \in Droppable \ Undropped(next) : Fresh(b, u)
        BY <1>4, <2>1, <2>2 DEF Fresh
    <2> QED
        BY <2>3 DEF Emptied
<1>12. KeepsWeather(a, b)
    BY <1>1, <1>4 DEF KeepsWeather, Tables, Current
<1> QED
    BY <1>4, <1>5, <1>6, <1>7, <1>8, <1>9, <1>10, <1>11, <1>12
        DEF Leads, Legal, Good, b, c, v
-----------------------------------------------------------------------------
(* A statement preserves the invariant *)

LEMMA KeepsSelf ==
    ASSUME NEW a \in DB
    PROVE  Keeps(a, a) /\ KeepsWeather(a, a)
    BY DEF Keeps, KeepsWeather, DB

LEMMA KeepsOn ==
    ASSUME NEW a \in DB, NEW b \in DB, NEW c \in DB, Keeps(a, b), Keeps(b, c)
    PROVE  Keeps(a, c)
<1>1. a.version <= c.version
    BY DEF Keeps, DB
<1> QED
    BY <1>1 DEF Keeps

\* A step that has done op, so that next comes next.
Follows(op, next) ==
    /\ Inv /\ mode \in {"opening", "clearing"} /\ Good(op, work, mode)
    /\ Chain' /\ At = op /\ At' = next /\ UNCHANGED <<mode, file, stops>>

\* A step that preserves the invariant and what is kept on disk, but for the
\* training state a JSON file is imported over; and that leaves nothing if it
\* ends a reset.
Imported == file /\ disk' = Hold(disk, {"meta"}, "file")
Advances ==
    /\ Inv'
    /\ mode # "clearing" /\ disk.version >= 6 => Keeps(disk, disk') \/ Imported
    /\ KeepsWeather(disk, disk')
    /\ mode = "clearing" /\ mode' = "open" => \A t \in Droppable : Fresh(disk', t)

LEMMA BehindIs ==
    /\ Behind("drop_predictions") = "drop_error_metrics"
    /\ Behind("drop_error_metrics") = "drop_bias_correction"
    /\ Behind("drop_bias_correction") = "drop_price_history"
    /\ Behind("drop_price_history") = "drop_spot_prices"
    /\ Behind("drop_spot_prices") = "drop_lead_time_accuracy"
    /\ Behind("drop_lead_time_accuracy") = "drop_evaluation"
    /\ Behind("drop_evaluation") = "drop_meta" /\ Behind("drop_meta") = "tables"
    /\ Behind("tables") = "bias" /\ Behind("bias") = "v2" /\ Behind("v2") = "v3"
    /\ Behind("v2_commit") = "v2_rename" /\ Behind("v2_rename") = "v2_create"
    /\ Behind("v2_create") = "v2_copy" /\ Behind("v2_copy") = "v2_drop"
    /\ Behind("v2_drop") = "v3" /\ Behind("v3") = "v4" /\ Behind("v4") = "v5"
    /\ Behind("v4_commit") = "temp" /\ Behind("temp") = "wind" /\ Behind("wind") = "cloud"
    /\ Behind("cloud") = "v4_version" /\ Behind("v4_version") = "v5"
    /\ Behind("v5") = "accuracy" /\ Behind("accuracy") = "evaluation"
    /\ Behind("eval_rename") = "eval_recreate" /\ Behind("eval_recreate") = "eval_copy"
    /\ Behind("eval_copy") = "eval_drop" /\ Behind("eval_drop") = "v6"
    /\ Behind("eval_create") = "v6" /\ Behind("v6") = "v7" /\ Behind("v7") = "v8"
    /\ Behind("v8") = "v9" /\ Behind("v9") = "v10" /\ Behind("v9_rename") = "v9_create"
    /\ Behind("v9_create") = "v9_copy" /\ Behind("v9_copy") = "v9_drop"
    /\ Behind("v9_drop") = "v9_version" /\ Behind("v9_version") = "v10"
    /\ Behind("v10_reset") = "commit"
<1>1. /\ Behind("drop_predictions") = "drop_error_metrics"
      /\ Behind("drop_error_metrics") = "drop_bias_correction"
      /\ Behind("drop_bias_correction") = "drop_price_history"
      /\ Behind("drop_price_history") = "drop_spot_prices"
      /\ Behind("drop_spot_prices") = "drop_lead_time_accuracy"
      /\ Behind("drop_lead_time_accuracy") = "drop_evaluation"
    BY DEF Behind
<1>2. /\ Behind("drop_evaluation") = "drop_meta" /\ Behind("drop_meta") = "tables"
      /\ Behind("tables") = "bias" /\ Behind("bias") = "v2"
      /\ Behind("v2") = "v3" /\ Behind("v2_commit") = "v2_rename"
    BY DEF Behind
<1>3. /\ Behind("v2_rename") = "v2_create" /\ Behind("v2_create") = "v2_copy"
      /\ Behind("v2_copy") = "v2_drop" /\ Behind("v2_drop") = "v3"
      /\ Behind("v3") = "v4" /\ Behind("v4") = "v5"
    BY DEF Behind
<1>4. /\ Behind("v4_commit") = "temp" /\ Behind("temp") = "wind"
      /\ Behind("wind") = "cloud" /\ Behind("cloud") = "v4_version"
      /\ Behind("v4_version") = "v5" /\ Behind("v5") = "accuracy"
    BY DEF Behind
<1>5. /\ Behind("accuracy") = "evaluation" /\ Behind("eval_rename") = "eval_recreate"
      /\ Behind("eval_recreate") = "eval_copy" /\ Behind("eval_copy") = "eval_drop"
      /\ Behind("eval_drop") = "v6" /\ Behind("eval_create") = "v6"
    BY DEF Behind
<1>6. /\ Behind("v6") = "v7" /\ Behind("v7") = "v8"
      /\ Behind("v8") = "v9" /\ Behind("v9") = "v10"
      /\ Behind("v9_rename") = "v9_create" /\ Behind("v9_create") = "v9_copy"
    BY DEF Behind
<1>7. /\ Behind("v9_copy") = "v9_drop" /\ Behind("v9_drop") = "v9_version"
      /\ Behind("v9_version") = "v10" /\ Behind("v10_reset") = "commit"
    BY DEF Behind
<1> QED
    BY <1>1, <1>2, <1>3, <1>4, <1>5, <1>6, <1>7

LEMMA GoesOn ==
    ASSUME Inv, NEW what, Goes(what), what # "commit"
    PROVE  Follows(what, Behind(what))
<1>1. /\ At = what /\ Chain' /\ mode \in {"opening", "clearing"}
      /\ UNCHANGED <<mode, file, stops>> /\ At' = Behind(what)
    BY FlowOn DEF Inv
<1>2. Good(At, work, mode)
    BY <1>1 DEF Inv, Reached
<1> QED
    BY <1>1, <1>2 DEF Follows

LEMMA GoesInto ==
    ASSUME Inv, NEW what, NEW more, Do(what, more), IsPart(more, what), what # "commit",
           NEW first, more[1] = first
    PROVE  Follows(what, first)
<1>1. /\ At = what /\ Chain' /\ mode \in {"opening", "clearing"}
      /\ UNCHANGED <<mode, file, stops>> /\ At' = first
    BY FlowInto DEF Inv
<1>2. Good(At, work, mode)
    BY <1>1 DEF Inv, Reached
<1> QED
    BY <1>1, <1>2 DEF Follows

LEMMA StatementKeeps ==
    ASSUME NEW op, NEW next, Follows(op, next), NEW db, work' = db, Leads(work, db, next, mode),
           disk' = disk \/ (disk' = db /\ (mode = "clearing" => db.version \in {0, 10})),
           txn' \in BOOLEAN, ~ txn' => disk' = db,
           next \in BeforeTables \union {"end"} => ~ txn',
           next \in Drops => mode = "clearing"
    PROVE  Advances
<1>1. /\ Inv /\ mode \in {"opening", "clearing"} /\ Chain' /\ At' = next
      /\ mode' = mode /\ file' = file /\ stops' = stops
    BY DEF Follows
<1>2. /\ Legal(disk) /\ Legal(work) /\ Legal(db) /\ Good(next, db, mode)
      /\ disk \in DB /\ work \in DB /\ db \in DB
    BY <1>1 DEF Inv, Leads, Legal
<1>3. Legal(disk') /\ Legal(work')
    BY <1>2
<1>4. TypeOK'
    BY <1>1, <1>2, <1>3 DEF TypeOK, Inv, Chain, Legal, DB
<1>5. Reached'
    BY <1>1, <1>2 DEF Reached
<1>6. Committed'
    BY <1>1 DEF Committed, Inv
<1>7. /\ mode # "clearing" /\ disk'.version >= 6 => Keeps(disk', work')
      /\ mode # "clearing" /\ disk.version >= 6 => Keeps(disk, disk')
    <2>1. CASE disk' = db
        <3>1. Keeps(db, db)
            BY <1>2, KeepsSelf
        <3>2. mode # "clearing" /\ disk.version >= 6 => Keeps(disk, work) /\ work.version >= 6
            BY <1>1, <1>2 DEF Inv, Kept, Keeps, DB
        <3>3. mode # "clearing" /\ disk.version >= 6 => Keeps(work, db)
            BY <1>1, <3>2 DEF Leads
        <3>4. mode # "clearing" /\ disk.version >= 6 => Keeps(disk, db)
            BY <1>2, <3>2, <3>3, KeepsOn
        <3> QED
            BY <2>1, <3>1, <3>4
    <2>2. CASE disk' = disk
        <3>1. Keeps(disk, disk)
            BY <1>2, KeepsSelf
        <3>2. mode # "clearing" /\ disk.version >= 6 => Keeps(disk, work) /\ work.version >= 6
            BY <1>1, <1>2 DEF Inv, Kept, Keeps, DB
        <3>3. mode # "clearing" /\ disk.version >= 6 => Keeps(work, db)
            BY <1>1, <3>2 DEF Leads
        <3>4. mode # "clearing" /\ disk.version >= 6 => Keeps(disk, db)
            BY <1>2, <3>2, <3>3, KeepsOn
        <3> QED
            BY <2>2, <3>1, <3>4
    <2> QED
        BY <2>1, <2>2
<1>8. KeepsWeather(disk', work') /\ KeepsWeather(disk, disk')
    BY <1>1 DEF Inv, Kept, Leads, KeepsWeather
<1> QED
    BY <1>1, <1>3, <1>4, <1>5, <1>6, <1>7, <1>8 DEF Advances, Inv, Kept

\* In a script, where no transaction is open, or at a commit of the last version.
LEMMA ScriptedKeeps ==
    ASSUME NEW op, NEW next, Follows(op, next), NEW db, Scripted(db),
           Leads(work, db, next, mode), next \notin Drops,
           mode = "clearing" => db.version \in {0, 10}
    PROVE  Advances
<1>1. work' = db /\ disk' = db /\ txn' = FALSE
    BY DEF Scripted
<1> QED
    BY <1>1, StatementKeeps

LEMMA DefinedKeeps ==
    ASSUME NEW op, NEW next, Follows(op, next), NEW db, Defined(db),
           Leads(work, db, next, mode), next \notin BeforeTables \union {"end"},
           db.version = work.version
    PROVE  Advances
<1>1. /\ work' = db /\ txn' = txn /\ txn \in BOOLEAN
      /\ disk' = IF txn THEN disk ELSE db
    BY DEF Defined, Follows, Inv, TypeOK
<1>2. ~ txn /\ mode = "clearing" => db.version \in {0, 10}
    BY DEF Follows, Inv, TypeOK, Committed
<1>3. disk' = disk \/ (disk' = db /\ (mode = "clearing" => db.version \in {0, 10}))
    BY <1>1, <1>2
<1> QED
    BY <1>1, <1>3, StatementKeeps DEF BeforeTables

LEMMA WrittenKeeps ==
    ASSUME NEW op, NEW next, Follows(op, next), NEW db, Written(db),
           Leads(work, db, next, mode), next \notin BeforeTables \union {"end"}
    PROVE  Advances
<1>1. work' = db /\ disk' = disk /\ txn' = TRUE
    BY DEF Written
<1> QED
    BY <1>1, StatementKeeps DEF BeforeTables

LEMMA NothingKeeps ==
    ASSUME NEW op, NEW next, Follows(op, next), Nothing,
           Leads(work, work, next, mode), next \notin BeforeTables \union {"end"}
    PROVE  Advances
<1>1. /\ work' = work /\ disk' = disk /\ txn' = txn /\ txn \in BOOLEAN
      /\ ~ txn => work = disk
    BY DEF Nothing, Follows, Inv, TypeOK
<1> QED
    BY <1>1, StatementKeeps DEF BeforeTables

\* A statement of a migration that only an opening runs.
LEMMA OpeningIs ==
    ASSUME NEW op, NEW next, Follows(op, next),
           op \in {"v2_commit", "v2_rename", "v2_create", "v2_copy", "v2_drop", "v4_commit",
                   "temp", "wind", "cloud", "v4_version"}
    PROVE  mode = "opening"
    BY DEF Follows, Good, Migrating, BeforeV2, BeforeBias, BeforeTables, Drops
-----------------------------------------------------------------------------
(* The steps of an opening and of a reset *)

LEMMA CreateBiasKeeps ==
    ASSUME Inv, CreateBias
    PROVE  Advances
<1> DEFINE db == Create(work, "bias_correction")
<1>1. Defined(db)
    BY DEF CreateBias
<1>2. db.version = work.version
    BY CreateIs DEF Inv, Legal, Tables, Current
<1>3. CASE Goes("bias")
    <2>1. Follows("bias", "v2")
        BY <1>3, GoesOn, BehindIs
    <2>2. Leads(work, db, "v2", mode)
        BY <2>1, BiasLeads DEF Follows, Inv
    <2> HIDE DEF db
    <2> QED
        BY <1>1, <1>2, <2>1, <2>2, DefinedKeeps DEF BeforeTables, Drops
<1>4. CASE Goes("v9_create")
    <2>1. Follows("v9_create", "v9_copy")
        BY <1>4, GoesOn, BehindIs
    <2>2. Leads(work, db, "v9_copy", mode)
        BY <2>1, BiasAgainLeads DEF Follows, Inv
    <2> HIDE DEF db
    <2> QED
        BY <1>1, <1>2, <2>1, <2>2, DefinedKeeps DEF BeforeTables, Drops
<1> QED
    BY <1>3, <1>4 DEF CreateBias

LEMMA MigratePredictionsKeeps ==
    ASSUME Inv, MigratePredictions
    PROVE  Advances
<1>1. /\ Nothing /\ Legal(work) /\ work \in DB /\ KindsOK(work)
      /\ work.version \in 0..10
    BY DEF MigratePredictions, Inv, Legal, DB
<1>2. CASE "id" \in work.tab["predictions"].cols
    <2>1. Goes("v2")
        BY <1>2 DEF MigratePredictions
    <2>2. Follows("v2", "v3")
        BY <2>1, GoesOn, BehindIs
    <2>3. Leads(work, work, "v3", mode)
        BY <1>1, <1>2, <2>2, PredictionsDone DEF Follows, Kind, Cols
    <2> QED
        BY <1>1, <2>2, <2>3, NothingKeeps DEF BeforeTables, Drops
<1>3. CASE ~ ("id" \in work.tab["predictions"].cols)
    <2>1. Do("v2", <<"v2_commit", "v2_rename", "v2_create", "v2_copy", "v2_drop">>)
        BY <1>3 DEF MigratePredictions
    <2>2. <<"v2_commit", "v2_rename", "v2_create", "v2_copy", "v2_drop">>[1] = "v2_commit"
        OBVIOUS
    <2>3. Follows("v2", "v2_commit")
        BY <2>1, <2>2, GoesInto, Parts
    <2>4. Leads(work, work, "v2_commit", mode)
        BY <1>1, <1>3, <2>3, PredictionsBegun DEF Follows, Kind, Cols
    <2> QED
        BY <1>1, <2>3, <2>4, NothingKeeps DEF BeforeTables, Drops
<1> QED
    BY <1>2, <1>3

LEMMA RenamePredictionsKeeps ==
    ASSUME Inv, RenamePredictions
    PROVE  Advances
<1> DEFINE db == Rename(work, "predictions", "predictions_old")
<1>1. Follows("v2_rename", "v2_create") /\ Scripted(db)
    <2>1. Goes("v2_rename") /\ Scripted(db)
        BY DEF RenamePredictions, Versioned, Kind
    <2> QED
        BY <2>1, GoesOn, BehindIs
<1>2. Leads(work, db, "v2_create", mode)
    BY <1>1, RenamePredictionsLeads DEF Follows, Inv, Legal
<1>3. mode = "opening"
    BY <1>1, OpeningIs
<1> HIDE DEF db
<1> QED
    BY <1>1, <1>2, <1>3, ScriptedKeeps DEF BeforeTables, Drops

LEMMA RecreatePredictionsKeeps ==
    ASSUME Inv, RecreatePredictions
    PROVE  Advances
<1> DEFINE db == With(work, "predictions", Table({"id"}, "none"))
<1>1. Follows("v2_create", "v2_copy") /\ Scripted(db)
    <2>1. Goes("v2_create") /\ Scripted(db)
        BY DEF RecreatePredictions, Versioned, Kind
    <2> QED
        BY <2>1, GoesOn, BehindIs
<1>2. Leads(work, db, "v2_copy", mode)
    BY <1>1, RecreatePredictionsLeads DEF Follows, Inv, Legal
<1>3. mode = "opening"
    BY <1>1, OpeningIs
<1> HIDE DEF db
<1> QED
    BY <1>1, <1>2, <1>3, ScriptedKeeps DEF BeforeTables, Drops

LEMMA CopyPredictionsKeeps ==
    ASSUME Inv, CopyPredictions
    PROVE  Advances
<1> DEFINE db == Hold(work, {"predictions"}, Kind(work, "predictions_old"))
<1>1. Follows("v2_copy", "v2_drop") /\ Scripted(db)
    <2>1. Goes("v2_copy") /\ Scripted(db)
        BY DEF CopyPredictions, Versioned, Kind
    <2> QED
        BY <2>1, GoesOn, BehindIs
<1>2. Leads(work, db, "v2_drop", mode)
    BY <1>1, CopyPredictionsLeads DEF Follows, Inv, Legal
<1>3. mode = "opening"
    BY <1>1, OpeningIs
<1> HIDE DEF db
<1> QED
    BY <1>1, <1>2, <1>3, ScriptedKeeps DEF BeforeTables, Drops

LEMMA DropPredictionsKeeps ==
    ASSUME Inv, DropPredictions
    PROVE  Advances
<1> DEFINE db == With(work, "predictions_old", Absent)
<1>1. Follows("v2_drop", "v3") /\ Scripted(db)
    <2>1. Goes("v2_drop") /\ Scripted(db)
        BY DEF DropPredictions, Versioned, Kind
    <2> QED
        BY <2>1, GoesOn, BehindIs
<1>2. Leads(work, db, "v3", mode)
    BY <1>1, DropPredictionsLeads DEF Follows, Inv, Legal
<1>3. mode = "opening"
    BY <1>1, OpeningIs
<1> HIDE DEF db
<1> QED
    BY <1>1, <1>2, <1>3, ScriptedKeeps DEF BeforeTables, Drops

LEMMA ClearHourlyKeeps ==
    ASSUME Inv, ClearHourly
    PROVE  Advances
<1> DEFINE db == Versioned(IF work.tab["error_metrics"].rows = "hourly"
                          THEN Hold(work, {"error_metrics", "bias_correction"}, "none")
                          ELSE work, 3)
<1>1. Follows("v3", "v4") /\ IF work.version < 3 THEN Written(db) ELSE Nothing
    <2>1. Goes("v3") /\ IF work.version < 3 THEN Written(db) ELSE Nothing
        BY DEF ClearHourly, Once, Versioned
    <2> QED
        BY <2>1, GoesOn, BehindIs
<1>2. CASE work.version < 3
    <2>1. Leads(work, db, "v4", mode)
        BY <1>1, <1>2, ClearHourlyLeads DEF Follows, Inv
    <2> HIDE DEF db
    <2> QED
        BY <1>1, <1>2, <2>1, WrittenKeeps DEF BeforeTables, Drops
<1>3. CASE ~ (work.version < 3)
    <2>1. work.version >= 3
        BY <1>3 DEF Inv, Legal, DB
    <2>2. Leads(work, work, "v4", mode)
        BY <1>1, <2>1, HourlyDone DEF Follows, Inv
    <2> QED
        BY <1>1, <1>3, <2>2, NothingKeeps DEF BeforeTables, Drops
<1> QED
    BY <1>2, <1>3

LEMMA AddForecastKeeps ==
    ASSUME Inv, AddForecast
    PROVE  Advances
<1>1. /\ Nothing /\ Legal(work) /\ work \in DB /\ KindsOK(work)
      /\ work.version \in 0..10
    BY DEF AddForecast, Inv, Legal, DB
<1>2. CASE "temp" \in work.tab["predictions"].cols
    <2>1. Goes("v4")
        BY <1>2 DEF AddForecast
    <2>2. Follows("v4", "v5")
        BY <2>1, GoesOn, BehindIs
    <2>3. Leads(work, work, "v5", mode)
        BY <1>1, <1>2, <2>2, ForecastDone DEF Follows, Kind, Cols
    <2> QED
        BY <1>1, <2>2, <2>3, NothingKeeps DEF BeforeTables, Drops
<1>3. CASE ~ ("temp" \in work.tab["predictions"].cols)
    <2>1. Do("v4", <<"v4_commit", "temp", "wind", "cloud", "v4_version">>)
        BY <1>3 DEF AddForecast
    <2>2. <<"v4_commit", "temp", "wind", "cloud", "v4_version">>[1] = "v4_commit"
        OBVIOUS
    <2>3. Follows("v4", "v4_commit")
        BY <2>1, <2>2, GoesInto, Parts
    <2>4. Leads(work, work, "v4_commit", mode)
        BY <1>1, <1>3, <2>3, ForecastBegun DEF Follows, Kind, Cols
    <2> QED
        BY <1>1, <2>3, <2>4, NothingKeeps DEF BeforeTables, Drops
<1> QED
    BY <1>2, <1>3

LEMMA SetVersion4Keeps ==
    ASSUME Inv, SetVersion4
    PROVE  Advances
<1> DEFINE db == Versioned(work, 4)
<1>1. Follows("v4_version", "v5") /\ Written(db)
    <2>1. Goes("v4_version") /\ Written(db)
        BY DEF SetVersion4, Versioned, Kind
    <2> QED
        BY <2>1, GoesOn, BehindIs
<1>2. Leads(work, db, "v5", mode)
    BY <1>1, SetVersion4Leads DEF Follows, Inv, Legal
<1> HIDE DEF db
<1> QED
    BY <1>1, <1>2, WrittenKeeps DEF BeforeTables, Drops

LEMMA ClearFactorsKeeps ==
    ASSUME Inv, ClearFactors
    PROVE  Advances
<1> DEFINE db == Versioned(Hold(work, {"bias_correction"}, "none"), 5)
<1>1. Follows("v5", "accuracy") /\ IF work.version < 5 THEN Written(db) ELSE Nothing
    <2>1. Goes("v5") /\ IF work.version < 5 THEN Written(db) ELSE Nothing
        BY DEF ClearFactors, Once, Versioned
    <2> QED
        BY <2>1, GoesOn, BehindIs
<1>2. CASE work.version < 5
    <2>1. Leads(work, db, "accuracy", mode)
        BY <1>1, <1>2, ClearFactorsLeads DEF Follows, Inv
    <2> HIDE DEF db
    <2> QED
        BY <1>1, <1>2, <2>1, WrittenKeeps DEF BeforeTables, Drops
<1>3. CASE ~ (work.version < 5)
    <2>1. work.version >= 5
        BY <1>3 DEF Inv, Legal, DB
    <2>2. Leads(work, work, "accuracy", mode)
        BY <1>1, <2>1, FactorsDone DEF Follows, Inv
    <2> QED
        BY <1>1, <1>3, <2>2, NothingKeeps DEF BeforeTables, Drops
<1> QED
    BY <1>2, <1>3

LEMMA CreateAccuracyKeeps ==
    ASSUME Inv, CreateAccuracy
    PROVE  Advances
<1> DEFINE db == Create(work, "lead_time_accuracy")
<1>1. Follows("accuracy", "evaluation") /\ Defined(db)
    <2>1. Goes("accuracy") /\ Defined(db)
        BY DEF CreateAccuracy, Versioned, Kind
    <2> QED
        BY <2>1, GoesOn, BehindIs
<1>2. Leads(work, db, "evaluation", mode)
    BY <1>1, AccuracyLeads DEF Follows, Inv, Legal
<1>3. db.version = work.version
    BY CreateIs DEF Inv, Legal, Tables, Current
<1> HIDE DEF db
<1> QED
    BY <1>1, <1>2, <1>3, DefinedKeeps DEF BeforeTables, Drops

LEMMA MigrateEvaluationKeeps ==
    ASSUME Inv, MigrateEvaluation
    PROVE  Advances
<1>1. /\ Nothing /\ Legal(work) /\ work \in DB /\ KindsOK(work)
      /\ work.version \in 0..10
    BY DEF MigrateEvaluation, Inv, Legal, DB
<1>2. CASE ~ Has(work, "evaluation") \/ "target_hours" \in work.tab["evaluation"].cols
    <2>1. Do("evaluation", <<"eval_create">>)
        BY <1>2 DEF MigrateEvaluation
    <2>2. <<"eval_create">>[1] = "eval_create"
        OBVIOUS
    <2>3. Follows("evaluation", "eval_create")
        BY <2>1, <2>2, GoesInto, Parts
    <2>4. Leads(work, work, "eval_create", mode)
        BY <1>1, <1>2, <2>3, EvaluationDone, HasIs DEF Follows, Kind, Cols, Tables, Current
    <2> QED
        BY <1>1, <2>3, <2>4, NothingKeeps DEF BeforeTables, Drops
<1>3. CASE ~ (~ Has(work, "evaluation") \/ "target_hours" \in work.tab["evaluation"].cols)
    <2>1. Do("evaluation", <<"eval_rename", "eval_recreate", "eval_copy", "eval_drop">>)
        BY <1>3 DEF MigrateEvaluation
    <2>2. <<"eval_rename", "eval_recreate", "eval_copy", "eval_drop">>[1] = "eval_rename"
        OBVIOUS
    <2>3. Follows("evaluation", "eval_rename")
        BY <2>1, <2>2, GoesInto, Parts
    <2>4. Leads(work, work, "eval_rename", mode)
        BY <1>1, <1>3, <2>3, EvaluationBegun, HasIs DEF Follows, Kind, Cols, Tables, Current
    <2> QED
        BY <1>1, <2>3, <2>4, NothingKeeps DEF BeforeTables, Drops
<1> QED
    BY <1>2, <1>3

LEMMA RenameEvaluationKeeps ==
    ASSUME Inv, RenameEvaluation
    PROVE  Advances
<1> DEFINE db == Rename(work, "evaluation", "evaluation_single")
<1>1. Follows("eval_rename", "eval_recreate") /\ Defined(db) /\ ~ Has(work, "evaluation_single")
    <2>1. Goes("eval_rename") /\ Defined(db) /\ ~ Has(work, "evaluation_single")
        BY DEF RenameEvaluation, Versioned, Kind
    <2> QED
        BY <2>1, GoesOn, BehindIs
<1>2. Leads(work, db, "eval_recreate", mode)
    BY <1>1, RenameEvaluationLeads, HasIs DEF Follows, Inv, Legal, Tables, Current
<1>3. db.version = work.version
    BY RenameIs DEF Inv, Legal, Tables, Current
<1> HIDE DEF db
<1> QED
    BY <1>1, <1>2, <1>3, DefinedKeeps DEF BeforeTables, Drops

LEMMA CreateEvaluationKeeps ==
    ASSUME Inv, CreateEvaluation
    PROVE  Advances
<1> DEFINE db == Create(work, "evaluation")
<1>1. Defined(db)
    BY DEF CreateEvaluation
<1>2. db.version = work.version
    BY CreateIs DEF Inv, Legal, Tables, Current
<1>3. CASE Goes("eval_create")
    <2>1. Follows("eval_create", "v6")
        BY <1>3, GoesOn, BehindIs
    <2>2. Leads(work, db, "v6", mode)
        BY <2>1, EvaluationLeads DEF Follows, Inv
    <2> HIDE DEF db
    <2> QED
        BY <1>1, <1>2, <2>1, <2>2, DefinedKeeps DEF BeforeTables, Drops
<1>4. CASE Goes("eval_recreate")
    <2>1. Follows("eval_recreate", "eval_copy")
        BY <1>4, GoesOn, BehindIs
    <2>2. Leads(work, db, "eval_copy", mode)
        BY <2>1, EvaluationAgainLeads DEF Follows, Inv
    <2> HIDE DEF db
    <2> QED
        BY <1>1, <1>2, <2>1, <2>2, DefinedKeeps DEF BeforeTables, Drops
<1> QED
    BY <1>3, <1>4 DEF CreateEvaluation

LEMMA CopyEvaluationKeeps ==
    ASSUME Inv, CopyEvaluation
    PROVE  Advances
<1> DEFINE db == Hold(work, {"evaluation"}, "leads")
<1>1. Follows("eval_copy", "eval_drop") /\ Written(db)
    <2>1. Goes("eval_copy") /\ Written(db)
        BY DEF CopyEvaluation, Versioned, Kind
    <2> QED
        BY <2>1, GoesOn, BehindIs
<1>2. Leads(work, db, "eval_drop", mode)
    BY <1>1, CopyEvaluationLeads DEF Follows, Inv, Legal
<1> HIDE DEF db
<1> QED
    BY <1>1, <1>2, WrittenKeeps DEF BeforeTables, Drops

LEMMA DropEvaluationKeeps ==
    ASSUME Inv, DropEvaluation
    PROVE  Advances
<1> DEFINE db == With(work, "evaluation_single", Absent)
<1>1. Follows("eval_drop", "v6") /\ Defined(db)
    <2>1. Goes("eval_drop") /\ Defined(db)
        BY DEF DropEvaluation, Versioned, Kind
    <2> QED
        BY <2>1, GoesOn, BehindIs
<1>2. Leads(work, db, "v6", mode)
    BY <1>1, DropEvaluationLeads DEF Follows, Inv, Legal
<1>3. db.version = work.version
    BY GoneIs DEF Inv, Legal, Tables, Current
<1> HIDE DEF db
<1> QED
    BY <1>1, <1>2, <1>3, DefinedKeeps DEF BeforeTables, Drops

LEMMA DiscardConsumerKeeps ==
    ASSUME Inv, DiscardConsumer
    PROVE  Advances
<1> DEFINE db == Versioned(Hold(work, {"price_history", "predictions", "error_metrics",
                                     "bias_correction", "lead_time_accuracy"}, "none"), 6)
<1>1. Follows("v6", "v7") /\ IF work.version < 6 THEN Written(db) ELSE Nothing
    <2>1. Goes("v6") /\ IF work.version < 6 THEN Written(db) ELSE Nothing
        BY DEF DiscardConsumer, Once, Versioned
    <2> QED
        BY <2>1, GoesOn, BehindIs
<1>2. CASE work.version < 6
    <2>1. Leads(work, db, "v7", mode)
        BY <1>1, <1>2, DiscardConsumerLeads DEF Follows, Inv
    <2> HIDE DEF db
    <2> QED
        BY <1>1, <1>2, <2>1, WrittenKeeps DEF BeforeTables, Drops
<1>3. CASE ~ (work.version < 6)
    <2>1. work.version >= 6
        BY <1>3 DEF Inv, Legal, DB
    <2>2. Leads(work, work, "v7", mode)
        BY <1>1, <2>1, ConsumerDone DEF Follows, Inv
    <2> QED
        BY <1>1, <1>3, <2>2, NothingKeeps DEF BeforeTables, Drops
<1> QED
    BY <1>2, <1>3

LEMMA RekeyWeatherKeeps ==
    ASSUME Inv, RekeyWeather
    PROVE  Advances
<1> DEFINE db == Versioned(IF work.tab["weather_history"].rows = "none" THEN work
                          ELSE Hold(work, {"weather_history"}, "utc"), 7)
<1>1. Follows("v7", "v8") /\ IF work.version < 7 THEN Written(db) ELSE Nothing
    <2>1. Goes("v7") /\ IF work.version < 7 THEN Written(db) ELSE Nothing
        BY DEF RekeyWeather, Once, Versioned
    <2> QED
        BY <2>1, GoesOn, BehindIs
<1>2. CASE work.version < 7
    <2>1. Leads(work, db, "v8", mode)
        BY <1>1, <1>2, RekeyWeatherLeads DEF Follows, Inv
    <2> HIDE DEF db
    <2> QED
        BY <1>1, <1>2, <2>1, WrittenKeeps DEF BeforeTables, Drops
<1>3. CASE ~ (work.version < 7)
    <2>1. work.version >= 7
        BY <1>3 DEF Inv, Legal, DB
    <2>2. Leads(work, work, "v8", mode)
        BY <1>1, <2>1, WeatherDone DEF Follows, Inv
    <2> QED
        BY <1>1, <1>3, <2>2, NothingKeeps DEF BeforeTables, Drops
<1> QED
    BY <1>2, <1>3

LEMMA MovePricesKeeps ==
    ASSUME Inv, MovePrices
    PROVE  Advances
<1> DEFINE db == Versioned(IF work.tab["price_history"].rows = "none" THEN work
                          ELSE Hold(Hold(work, {"spot_prices"}, work.tab["price_history"].rows),
                                    {"price_history"}, "none"), 8)
<1>1. Follows("v8", "v9") /\ IF work.version < 8 THEN Written(db) ELSE Nothing
    <2>1. Goes("v8") /\ IF work.version < 8 THEN Written(db) ELSE Nothing
        BY DEF MovePrices, Once, Versioned
    <2> QED
        BY <2>1, GoesOn, BehindIs
<1>2. CASE work.version < 8
    <2>1. Leads(work, db, "v9", mode)
        BY <1>1, <1>2, MovePricesLeads DEF Follows, Inv
    <2> HIDE DEF db
    <2> QED
        BY <1>1, <1>2, <2>1, WrittenKeeps DEF BeforeTables, Drops
<1>3. CASE ~ (work.version < 8)
    <2>1. work.version >= 8
        BY <1>3 DEF Inv, Legal, DB
    <2>2. Leads(work, work, "v9", mode)
        BY <1>1, <2>1, PricesDone DEF Follows, Inv
    <2> QED
        BY <1>1, <1>3, <2>2, NothingKeeps DEF BeforeTables, Drops
<1> QED
    BY <1>2, <1>3

LEMMA MigrateBiasKeeps ==
    ASSUME Inv, MigrateBias
    PROVE  Advances
<1>1. /\ Nothing /\ Legal(work) /\ work \in DB /\ KindsOK(work)
      /\ work.version \in 0..10
    BY DEF MigrateBias, Inv, Legal, DB
<1>2. CASE work.version >= 9
    <2>1. Goes("v9")
        BY <1>2 DEF MigrateBias
    <2>2. Follows("v9", "v10")
        BY <2>1, GoesOn, BehindIs
    <2>3. Leads(work, work, "v10", mode)
        BY <1>1, <1>2, <2>2, BiasDone DEF Follows, Kind, Cols
    <2> QED
        BY <1>1, <2>2, <2>3, NothingKeeps DEF BeforeTables, Drops
<1>3. CASE ~ (work.version >= 9) /\ "bucket" \in work.tab["bias_correction"].cols
    <2>1. Do("v9", <<"v9_version">>)
        BY <1>3 DEF MigrateBias
    <2>2. <<"v9_version">>[1] = "v9_version"
        OBVIOUS
    <2>3. Follows("v9", "v9_version")
        BY <2>1, <2>2, GoesInto, Parts
    <2>4. Leads(work, work, "v9_version", mode)
        BY <1>1, <1>3, <2>3, BiasBucketed DEF Follows, Kind, Cols
    <2> QED
        BY <1>1, <2>3, <2>4, NothingKeeps DEF BeforeTables, Drops
<1>4. CASE ~ (work.version >= 9) /\ ~ ("bucket" \in work.tab["bias_correction"].cols)
    <2>1. Do("v9", <<"v9_rename", "v9_create", "v9_copy", "v9_drop", "v9_version">>)
        BY <1>4 DEF MigrateBias
    <2>2. <<"v9_rename", "v9_create", "v9_copy", "v9_drop", "v9_version">>[1] = "v9_rename"
        OBVIOUS
    <2>3. Follows("v9", "v9_rename")
        BY <2>1, <2>2, GoesInto, Parts
    <2>4. Leads(work, work, "v9_rename", mode)
        BY <1>1, <1>4, <2>3, BiasBegun DEF Follows, Kind, Cols
    <2> QED
        BY <1>1, <2>3, <2>4, NothingKeeps DEF BeforeTables, Drops
<1> QED
    BY <1>2, <1>3, <1>4

LEMMA RenameBiasKeeps ==
    ASSUME Inv, RenameBias
    PROVE  Advances
<1> DEFINE db == Rename(work, "bias_correction", "bias_correction_pooled")
<1>1. Follows("v9_rename", "v9_create") /\ Defined(db)
    <2>1. Goes("v9_rename") /\ Defined(db)
        BY DEF RenameBias, Versioned, Kind
    <2> QED
        BY <2>1, GoesOn, BehindIs
<1>2. Leads(work, db, "v9_create", mode)
    BY <1>1, RenameBiasLeads DEF Follows, Inv, Legal
<1>3. db.version = work.version
    BY RenameIs DEF Inv, Legal, Tables, Current
<1> HIDE DEF db
<1> QED
    BY <1>1, <1>2, <1>3, DefinedKeeps DEF BeforeTables, Drops

LEMMA CopyBiasKeeps ==
    ASSUME Inv, CopyBias
    PROVE  Advances
<1> DEFINE db == Hold(work, {"bias_correction"}, Kind(work, "bias_correction_pooled"))
<1>1. Follows("v9_copy", "v9_drop") /\ Written(db)
    <2>1. Goes("v9_copy") /\ Written(db)
        BY DEF CopyBias, Versioned, Kind
    <2> QED
        BY <2>1, GoesOn, BehindIs
<1>2. Leads(work, db, "v9_drop", mode)
    BY <1>1, CopyBiasLeads DEF Follows, Inv, Legal
<1> HIDE DEF db
<1> QED
    BY <1>1, <1>2, WrittenKeeps DEF BeforeTables, Drops

LEMMA DropBiasKeeps ==
    ASSUME Inv, DropBias
    PROVE  Advances
<1> DEFINE db == With(work, "bias_correction_pooled", Absent)
<1>1. Follows("v9_drop", "v9_version") /\ Defined(db)
    <2>1. Goes("v9_drop") /\ Defined(db)
        BY DEF DropBias, Versioned, Kind
    <2> QED
        BY <2>1, GoesOn, BehindIs
<1>2. Leads(work, db, "v9_version", mode)
    BY <1>1, DropBiasLeads DEF Follows, Inv, Legal
<1>3. db.version = work.version
    BY GoneIs DEF Inv, Legal, Tables, Current
<1> HIDE DEF db
<1> QED
    BY <1>1, <1>2, <1>3, DefinedKeeps DEF BeforeTables, Drops

LEMMA SetVersion9Keeps ==
    ASSUME Inv, SetVersion9
    PROVE  Advances
<1> DEFINE db == Versioned(work, 9)
<1>1. Follows("v9_version", "v10") /\ Written(db)
    <2>1. Goes("v9_version") /\ Written(db)
        BY DEF SetVersion9, Versioned, Kind
    <2> QED
        BY <2>1, GoesOn, BehindIs
<1>2. Leads(work, db, "v10", mode)
    BY <1>1, SetVersion9Leads DEF Follows, Inv, Legal
<1> HIDE DEF db
<1> QED
    BY <1>1, <1>2, WrittenKeeps DEF BeforeTables, Drops

LEMMA AddOffsetKeeps ==
    ASSUME Inv, AddOffset
    PROVE  Advances
<1> DEFINE db == [work EXCEPT !.tab["predictions"].cols = @ \union {"offset"}]
<1>1. Follows("v10", "v10_reset") /\ Defined(db)
    <2>1. Do("v10", <<"v10_reset">>) /\ Defined(db)
        BY DEF AddOffset
    <2>2. <<"v10_reset">>[1] = "v10_reset"
        OBVIOUS
    <2> QED
        BY <2>1, <2>2, GoesInto, Parts
<1>2. Leads(work, db, "v10_reset", mode)
    BY <1>1, AddOffsetLeads DEF Follows, Inv, Legal
<1>3. db.version = work.version
    BY AddedIs DEF Inv, Legal, Tables, Current, Columns
<1> HIDE DEF db
<1> QED
    BY <1>1, <1>2, <1>3, DefinedKeeps DEF BeforeTables, Drops

LEMMA ResetOffsetsKeeps ==
    ASSUME Inv, ResetOffsets
    PROVE  Advances
<1> DEFINE db == Versioned(Hold(work, {"bias_correction"}, "none"), 10)
<1>1. Follows("v10_reset", "commit") /\ IF work.version < 10 THEN Written(db) ELSE Nothing
    <2>1. Goes("v10_reset") /\ IF work.version < 10 THEN Written(db) ELSE Nothing
        BY DEF ResetOffsets, Once, Versioned
    <2> QED
        BY <2>1, GoesOn, BehindIs
<1>2. CASE work.version < 10
    <2>1. Leads(work, db, "commit", mode)
        BY <1>1, <1>2, ResetOffsetsLeads DEF Follows, Inv
    <2> HIDE DEF db
    <2> QED
        BY <1>1, <1>2, <2>1, WrittenKeeps DEF BeforeTables, Drops
<1>3. CASE ~ (work.version < 10)
    <2>1. work.version >= 10
        BY <1>3 DEF Inv, Legal, DB
    <2>2. Leads(work, work, "commit", mode)
        BY <1>1, <2>1, OffsetsDone DEF Follows, Inv
    <2> QED
        BY <1>1, <1>3, <2>2, NothingKeeps DEF BeforeTables, Drops
<1> QED
    BY <1>2, <1>3

LEMMA CreateTablesKeeps ==
    ASSUME Inv, CreateTables
    PROVE  Advances
<1> DEFINE missing == {i \in DOMAIN Scripts : ~ Has(work, Scripts[i])}
<1>1. /\ DOMAIN Scripts = 1..6
      /\ Scripts[1] = "predictions" /\ Scripts[2] = "error_metrics"
      /\ Scripts[3] = "price_history" /\ Scripts[4] = "meta"
      /\ Scripts[5] = "weather_history" /\ Scripts[6] = "spot_prices"
    BY DEF Scripts
<1>2. /\ Legal(work) /\ work \in DB /\ KindsOK(work)
    BY DEF Inv, Legal
<1>3. At = "tables" => work = disk /\ (mode = "clearing" => work.version \in {0, 10})
    BY DEF Inv, Committed, TypeOK, BeforeTables
<1>4. CASE missing = {}
    <2>1. Goes("tables") /\ Scripted(work)
        BY <1>4 DEF CreateTables
    <2>2. Follows("tables", "bias")
        BY <2>1, GoesOn, BehindIs
    <2>3. \A t \in {"predictions", "error_metrics", "price_history", "meta",
                    "weather_history", "spot_prices"} : Has(work, t)
        BY <1>1, <1>4
    <2>4. \A t \in {"predictions", "error_metrics", "price_history", "meta",
                    "weather_history", "spot_prices"} : Kind(work, t) # "absent"
        BY <1>2, <2>3, HasIs DEF Tables, Current
    <2>5. Leads(work, work, "bias", mode)
        BY <1>2, <2>2, <2>4, TablesDone DEF Follows
    <2>6. mode = "clearing" => work.version \in {0, 10}
        BY <1>3, <2>2 DEF Follows
    <2> QED
        BY <2>1, <2>2, <2>5, <2>6, ScriptedKeeps DEF Drops
<1>5. CASE missing # {}
    <2>1. PICK i \in missing : Do("tables", <<"tables">>) /\ Scripted(Create(work, Scripts[i]))
        BY <1>5 DEF CreateTables
    <2> DEFINE t == Scripts[i]
               db == Create(work, t)
    <2>2. t \in {"predictions", "error_metrics", "price_history", "meta",
                 "weather_history", "spot_prices"}
        BY <1>1
    <2>3. <<"tables">>[1] = "tables"
        OBVIOUS
    <2>4. Follows("tables", "tables")
        BY <2>1, <2>3, GoesInto, Parts
    <2> HIDE DEF t
    <2>5. Leads(work, db, "tables", mode)
        BY <1>2, <2>2, <2>4, TablesLeads DEF Follows
    <2>6. db.version = work.version
        BY <1>2, <2>2, CreateIs DEF Tables, Current
    <2>7. mode = "clearing" => db.version \in {0, 10}
        BY <1>3, <2>4, <2>6 DEF Follows
    <2>8. Scripted(db)
        BY <2>1 DEF t
    <2> HIDE DEF db
    <2> QED
        BY <2>4, <2>5, <2>7, <2>8, ScriptedKeeps DEF Drops
<1> QED
    BY <1>4, <1>5

LEMMA AddColumnKeeps ==
    ASSUME Inv, AddColumn
    PROVE  Advances
<1>1. ASSUME NEW c \in Forecast, NEW next, Goes(c), Behind(c) = next, c # "commit",
             c \in {"temp", "wind", "cloud"}, next \notin Drops,
             NEW db, Scripted(db), Legal(work) /\ Good(c, work, mode) => Leads(work, db, next, mode)
      PROVE  Advances
    <2>1. Follows(c, next)
        BY <1>1, GoesOn
    <2>2. mode = "opening"
        BY <1>1, <2>1, OpeningIs
    <2>3. Leads(work, db, next, mode)
        BY <1>1, <2>1 DEF Follows, Inv
    <2> QED
        BY <1>1, <2>1, <2>2, <2>3, ScriptedKeeps
<1>2. PICK c \in Forecast :
         Goes(c) /\ Scripted([work EXCEPT !.tab["predictions"].cols = @ \union {c}])
    BY DEF AddColumn
<1>3. mode \in {"opening", "clearing"}
    BY <1>2 DEF Goes, Do
<1>4. CASE c = "temp"
    <2>1. Legal(work) /\ Good(c, work, mode) => Leads(work,
             [work EXCEPT !.tab["predictions"].cols = @ \union {c}], "wind", mode)
        BY <1>3, <1>4, AddTempLeads
    <2> QED
        BY <1>1, <1>2, <1>4, <2>1, BehindIs DEF Drops
<1>5. CASE c = "wind"
    <2>1. Legal(work) /\ Good(c, work, mode) => Leads(work,
             [work EXCEPT !.tab["predictions"].cols = @ \union {c}], "cloud", mode)
        BY <1>3, <1>5, AddWindLeads
    <2> QED
        BY <1>1, <1>2, <1>5, <2>1, BehindIs DEF Drops
<1>6. CASE c = "cloud"
    <2>1. Legal(work) /\ Good(c, work, mode) => Leads(work,
             [work EXCEPT !.tab["predictions"].cols = @ \union {c}], "v4_version", mode)
        BY <1>3, <1>6, AddCloudLeads
    <2> QED
        BY <1>1, <1>2, <1>6, <2>1, BehindIs DEF Drops
<1> QED
    BY <1>4, <1>5, <1>6 DEF Forecast

\* A commit: before the script of a version, or at the end.
LEMMA CommitKeeps ==
    ASSUME Inv, Commit
    PROVE  Advances
<1>1. Scripted(work) /\ Legal(work) /\ mode \in {"opening", "clearing"}
    BY DEF Commit, Inv, Goes, Do
<1>2. CASE Goes("v2_commit")
    <2>1. Follows("v2_commit", "v2_rename")
        BY <1>2, GoesOn, BehindIs
    <2>2. Leads(work, work, "v2_rename", mode) /\ mode = "opening"
        BY <1>1, <2>1, PredictionsOn, OpeningIs DEF Follows
    <2> QED
        BY <1>1, <2>1, <2>2, ScriptedKeeps DEF Drops
<1>3. CASE Goes("v4_commit")
    <2>1. Follows("v4_commit", "temp")
        BY <1>3, GoesOn, BehindIs
    <2>2. Leads(work, work, "temp", mode) /\ mode = "opening"
        BY <1>1, <2>1, ForecastOn, OpeningIs DEF Follows
    <2> QED
        BY <1>1, <2>1, <2>2, ScriptedKeeps DEF Drops
<1>4. CASE Goes("commit")
    <2>1. /\ At = "commit" /\ At' \in {"end", "commit"} /\ Chain'
          /\ UNCHANGED <<mode, file, stops>>
        BY <1>4, FlowOn DEF Inv
    <2>2. Good("commit", work, mode)
        BY <1>1, <2>1 DEF Inv, Reached
    <2>3. Follows("commit", At')
        BY <1>1, <2>1, <2>2 DEF Follows
    <2>4. Leads(work, work, "commit", mode)
        BY <1>1, <2>2, KeepsSelf DEF Leads, Legal
    <2>5. Leads(work, work, "end", mode)
        BY <1>1, <2>2, CommitDone
    <2>6. Leads(work, work, At', mode)
        BY <2>1, <2>4, <2>5
    <2>7. work.version = 10
        BY <2>2 DEF Good, VersionMade, BeforeTables, Drops, BeforeBias, BeforeV2, BeforeV3,
            BeforeTemp, BeforeV5, BeforeAccuracy, BeforeEvaluation, BeforeV6, BeforeV7,
            BeforeV8, BeforeV9, BeforeOffset, BeforeV10
    <2>8. At' \notin Drops
        BY <2>1 DEF Drops
    <2> QED
        BY <1>1, <2>3, <2>6, <2>7, <2>8, ScriptedKeeps
<1> QED
    BY <1>2, <1>3, <1>4 DEF Commit

LEMMA DropKeeps ==
    ASSUME Inv, Drop
    PROVE  Advances
<1>1. PICK t \in DOMAIN DropOf :
         /\ Goes(DropOf[t])
         /\ Scripted([With(work, t, Absent) EXCEPT !.version = IF t = "meta" THEN 0 ELSE @])
    BY DEF Drop
<1> DEFINE op == DropOf[t]
           next == Behind(op)
           db == Versioned(With(work, t, Absent), IF t = "meta" THEN 0 ELSE work.version)
<1>2. /\ t \in Droppable /\ t \in Tables
    BY DEF DropOf, Droppable, Tables, Current
<1>3. /\ op \in Drops /\ op # "commit"
    BY <1>2 DEF DropOf, Droppable, Drops
<1>4. Follows(op, next)
    BY <1>1, <1>3, GoesOn
<1>5. mode = "clearing" /\ work = disk /\ work.version \in {0, 10}
    BY <1>3, <1>4 DEF Follows, Inv, Committed, TypeOK, BeforeTables
<1>6. Legal(work) /\ work \in DB
    BY DEF Inv, Legal
<1>7. With(work, t, Absent).version = work.version
    BY <1>2, <1>6, GoneIs
<1>8. Scripted(db)
    BY <1>1, <1>7 DEF Versioned
<1>9. /\ next \in BeforeTables
      /\ Droppable \ Undropped(next) \subseteq (Droppable \ Undropped(op)) \union {t}
    <2>1. CASE t = "predictions"
        BY <2>1, BehindIs DEF DropOf, Droppable, Undropped, BeforeTables, Drops
    <2>2. CASE t = "error_metrics"
        BY <2>2, BehindIs DEF DropOf, Droppable, Undropped, BeforeTables, Drops
    <2>3. CASE t = "bias_correction"
        BY <2>3, BehindIs DEF DropOf, Droppable, Undropped, BeforeTables, Drops
    <2>4. CASE t = "price_history"
        BY <2>4, BehindIs DEF DropOf, Droppable, Undropped, BeforeTables, Drops
    <2>5. CASE t = "spot_prices"
        BY <2>5, BehindIs DEF DropOf, Droppable, Undropped, BeforeTables, Drops
    <2>6. CASE t = "lead_time_accuracy"
        BY <2>6, BehindIs DEF DropOf, Droppable, Undropped, BeforeTables, Drops
    <2>7. CASE t = "evaluation"
        BY <2>7, BehindIs DEF DropOf, Droppable, Undropped, BeforeTables, Drops
    <2>8. CASE t = "meta"
        BY <2>8, BehindIs DEF DropOf, Droppable, Undropped, BeforeTables, Drops
    <2> QED
        BY <1>2, <2>1, <2>2, <2>3, <2>4, <2>5, <2>6, <2>7, <2>8 DEF Droppable
<1> HIDE DEF op, next
<1>10. Leads(work, db, next, "clearing")
    BY <1>2, <1>4, <1>5, <1>6, <1>9, DropLeads DEF Follows
<1>11. db.version \in {0, 10}
    <2>1. With(work, t, Absent) \in DB
        BY <1>2, <1>6, GoneIs
    <2> QED
        BY <1>5, <2>1, VersionIs
<1> HIDE DEF db
<1>12. work' = db /\ disk' = db /\ txn' = FALSE
    BY <1>8 DEF Scripted
<1> QED
    BY <1>4, <1>5, <1>10, <1>11, <1>12, StatementKeeps
-----------------------------------------------------------------------------
(* The databases of the earlier releases *)

LEMMA FromIs ==
    ASSUME NEW v \in 1..10, NEW eval
    PROVE  LET db == From(v, eval) IN
           /\ DOMAIN db.tab = Tables
           /\ db.tab["predictions"] =
                 Table((IF v >= 2 THEN {"id"} ELSE {}) \union (IF v >= 4 THEN Forecast ELSE {})
                         \union (IF v >= 10 THEN {"offset"} ELSE {}),
                       IF v >= 6 THEN "spot" ELSE "consumer")
           /\ db.tab["error_metrics"] =
                 Table({}, IF v < 3 THEN "hourly" ELSE IF v < 6 THEN "consumer" ELSE "spot")
           /\ db.tab["bias_correction"] =
                 Table(IF v >= 9 THEN {"bucket"} ELSE {},
                       IF v < 5 THEN "factors" ELSE IF v = 5 THEN "consumer"
                       ELSE IF v < 10 THEN "lagging" ELSE "raw")
           /\ db.tab["price_history"] =
                 Table({}, IF v < 6 THEN "consumer" ELSE IF v < 8 THEN "spot" ELSE "none")
           /\ db.tab["spot_prices"] = IF v < 8 THEN Absent ELSE Table({}, "spot")
           /\ db.tab["weather_history"] = Table({}, IF v < 7 THEN "local" ELSE "utc")
           /\ db.tab["lead_time_accuracy"] = Table({}, IF v < 6 THEN "consumer" ELSE "spot")
           /\ db.tab["evaluation"] = eval
           /\ db.tab["meta"] = Table({}, "trained")
           /\ \A t \in Tables \ Current : db.tab[t] = Absent
           /\ db.version = IF v < 3 THEN 0 ELSE v
<1>1. v # 0
    OBVIOUS
<1> DEFINE db == From(v, eval)
<1>2. DOMAIN db.tab = Tables /\ db.version = IF v < 3 THEN 0 ELSE v
    BY DEF From
<1>3. db.tab["predictions"] =
         Table((IF v >= 2 THEN {"id"} ELSE {}) \union (IF v >= 4 THEN Forecast ELSE {})
                 \union (IF v >= 10 THEN {"offset"} ELSE {}),
               IF v >= 6 THEN "spot" ELSE "consumer")
    BY <1>1, Zenon DEF From, Tables, Current
<1>4. db.tab["error_metrics"] =
         Table({}, IF v < 3 THEN "hourly" ELSE IF v < 6 THEN "consumer" ELSE "spot")
    BY <1>1, Zenon DEF From, Tables, Current
<1>5. db.tab["bias_correction"] =
         Table(IF v >= 9 THEN {"bucket"} ELSE {},
               IF v < 5 THEN "factors" ELSE IF v = 5 THEN "consumer"
               ELSE IF v < 10 THEN "lagging" ELSE "raw")
    BY <1>1, Zenon DEF From, Tables, Current
<1>6. db.tab["price_history"] =
         Table({}, IF v < 6 THEN "consumer" ELSE IF v < 8 THEN "spot" ELSE "none")
    BY <1>1, Zenon DEF From, Tables, Current
<1>7. db.tab["spot_prices"] = IF v < 8 THEN Absent ELSE Table({}, "spot")
    BY <1>1, Zenon DEF From, Tables, Current
<1>8. db.tab["weather_history"] = Table({}, IF v < 7 THEN "local" ELSE "utc")
    BY <1>1, Zenon DEF From, Tables, Current
<1>9. db.tab["lead_time_accuracy"] = Table({}, IF v < 6 THEN "consumer" ELSE "spot")
    BY <1>1, Zenon DEF From, Tables, Current
<1>10. db.tab["evaluation"] = eval /\ db.tab["meta"] = Table({}, "trained")
    BY <1>1, Zenon DEF From, Tables, Current
<1>11. \A t \in Tables \ Current : db.tab[t] = Absent
    BY <1>1, Zenon DEF From, Current
<1> QED
    BY <1>2, <1>3, <1>4, <1>5, <1>6, <1>7, <1>8, <1>9, <1>10, <1>11

LEMMA FromLegal ==
    ASSUME NEW v \in 0..10, NEW eval \in Evaluations(v)
    PROVE  Legal(From(v, eval))
<1> DEFINE db == From(v, eval)
<1>1. /\ db = [tab |-> db.tab, version |-> db.version]
      /\ db.tab = [t \in Tables |-> db.tab[t]]
      /\ db.version = IF v < 3 THEN 0 ELSE v
    BY Zenon DEF From
<1>2. db.version \in 0..10
    BY <1>1
<1>3. /\ \/ eval = Absent
         \/ v \in 6..8 /\ eval = Table({}, "single")
         \/ v >= 8 /\ eval = Table({"target_hours"}, "leads")
      /\ Absent = Table({}, "absent")
    BY DEF Evaluations, Absent
<1>4. CASE v = 0
    <2>1. \A t \in Tables : db.tab[t] = Table({}, "absent")
        BY <1>3, <1>4, Zenon DEF From
    <2>2. \A t \in Tables : Kind(db, t) = "absent" /\ Cols(db, t) = {}
        BY <2>1 DEF Kind, Cols, Table
    <2>3. \A t \in Tables : db.tab[t] \in [cols : SUBSET Columns, rows : Rows]
        BY <2>1 DEF Table, Rows
    <2> HIDE DEF db
    <2>4. db \in DB
        BY <1>1, <1>2, <2>3 DEF DB
    <2>5. KindsOK(db)
        BY <2>2 DEF KindsOK, Learned, Tables, Current
    <2>6. ColumnsOK(db)
        BY <2>2 DEF ColumnsOK, Tables, Current
    <2>7. VersionOK(db)
        BY <1>1, <1>4 DEF VersionOK
    <2> QED
        BY <2>4, <2>5, <2>6, <2>7 DEF Legal, db
<1>5. CASE v # 0
    <2>1. v \in 1..10
        BY <1>5
    <2>2. /\ Kind(db, "predictions") = IF v >= 6 THEN "spot" ELSE "consumer"
          /\ Cols(db, "predictions") = (IF v >= 2 THEN {"id"} ELSE {})
                \union (IF v >= 4 THEN Forecast ELSE {}) \union (IF v >= 10 THEN {"offset"} ELSE {})
        BY <2>1, FromIs DEF Kind, Cols, Table
    <2>3. /\ Kind(db, "error_metrics") = IF v < 3 THEN "hourly" ELSE IF v < 6 THEN "consumer" ELSE "spot"
          /\ Cols(db, "error_metrics") = {}
        BY <2>1, FromIs DEF Kind, Cols, Table
    <2>4. /\ Kind(db, "bias_correction") = IF v < 5 THEN "factors" ELSE IF v = 5 THEN "consumer"
                                           ELSE IF v < 10 THEN "lagging" ELSE "raw"
          /\ Cols(db, "bias_correction") = IF v >= 9 THEN {"bucket"} ELSE {}
        <3> DEFINE c == IF v >= 9 THEN {"bucket"} ELSE {}
                   r == IF v < 5 THEN "factors" ELSE IF v = 5 THEN "consumer"
                        ELSE IF v < 10 THEN "lagging" ELSE "raw"
        <3>1. db.tab["bias_correction"] = Table(c, r)
            BY <2>1, FromIs
        <3> HIDE DEF c, r, db
        <3>2. Kind(db, "bias_correction") = r /\ Cols(db, "bias_correction") = c
            BY <3>1 DEF Kind, Cols, Table
        <3> QED
            BY <3>2 DEF c, r
    <2>5. /\ Kind(db, "price_history") = IF v < 6 THEN "consumer" ELSE IF v < 8 THEN "spot" ELSE "none"
          /\ Cols(db, "price_history") = {}
        BY <2>1, FromIs DEF Kind, Cols, Table
    <2>6. /\ Kind(db, "spot_prices") = IF v < 8 THEN "absent" ELSE "spot"
          /\ Cols(db, "spot_prices") = {}
        BY <2>1, FromIs DEF Kind, Cols, Table, Absent
    <2>7. /\ Kind(db, "weather_history") = IF v < 7 THEN "local" ELSE "utc"
          /\ Cols(db, "weather_history") = {}
        BY <2>1, FromIs DEF Kind, Cols, Table
    <2>8. /\ Kind(db, "lead_time_accuracy") = IF v < 6 THEN "consumer" ELSE "spot"
          /\ Cols(db, "lead_time_accuracy") = {}
        BY <2>1, FromIs DEF Kind, Cols, Table
    <2>9. \/ Kind(db, "evaluation") = "absent" /\ Cols(db, "evaluation") = {}
          \/ Kind(db, "evaluation") = "single" /\ Cols(db, "evaluation") = {}
          \/ Kind(db, "evaluation") = "leads" /\ Cols(db, "evaluation") = {"target_hours"}
        BY <1>3, <2>1, FromIs DEF Kind, Cols, Table
    <2>10. Kind(db, "meta") = "trained" /\ Cols(db, "meta") = {}
        BY <2>1, FromIs DEF Kind, Cols, Table
    <2>11. \A t \in Tables \ Current : Kind(db, t) = "absent" /\ Cols(db, t) = {}
        BY <1>3, <2>1, FromIs DEF Kind, Cols, Table
    <2>12. \A t \in Tables : db.tab[t] \in [cols : SUBSET Columns, rows : Rows]
        <3>1. \A c \in SUBSET Columns, r \in Rows : Table(c, r) \in [cols : SUBSET Columns, rows : Rows]
            BY DEF Table
        <3>2. \A t \in Tables \ Current : db.tab[t] = Table({}, "absent")
            BY <1>3, <2>1, FromIs
        <3>3. \A t \in Tables : \E c \in SUBSET Columns, r \in Rows : db.tab[t] = Table(c, r)
            <4>1. ASSUME NEW t \in Tables \ Current
                  PROVE  \E c \in SUBSET Columns, r \in Rows : db.tab[t] = Table(c, r)
                BY <3>2 DEF Rows
            <4>2. \E c \in SUBSET Columns, r \in Rows : db.tab["predictions"] = Table(c, r)
                BY <2>1, FromIs DEF Rows, Columns, Forecast
            <4>3. \E c \in SUBSET Columns, r \in Rows : db.tab["error_metrics"] = Table(c, r)
                BY <2>1, FromIs DEF Rows
            <4>4. \E c \in SUBSET Columns, r \in Rows : db.tab["bias_correction"] = Table(c, r)
                BY <2>1, FromIs DEF Rows, Columns
            <4>5. \E c \in SUBSET Columns, r \in Rows : db.tab["price_history"] = Table(c, r)
                BY <2>1, FromIs DEF Rows
            <4>6. \E c \in SUBSET Columns, r \in Rows : db.tab["spot_prices"] = Table(c, r)
                BY <1>3, <2>1, FromIs DEF Rows
            <4>7. \E c \in SUBSET Columns, r \in Rows : db.tab["weather_history"] = Table(c, r)
                BY <2>1, FromIs DEF Rows
            <4>8. \E c \in SUBSET Columns, r \in Rows : db.tab["lead_time_accuracy"] = Table(c, r)
                BY <2>1, FromIs DEF Rows
            <4>9. \E c \in SUBSET Columns, r \in Rows : db.tab["evaluation"] = Table(c, r)
                BY <1>3, <2>1, FromIs DEF Rows, Columns
            <4>10. \E c \in SUBSET Columns, r \in Rows : db.tab["meta"] = Table(c, r)
                BY <2>1, FromIs DEF Rows
            <4> QED
                BY <4>1, <4>2, <4>3, <4>4, <4>5, <4>6, <4>7, <4>8, <4>9, <4>10 DEF Current
        <3> QED
            BY <3>1, <3>3
    <2> HIDE DEF db
    <2>13. db \in DB
        BY <1>1, <1>2, <2>12 DEF DB
    <2>14. KindsOK(db)
        <3>1. \A t \in Tables : Kind(db, t) = "absent" => Cols(db, t) = {}
            BY <2>2, <2>3, <2>4, <2>5, <2>6, <2>7, <2>8, <2>9, <2>10, <2>11 DEF Tables, Current
        <3>2. /\ Kind(db, "predictions_old") = "absent"
              /\ Kind(db, "bias_correction_pooled") = "absent"
            BY <2>11 DEF Tables, Current
        <3> QED
            BY <2>2, <2>3, <2>4, <2>5, <2>6, <2>7, <2>8, <2>9, <2>10, <3>1, <3>2 DEF KindsOK, Learned
    <2>15. ColumnsOK(db)
        BY <1>1, <2>1, <2>2, <2>4, <2>9 DEF ColumnsOK, Forecast
    <2>16. VersionOK(db)
        BY <1>1, <2>1, <2>2, <2>3, <2>4, <2>5, <2>7, <2>8 DEF VersionOK
    <2> QED
        BY <2>13, <2>14, <2>15, <2>16 DEF Legal, db
<1> QED
    BY <1>4, <1>5

\* The inductive invariant holds in every initial state.
LEMMA InitInv == Init => Inv
<1> SUFFICES ASSUME Init PROVE Inv
    OBVIOUS
<1>1. PICK v \in 0..10 : \E e \in Evaluations(v) : disk = From(v, e)
    BY ReleasesAssumption DEF Init, Databases
<1>2. Legal(disk) /\ disk \in DB
    BY <1>1, FromLegal DEF Legal
<1>3. /\ Legal(work) /\ work = disk /\ txn = FALSE /\ mode = "down" /\ todo = << >>
      /\ file \in BOOLEAN /\ stops = 0
    BY <1>2 DEF Init
<1>4. TypeOK
    <2>1. todo \in Seq(Statements)
        BY <1>3
    <2>2. stops \in 0..MaxStops
        BY <1>3, StopsAssumption
    <2>3. /\ work.tab \in [Tables -> [cols : SUBSET Columns, rows : Rows]]
          /\ work.version \in 0..10
        BY <1>2, <1>3 DEF DB
    <2> QED
        BY <1>3, <2>1, <2>2, <2>3 DEF TypeOK
<1>5. Chain /\ At = "end"
    BY <1>3 DEF Chain, At
<1>6. Reached /\ Committed
    BY <1>3, <1>5 DEF Reached, Committed, Drops
<1>7. Kept
    BY <1>2, <1>3, KeepsSelf DEF Kept
<1> QED
    BY <1>2, <1>3, <1>4, <1>5, <1>6, <1>7 DEF Inv
-----------------------------------------------------------------------------
(* The steps between the statements *)

\* A list of statements that leads from its first to its last one.
IsRun(s, a, b) ==
    /\ s \in Seq(Statements) /\ Len(s) > 0
    /\ \A i \in 1..(Len(s) - 1) : s[i + 1] = Behind(s[i])
    /\ s[1] = a /\ s[Len(s)] = b

LEMMA RunsJoin ==
    ASSUME NEW s, NEW t, NEW a, NEW b, NEW c, NEW d,
           IsRun(s, a, b), IsRun(t, c, d), Behind(b) = c
    PROVE  IsRun(s \o t, a, d)
<1> DEFINE n == Len(s)
           k == Len(t)
<1>1. /\ n \in Nat /\ n > 0 /\ k \in Nat /\ k > 0
      /\ s \in Seq(Statements) /\ t \in Seq(Statements)
    BY DEF IsRun
<1>2. /\ s \o t \in Seq(Statements) /\ Len(s \o t) = n + k
      /\ \A i \in 1..(n + k) : (s \o t)[i] = IF i <= n THEN s[i] ELSE t[i - n]
    BY <1>1
<1> DEFINE r == s \o t
<1> HIDE DEF r
<1>3. /\ r \in Seq(Statements) /\ Len(r) = n + k
      /\ \A i \in 1..(n + k) : r[i] = IF i <= n THEN s[i] ELSE t[i - n]
    BY <1>2 DEF r
<1>4. ASSUME NEW i \in 1..(n + k - 1) PROVE r[i + 1] = Behind(r[i])
    <2>1. CASE i < n
        BY <1>1, <1>3, <2>1 DEF IsRun
    <2>2. CASE i = n
        BY <1>1, <1>3, <2>2 DEF IsRun
    <2>3. CASE i > n
        <3>1. r[i] = t[i - n] /\ r[i + 1] = t[(i - n) + 1] /\ i - n \in 1..(k - 1)
            BY <1>1, <1>3, <2>3
        <3> QED
            BY <3>1 DEF IsRun
    <2> QED
        BY <1>1, <2>1, <2>2, <2>3
<1>5. r[1] = a /\ r[Len(r)] = d
    BY <1>1, <1>3 DEF IsRun
<1>6. IsRun(r, a, d)
    BY <1>1, <1>3, <1>4, <1>5 DEF IsRun
<1> QED
    BY <1>6 DEF r

\* The drops, and the schema in parts.
LEMMA RunsAre ==
    /\ IsRun(Schema, "tables", "commit")
    /\ IsRun(Dropped \o Schema \o <<"commit">>, "drop_predictions", "commit")
<1>1. ASSUME NEW a \in Statements, NEW b \in Statements, Behind(a) = b
      PROVE  IsRun(<<a, b>>, a, b)
    <2> DEFINE q == <<a, b>>
    <2>1. q \in Seq(Statements) /\ Len(q) = 2 /\ q[1] = a /\ q[2] = b
        OBVIOUS
    <2> HIDE DEF q
    <2>2. \A i \in 1..(Len(q) - 1) : i = 1
        BY <2>1
    <2>3. IsRun(q, a, b)
        BY <1>1, <2>1, <2>2 DEF IsRun
    <2> QED
        BY <2>3 DEF q
<1>2. ASSUME NEW a \in Statements, NEW b \in Statements, NEW c \in Statements, NEW d \in Statements,
             Behind(a) = b, Behind(b) = c, Behind(c) = d
      PROVE  IsRun(<<a, b, c, d>>, a, d)
    <2>1. IsRun(<<a, b>>, a, b) /\ IsRun(<<c, d>>, c, d)
        BY <1>1, <1>2
    <2>2. <<a, b, c, d>> = <<a, b>> \o <<c, d>>
        OBVIOUS
    <2>3. IsRun(<<a, b>> \o <<c, d>>, a, d)
        BY <1>2, <2>1, RunsJoin, Zenon
    <2> QED
        BY <2>2, <2>3, Zenon
<1>3. Behind("v10") = "commit" /\ Behind("commit") = "commit" /\ Behind("evaluation") = "v6"
    BY DEF Behind
<1>4. /\ IsRun(<<"drop_predictions", "drop_error_metrics", "drop_bias_correction",
                 "drop_price_history">>, "drop_predictions", "drop_price_history")
      /\ IsRun(<<"drop_spot_prices", "drop_lead_time_accuracy", "drop_evaluation", "drop_meta">>,
               "drop_spot_prices", "drop_meta")
    <2>1. /\ "drop_predictions" \in Statements /\ "drop_error_metrics" \in Statements
          /\ "drop_bias_correction" \in Statements /\ "drop_price_history" \in Statements
          /\ "drop_spot_prices" \in Statements /\ "drop_lead_time_accuracy" \in Statements
          /\ "drop_evaluation" \in Statements /\ "drop_meta" \in Statements
        BY DEF Statements
    <2> QED
        BY <1>2, <2>1, BehindIs, Zenon
<1>5. IsRun(Dropped, "drop_predictions", "drop_meta")
    <2>1. Dropped = <<"drop_predictions", "drop_error_metrics", "drop_bias_correction",
                      "drop_price_history">>
                    \o <<"drop_spot_prices", "drop_lead_time_accuracy", "drop_evaluation",
                         "drop_meta">>
        BY DEF Dropped
    <2> QED
        BY <1>4, <2>1, BehindIs, RunsJoin
<1>6. /\ IsRun(<<"tables", "bias", "v2", "v3">>, "tables", "v3")
      /\ IsRun(<<"v4", "v5", "accuracy", "evaluation">>, "v4", "evaluation")
      /\ IsRun(<<"v6", "v7", "v8", "v9">>, "v6", "v9")
      /\ IsRun(<<"v10", "commit">>, "v10", "commit")
    <2>1. /\ "tables" \in Statements /\ "bias" \in Statements /\ "v2" \in Statements
          /\ "v3" \in Statements /\ "v4" \in Statements /\ "v5" \in Statements
          /\ "accuracy" \in Statements /\ "evaluation" \in Statements
        BY DEF Statements
    <2>2. /\ "v6" \in Statements /\ "v7" \in Statements /\ "v8" \in Statements
          /\ "v9" \in Statements /\ "v10" \in Statements /\ "commit" \in Statements
        BY DEF Statements
    <2> QED
        BY <1>1, <1>2, <1>3, <2>1, <2>2, BehindIs, Zenon
<1>7. IsRun(Schema, "tables", "commit")
    <2>1. Schema = (<<"tables", "bias", "v2", "v3">> \o <<"v4", "v5", "accuracy", "evaluation">>)
                   \o (<<"v6", "v7", "v8", "v9">> \o <<"v10", "commit">>)
        BY DEF Schema
    <2>2. /\ IsRun(<<"tables", "bias", "v2", "v3">> \o <<"v4", "v5", "accuracy", "evaluation">>,
                   "tables", "evaluation")
          /\ IsRun(<<"v6", "v7", "v8", "v9">> \o <<"v10", "commit">>, "v6", "commit")
        BY <1>6, BehindIs, RunsJoin
    <2> QED
        BY <1>3, <2>1, <2>2, RunsJoin
<1>8. IsRun(<<"commit">>, "commit", "commit")
    <2> DEFINE q == <<"commit">>
    <2>1. "commit" \in Statements
        BY DEF Statements
    <2>2. q \in Seq(Statements) /\ Len(q) = 1 /\ q[1] = "commit"
        BY <2>1
    <2> HIDE DEF q
    <2>3. IsRun(q, "commit", "commit")
        BY <2>2 DEF IsRun
    <2> QED
        BY <2>3 DEF q
<1>9. IsRun(Dropped \o Schema, "drop_predictions", "commit")
    BY <1>5, <1>7, BehindIs, RunsJoin
<1> QED
    BY <1>3, <1>7, <1>8, <1>9, RunsJoin

\* What holds of the tables when all is done.
LEMMA EndIs ==
    ASSUME NEW db, NEW m, NEW n, Good("end", db, m)
    PROVE  /\ db.version = 10
           /\ {"id", "temp", "offset"} \subseteq Cols(db, "predictions")
           /\ Cols(db, "evaluation") = {"target_hours"}
           /\ \A t \in {"predictions", "error_metrics", "price_history", "meta", "weather_history",
                        "spot_prices", "bias_correction", "lead_time_accuracy"} :
                 Kind(db, t) # "absent"
           /\ n # "clearing" => Good("end", db, n)
           /\ m = "clearing" => \A t \in Droppable : Fresh(db, t)
<1> USE DEF BeforeTables, Drops, BeforeBias, BeforeV2, BeforeV3, BeforeTemp, BeforeV5,
            BeforeAccuracy, BeforeEvaluation, BeforeV6, BeforeV7, BeforeV8, BeforeV9,
            BeforeOffset, BeforeV10
<1>1. db.version = 10
    BY DEF Good, VersionMade
<1>2. {"id", "temp", "offset"} \subseteq Cols(db, "predictions")
    BY DEF Good, ColumnsMade
<1>3. /\ Cols(db, "evaluation") = {"target_hours"}
      /\ \A t \in {"predictions", "error_metrics", "price_history", "meta", "weather_history",
                   "spot_prices", "bias_correction", "lead_time_accuracy"} :
            Kind(db, t) # "absent"
    BY DEF Good, TablesMade
<1>4. n # "clearing" => Good("end", db, n)
    <2>1. Migrating("end", db, n)
        BY DEF Migrating
    <2> QED
        BY <2>1 DEF Good, Emptied
<1>5. m = "clearing" => \A t \in Droppable : Fresh(db, t)
    BY DEF Good, Emptied, Undropped
<1> QED
    BY <1>1, <1>2, <1>3, <1>4, <1>5

\* In between, what the connection sees is what is on disk.
LEMMA QuietIs ==
    ASSUME Inv, mode \notin {"opening", "clearing"}
    PROVE  /\ ~ txn /\ work = disk /\ todo = << >> /\ At = "end"
           /\ Legal(disk) /\ disk \in DB
           /\ mode \notin {"down", "failed"} => Good("end", disk, mode)
           /\ mode \in {"open", "failed"} => disk.version \in {0, 10}
<1>1. ~ txn /\ work = disk /\ todo = << >> /\ At = "end"
    BY DEF Inv, TypeOK, Chain, At, Committed
<1>2. Legal(disk) /\ disk \in DB
    BY DEF Inv, Legal
<1>3. mode \notin {"down", "failed"} => Good("end", disk, mode)
    BY <1>1 DEF Inv, Reached
<1>4. mode \in {"open", "failed"} => disk.version \in {0, 10}
    BY <1>3, EndIs DEF Inv, Committed
<1> QED
    BY <1>1, <1>2, <1>3, <1>4

\* A step that leaves nothing to do and all committed preserves the invariant.
LEMMA SettledKeeps ==
    ASSUME Inv, work' = disk', txn' = FALSE, todo' = << >>, Legal(disk'),
           mode' \in {"down", "imports", "renames", "open", "failed"},
           file' \in BOOLEAN, stops' \in 0..MaxStops,
           mode' \notin {"down", "failed"} => Good("end", disk', mode'),
           mode' = "failed" => disk'.version \in {0, 10}
    PROVE  Inv'
<1>1. disk' \in DB /\ Legal(work')
    BY DEF Legal
<1>2. TypeOK'
    <2>1. todo' \in Seq(Statements)
        OBVIOUS
    <2>2. /\ work'.tab \in [Tables -> [cols : SUBSET Columns, rows : Rows]]
          /\ work'.version \in 0..10
        BY <1>1 DEF DB
    <2> QED
        BY <2>1, <2>2 DEF TypeOK
<1>3. Chain' /\ At' = "end"
    BY DEF Chain, At
<1>4. Reached'
    BY <1>3 DEF Reached
<1>5. Committed'
    BY <1>3 DEF Committed, Drops
<1>6. Kept'
    BY <1>1, KeepsSelf DEF Kept
<1> QED
    BY <1>1, <1>2, <1>3, <1>4, <1>5, <1>6 DEF Inv

\* A step that begins an opening or a reset.
LEMMA BegunKeeps ==
    ASSUME Inv, UNCHANGED <<disk, file, stops>>, work' = disk, txn' = FALSE,
           mode' \in {"opening", "clearing"}, NEW a, IsRun(todo', a, "commit"),
           Good(a, disk, mode'), a \in Drops => mode' = "clearing",
           mode' = "clearing" => disk.version \in {0, 10}
    PROVE  Inv'
<1>1. Legal(disk') /\ Legal(work') /\ disk' \in DB
    BY DEF Inv, Legal
<1>2. todo' \in Seq(Statements) /\ todo' # << >> /\ Head(todo') = a
    BY FirstIs DEF IsRun
<1>3. TypeOK'
    BY <1>2 DEF Inv, TypeOK
<1>4. Chain' /\ At' = a
    BY <1>2 DEF Chain, At, IsRun
<1>5. Reached'
    BY <1>4 DEF Reached
<1>6. Committed'
    BY <1>4 DEF Committed
<1>7. Kept'
    BY <1>1, KeepsSelf DEF Kept
<1> QED
    BY <1>1, <1>3, <1>4, <1>5, <1>6, <1>7 DEF Inv

\* Where the tables do not change, all is kept.
LEMMA StillAdvances ==
    ASSUME Inv, Inv', disk' = disk, mode # "clearing" \/ mode' # "open"
    PROVE  Advances
<1>1. disk \in DB
    BY DEF Inv, Legal
<1> QED
    BY <1>1, KeepsSelf DEF Advances

LEMMA OpenKeeps ==
    ASSUME Inv, Open
    PROVE  Advances
<1>1. /\ mode = "down" /\ mode' = "opening" /\ todo' = Schema /\ work' = disk /\ txn' = FALSE
      /\ UNCHANGED <<disk, file, stops>>
    BY DEF Open
<1>2. Good("tables", disk, "opening")
    <2> USE DEF BeforeTables, Drops, BeforeBias, BeforeV2, BeforeV3, BeforeTemp, BeforeV5,
                BeforeAccuracy, BeforeEvaluation, BeforeV6, BeforeV7, BeforeV8, BeforeV9,
                BeforeOffset, BeforeV10
    <2>1. /\ TablesMade("tables", disk) /\ ColumnsMade("tables", disk)
          /\ VersionMade("tables", disk)
        BY DEF TablesMade, ColumnsMade, VersionMade
    <2>2. Migrating("tables", disk, "opening")
        BY DEF Migrating
    <2> QED
        BY <2>1, <2>2 DEF Good, Emptied
<1>3. "tables" \notin Drops
    BY DEF Drops
<1>4. Inv'
    BY <1>1, <1>2, <1>3, RunsAre, BegunKeeps
<1> QED
    BY <1>1, <1>4, StillAdvances

LEMMA ClearKeeps ==
    ASSUME Inv, Clear
    PROVE  Advances
<1>1. /\ mode \in {"open", "failed"} /\ mode' = "clearing"
      /\ todo' = Dropped \o Schema \o <<"commit">>
      /\ UNCHANGED <<disk, work, txn, file, stops>>
    BY DEF Clear
<1>2. work' = disk /\ txn' = FALSE /\ disk.version \in {0, 10}
    BY <1>1, QuietIs DEF Inv, TypeOK
<1>3. Good("drop_predictions", disk, "clearing")
    <2> USE DEF BeforeTables, Drops, BeforeBias, BeforeV2, BeforeV3, BeforeTemp, BeforeV5,
                BeforeAccuracy, BeforeEvaluation, BeforeV6, BeforeV7, BeforeV8, BeforeV9,
                BeforeOffset, BeforeV10
    <2>1. /\ TablesMade("drop_predictions", disk) /\ ColumnsMade("drop_predictions", disk)
          /\ VersionMade("drop_predictions", disk)
        BY DEF TablesMade, ColumnsMade, VersionMade
    <2>2. Migrating("drop_predictions", disk, "clearing")
        BY DEF Migrating
    <2>3. Emptied("drop_predictions", disk, "clearing")
        BY DEF Emptied, Undropped
    <2> QED
        BY <2>1, <2>2, <2>3 DEF Good
<1>4. IsRun(todo', "drop_predictions", "commit")
    BY <1>1, RunsAre
<1>5. Inv'
    BY <1>1, <1>2, <1>3, <1>4, BegunKeeps
<1> QED
    BY <1>1, <1>5, StillAdvances

LEMMA DoneKeeps ==
    ASSUME Inv, Done
    PROVE  Advances
<1>1. /\ mode \in {"opening", "clearing"} /\ todo = << >> /\ At = "end"
      /\ mode' = IF mode = "opening" THEN "imports" ELSE "open"
      /\ UNCHANGED <<disk, work, txn, todo, file, stops>>
    BY DEF Done, At
<1>2. ~ txn /\ work = disk /\ txn \in BOOLEAN /\ file \in BOOLEAN /\ stops \in 0..MaxStops
    BY <1>1 DEF Inv, Committed, TypeOK
<1>3. Good("end", disk, mode) /\ Legal(disk) /\ disk \in DB
    BY <1>1, <1>2 DEF Inv, Reached, Legal
<1>4. mode' \in {"imports", "open"} /\ Good("end", disk, mode')
    BY <1>1, <1>3, EndIs
<1>5. Inv'
    BY <1>1, <1>2, <1>3, <1>4, SettledKeeps
<1>6. mode = "clearing" => \A t \in Droppable : Fresh(disk, t)
    BY <1>3, EndIs
<1>7. Keeps(disk, disk') /\ KeepsWeather(disk, disk')
    BY <1>1, <1>3, KeepsSelf
<1> QED
    BY <1>1, <1>5, <1>6, <1>7 DEF Advances

LEMMA RenameFileKeeps ==
    ASSUME Inv, RenameFile
    PROVE  Advances
<1>1. /\ mode = "renames" /\ mode' = "open" /\ file' \in BOOLEAN
      /\ UNCHANGED <<disk, work, txn, todo, stops>>
    BY DEF RenameFile
<1>2. /\ work' = disk' /\ txn' = FALSE /\ todo' = << >> /\ Legal(disk')
      /\ Good("end", disk', "open") /\ stops' \in 0..MaxStops
    BY <1>1, QuietIs, EndIs DEF Inv, TypeOK
<1>3. Inv'
    BY <1>1, <1>2, SettledKeeps
<1> QED
    BY <1>1, <1>3, StillAdvances

LEMMA NoImportKeeps ==
    ASSUME Inv, NoImport
    PROVE  Advances
<1>1. /\ mode = "imports" /\ mode' = "open"
      /\ UNCHANGED <<disk, work, txn, todo, file, stops>>
    BY DEF NoImport
<1>2. /\ work' = disk' /\ txn' = FALSE /\ todo' = << >> /\ Legal(disk')
      /\ Good("end", disk', "open") /\ stops' \in 0..MaxStops /\ file' \in BOOLEAN
    BY <1>1, QuietIs, EndIs DEF Inv, TypeOK
<1>3. Inv'
    BY <1>1, <1>2, SettledKeeps
<1> QED
    BY <1>1, <1>3, StillAdvances

LEMMA StopKeeps ==
    ASSUME Inv, Stop
    PROVE  Advances
<1>1. /\ mode' = "down" /\ work' = disk /\ txn' = FALSE /\ todo' = << >>
      /\ stops < MaxStops /\ stops' = stops + 1 /\ UNCHANGED <<disk, file>>
    BY DEF Stop
<1>2. stops' \in 0..MaxStops /\ file' \in BOOLEAN /\ Legal(disk')
    BY <1>1, StopsAssumption DEF Inv, TypeOK
<1>3. Inv'
    BY <1>1, <1>2, SettledKeeps
<1> QED
    BY <1>1, <1>3, StillAdvances

LEMMA ClearFailKeeps ==
    ASSUME Inv, ClearFail
    PROVE  Advances
<1>1. /\ mode = "clearing" /\ mode' = "failed" /\ work' = disk /\ txn' = FALSE
      /\ todo' = << >> /\ stops < MaxStops /\ stops' = stops + 1 /\ UNCHANGED <<disk, file>>
    BY DEF ClearFail
<1>2. /\ stops' \in 0..MaxStops /\ file' \in BOOLEAN /\ Legal(disk')
      /\ disk'.version \in {0, 10}
    BY <1>1, StopsAssumption DEF Inv, TypeOK, Committed
<1>3. Inv'
    BY <1>1, <1>2, SettledKeeps
<1> QED
    BY <1>1, <1>3, StillAdvances

LEMMA StoresIs ==
    /\ \A t \in {"predictions", "error_metrics", "spot_prices", "lead_time_accuracy"} :
          Stores(t) = "spot"
    /\ Stores("bias_correction") = "raw" /\ Stores("weather_history") = "utc"
    /\ Stores("evaluation") = "leads" /\ Stores("meta") = "trained"
<1>1. Stores("predictions") = "spot" /\ Stores("error_metrics") = "spot"
    BY Zenon DEF Stores
<1>2. Stores("spot_prices") = "spot" /\ Stores("lead_time_accuracy") = "spot"
    BY Zenon DEF Stores
<1>3. Stores("bias_correction") = "raw" /\ Stores("weather_history") = "utc"
    BY Zenon DEF Stores
<1>4. Stores("evaluation") = "leads" /\ Stores("meta") = "trained"
    BY Zenon DEF Stores
<1> QED
    BY <1>1, <1>2, <1>3, <1>4

\* A table that is there and has its columns may be filled with rows of the
\* current kind.
LEMMA FilledIs ==
    ASSUME NEW db, Legal(db), db.version \in {0, 10}, NEW t \in Current \ {"price_history"},
           Kind(db, t) # "absent", Full(t) \subseteq Cols(db, t),
           NEW rows, rows = Stores(t) \/ (t = "meta" /\ rows = "file"), NEW m, m # "clearing"
    PROVE  /\ Legal(Hold(db, {t}, rows)) /\ Hold(db, {t}, rows).version = db.version
           /\ Good("end", db, m) => Good("end", Hold(db, {t}, rows), m)
           /\ rows = Stores(t) => Keeps(db, Hold(db, {t}, rows))
           /\ KeepsWeather(db, Hold(db, {t}, rows))
<1> DEFINE h == Hold(db, {t}, rows)
<1>1. /\ t \in {"predictions", "error_metrics", "spot_prices", "lead_time_accuracy"} => rows = "spot"
      /\ t = "bias_correction" => rows = "raw" /\ Cols(db, t) # {}
      /\ t = "weather_history" => rows = "utc"
      /\ t = "evaluation" => rows = "leads" /\ Cols(db, t) # {}
      /\ t = "meta" => rows \in {"trained", "file"}
      /\ rows = Stores(t) /\ t = "meta" => rows = "trained"
    BY StoresIs, FullIs
<1>2. t \in {"predictions", "error_metrics", "spot_prices", "lead_time_accuracy",
             "bias_correction", "weather_history", "evaluation", "meta"}
    BY DEF Current
<1>3. rows \in {"spot", "raw", "utc", "leads", "trained", "file"}
    BY <1>1, <1>2
<1>4. rows \in Rows
    BY <1>3 DEF Rows
<1>5. /\ h \in DB /\ h.version = db.version
      /\ \A u \in Tables : /\ Kind(h, u) = IF u = t THEN rows ELSE Kind(db, u)
                           /\ Cols(h, u) = Cols(db, u)
    BY <1>4, HoldIs DEF Legal
<1> HIDE DEF h
<1>6. KindsOK(h)
    BY <1>1, <1>2, <1>3, <1>5 DEF Legal, KindsOK, Learned, Tables, Current
<1>7. ColumnsOK(h)
    BY <1>1, <1>2, <1>3, <1>5 DEF Legal, ColumnsOK, Tables, Current
<1>8. VersionOK(h)
    BY <1>1, <1>2, <1>3, <1>5 DEF Legal, VersionOK, Tables, Current
<1>9. Good("end", db, m) => Good("end", h, m)
    <2>1. TablesMade("end", db) => TablesMade("end", h)
        BY <1>3, <1>5 DEF TablesMade, Tables, Current
    <2>2. ColumnsMade("end", db) => ColumnsMade("end", h)
        BY <1>5 DEF ColumnsMade, Tables, Current
    <2>3. VersionMade("end", db) => VersionMade("end", h)
        BY <1>5 DEF VersionMade
    <2>4. Migrating("end", h, m)
        BY DEF Migrating, BeforeTables, Drops, BeforeBias, BeforeV2
    <2> QED
        BY <2>1, <2>2, <2>3, <2>4 DEF Good, Emptied
<1>10. rows = Stores(t) => Keeps(db, h)
    BY <1>1, <1>2, <1>5 DEF Keeps, Tables, Current
<1>11. KeepsWeather(db, h)
    BY <1>1, <1>2, <1>5 DEF KeepsWeather, Tables, Current
<1> QED
    BY <1>5, <1>6, <1>7, <1>8, <1>9, <1>10, <1>11 DEF Legal, h

LEMMA ImportKeeps ==
    ASSUME Inv, Import
    PROVE  Advances
<1> DEFINE h == Hold(disk, {"meta"}, "file")
<1>1. /\ mode = "imports" /\ file /\ mode' = "renames" /\ UNCHANGED <<todo, file, stops>>
      /\ work' = Hold(work, {"meta"}, "file") /\ disk' = Hold(work, {"meta"}, "file")
      /\ txn' = FALSE
    BY DEF Import, Importable, Scripted
<1>2. /\ work = disk /\ todo = << >> /\ Legal(disk) /\ disk \in DB
      /\ Good("end", disk, "imports")
    BY <1>1, QuietIs
<1>3. disk.version = 10 /\ Good("end", disk, "renames") /\ Kind(disk, "meta") # "absent"
    BY <1>2, EndIs
<1>4. Full("meta") \subseteq Cols(disk, "meta") /\ "meta" \in Current \ {"price_history"}
    BY FullIs DEF Current
<1>5. Legal(h) /\ Good("end", h, "renames") /\ KeepsWeather(disk, h)
    BY <1>2, <1>3, <1>4, FilledIs
<1>6. work' = disk' /\ disk' = h
    BY <1>1, <1>2
<1> HIDE DEF h
<1>7. file' \in BOOLEAN /\ stops' \in 0..MaxStops /\ todo' = << >>
    BY <1>1, <1>2 DEF Inv, TypeOK
<1>8. Inv'
    BY <1>1, <1>5, <1>6, <1>7, SettledKeeps
<1> QED
    BY <1>1, <1>5, <1>6, <1>8 DEF Advances, Imported, h

LEMMA StoreKeeps ==
    ASSUME Inv, NEW t \in Current \ {"price_history"}, Store(t)
    PROVE  Advances
<1> DEFINE h == Hold(disk, {t}, Stores(t))
<1>1. /\ mode \in {"open", "failed"} /\ Has(work, t) /\ Full(t) \subseteq work.tab[t].cols
      /\ work' = Hold(work, {t}, Stores(t)) /\ disk' = Hold(work, {t}, Stores(t))
      /\ txn' = FALSE /\ UNCHANGED <<mode, todo, file, stops>>
    BY DEF Store, Scripted
<1>2. /\ work = disk /\ todo = << >> /\ Legal(disk) /\ disk \in DB /\ disk.version \in {0, 10}
      /\ mode # "failed" => Good("end", disk, mode)
    BY <1>1, QuietIs
<1>3. Kind(disk, t) # "absent" /\ Full(t) \subseteq Cols(disk, t)
    BY <1>1, <1>2, HasIs DEF Legal, Tables, Cols
<1>4. /\ Legal(h) /\ h.version = disk.version /\ Keeps(disk, h) /\ KeepsWeather(disk, h)
      /\ Good("end", disk, mode) => Good("end", h, mode)
    <2>1. mode # "clearing"
        BY <1>1
    <2> QED
        BY <1>2, <1>3, <2>1, FilledIs
<1>5. work' = disk' /\ disk' = h
    BY <1>1, <1>2
<1> HIDE DEF h
<1>6. file' \in BOOLEAN /\ stops' \in 0..MaxStops /\ todo' = << >>
    BY <1>1, <1>2 DEF Inv, TypeOK
<1>7. /\ mode' \in {"open", "failed"} /\ mode' # "failed" => Good("end", disk', mode')
      /\ disk'.version \in {0, 10}
    BY <1>1, <1>2, <1>4, <1>5
<1>8. Inv'
    BY <1>1, <1>4, <1>5, <1>6, <1>7, SettledKeeps
<1> QED
    BY <1>1, <1>4, <1>5, <1>8 DEF Advances
-----------------------------------------------------------------------------
(* Every step *)

LEMMA StutterKeeps ==
    ASSUME Inv, UNCHANGED vars
    PROVE  Advances
<1>1. Inv'
    <2>1. UNCHANGED <<disk, work, txn, mode, todo, file, stops>>
        BY DEF vars
    <2>2. TypeOK' /\ Chain' /\ Legal(disk') /\ Legal(work') /\ At' = At
        BY <2>1 DEF Inv, TypeOK, Chain, At
    <2>3. Reached' /\ Committed' /\ Kept'
        BY <2>1, <2>2 DEF Inv, Reached, Committed, Kept
    <2> QED
        BY <2>2, <2>3 DEF Inv
<1>2. disk' = disk /\ mode' = mode
    BY DEF vars
<1> QED
    BY <1>1, <1>2, StillAdvances

LEMMA StepKeeps ==
    ASSUME Inv, Step
    PROVE  Advances
<1>1. CASE Open \/ CreateTables \/ CreateBias \/ MigratePredictions \/ RenamePredictions
           \/ RecreatePredictions \/ CopyPredictions \/ DropPredictions
    BY <1>1, OpenKeeps, CreateTablesKeeps, CreateBiasKeeps, MigratePredictionsKeeps,
       RenamePredictionsKeeps, RecreatePredictionsKeeps, CopyPredictionsKeeps,
       DropPredictionsKeeps, Zenon
<1>2. CASE ClearHourly \/ AddForecast \/ AddColumn \/ SetVersion4 \/ ClearFactors
           \/ CreateAccuracy \/ MigrateEvaluation \/ RenameEvaluation
    BY <1>2, ClearHourlyKeeps, AddForecastKeeps, AddColumnKeeps, SetVersion4Keeps,
       ClearFactorsKeeps, CreateAccuracyKeeps, MigrateEvaluationKeeps, RenameEvaluationKeeps,
       Zenon
<1>3. CASE CreateEvaluation \/ CopyEvaluation \/ DropEvaluation
           \/ DiscardConsumer \/ RekeyWeather \/ MovePrices
    BY <1>3, CreateEvaluationKeeps, CopyEvaluationKeeps, DropEvaluationKeeps,
       DiscardConsumerKeeps, RekeyWeatherKeeps, MovePricesKeeps, Zenon
<1>4. CASE MigrateBias \/ RenameBias \/ CopyBias \/ DropBias \/ SetVersion9
           \/ AddOffset \/ ResetOffsets
    BY <1>4, MigrateBiasKeeps, RenameBiasKeeps, CopyBiasKeeps, DropBiasKeeps,
       SetVersion9Keeps, AddOffsetKeeps, ResetOffsetsKeeps, Zenon
<1>5. CASE Commit \/ Done \/ Import \/ RenameFile \/ NoImport \/ Drop
    BY <1>5, CommitKeeps, DoneKeeps, ImportKeeps, RenameFileKeeps, NoImportKeeps, DropKeeps,
       Zenon
<1> QED
    BY <1>1, <1>2, <1>3, <1>4, <1>5, Zenon DEF Step

LEMMA NextKeeps ==
    ASSUME Inv, [Next]_vars
    PROVE  Advances
<1>1. CASE Step
    BY <1>1, StepKeeps
<1>2. CASE \E t \in Current \ {"price_history"} : Store(t)
    BY <1>2, StoreKeeps
<1>3. CASE Clear \/ ClearFail \/ Stop
    BY <1>3, ClearKeeps, ClearFailKeeps, StopKeeps
<1>4. CASE UNCHANGED vars
    BY <1>4, StutterKeeps
<1> QED
    BY <1>1, <1>2, <1>3, <1>4 DEF Next

\* The invariant holds throughout every start, stop and reset of the database
\* (storage.py and the migrations).
THEOREM InvHolds == Spec => []Inv
<1>1. Inv /\ [Next]_vars => Inv'
    BY NextKeeps DEF Advances
<1> QED
    BY InitInv, <1>1, PTL DEF Spec

\* In every state the database, the transaction, the mode and the list of
\* what is left have their types, and nothing differs from the disk unless a
\* transaction is open (LearningStorage over any start, stop and reset).
THEOREM TypeCorrect == Spec => []TypeOK
<1>1. Inv => TypeOK
    BY DEF Inv
<1> QED
    BY InvHolds, <1>1, PTL

\* What the invariant says of an open database.
LEMMA OpenTables ==
    ASSUME Inv, mode = "open"
    PROVE  /\ work = disk /\ disk.version = 10
           /\ \A t \in {"predictions", "error_metrics", "spot_prices", "lead_time_accuracy"} :
                 Kind(disk, t) \in {"none", "spot"}
           /\ Kind(disk, "bias_correction") \in {"none", "raw"}
           /\ Kind(disk, "price_history") = "none"
           /\ Kind(disk, "weather_history") \in {"none", "utc"}
           /\ Kind(disk, "evaluation") \in {"none", "leads"}
           /\ Kind(disk, "meta") \in {"none", "trained", "file"}
           /\ Cols(disk, "bias_correction") = {"bucket"}
           /\ Cols(disk, "evaluation") = {"target_hours"}
           /\ {"id", "temp", "offset"} \subseteq Cols(disk, "predictions")
<1>1. work = disk /\ Legal(disk) /\ Good("end", disk, mode)
    BY QuietIs
<1>2. /\ disk.version = 10
      /\ {"id", "temp", "offset"} \subseteq Cols(disk, "predictions")
      /\ Cols(disk, "evaluation") = {"target_hours"}
      /\ \A t \in {"predictions", "error_metrics", "price_history", "meta", "weather_history",
                   "spot_prices", "bias_correction", "lead_time_accuracy"} :
            Kind(disk, t) # "absent"
    BY <1>1, EndIs
<1>3. /\ Kind(disk, "error_metrics") \notin {"hourly", "consumer"}
      /\ Kind(disk, "predictions") # "consumer" /\ Kind(disk, "lead_time_accuracy") # "consumer"
      /\ Kind(disk, "weather_history") # "local"
      /\ Kind(disk, "price_history") \in {"absent", "none"}
      /\ Cols(disk, "bias_correction") = {"bucket"}
      /\ Kind(disk, "bias_correction") \in {"absent", "none", "raw"}
    BY <1>1, <1>2 DEF Legal, VersionOK
<1>4. Kind(disk, "evaluation") \in {"none", "leads"}
    BY <1>1, <1>2 DEF Legal, KindsOK, ColumnsOK, Tables, Current
<1> QED
    BY <1>1, <1>2, <1>3, <1>4 DEF Legal, KindsOK, Learned

\* Once a database is open, every table is there in its current form and holds
\* only data of the current kind, whichever release it came from and wherever
\* an earlier start or reset was cut short (_create_schema, clear_all).
THEOREM OpenDatabaseIsCurrent == Spec => []OpenIsCurrent
<1>1. ASSUME Inv PROVE OpenIsCurrent
    <2> SUFFICES ASSUME mode = "open" PROVE OpenIsCurrent
        BY DEF OpenIsCurrent
    <2>1. work = disk /\ disk.version = 10
        BY <1>1, OpenTables
    <2>2. \A t \in Current : Kind(disk, t) \in {"none", IF t = "price_history" THEN "none"
                                                        ELSE Stores(t), "file"}
        <3>1. ASSUME NEW t \in Current \ {"price_history"}
              PROVE  Kind(disk, t) \in {"none", Stores(t), "file"}
            BY <1>1, OpenTables, StoresIs DEF Current
        <3> QED
            BY <1>1, <3>1, OpenTables
    <2>3. \A t \in {"bias_correction", "evaluation"} : Cols(disk, t) = Full(t)
        BY <1>1, OpenTables, FullIs
    <2>4. /\ {"id", "offset"} \subseteq Cols(disk, "predictions")
          /\ Full("predictions") \ Cols(disk, "predictions") \in {{}, {"cloud"}, {"wind", "cloud"}}
        <3>1. /\ {"id", "temp", "offset"} \subseteq Cols(disk, "predictions")
              /\ "cloud" \in Cols(disk, "predictions") => "wind" \in Cols(disk, "predictions")
            BY <1>1, OpenTables DEF Inv, Legal, ColumnsOK
        <3>2. Full("predictions") = {"id", "offset", "temp", "wind", "cloud"}
            BY FullIs
        <3> QED
            BY <3>1, <3>2
    <2> QED
        BY <2>1, <2>2, <2>3, <2>4 DEF OpenIsCurrent, Kind, Cols
<1> QED
    BY InvHolds, <1>1, PTL

\* What a database knows, by the kinds of its rows.
LEMMA KnownIs ==
    ASSUME NEW db
    PROVE  /\ Known(db) \subseteq Droppable \union {"weather_history"}
           /\ \A t \in {"predictions", "error_metrics", "lead_time_accuracy", "spot_prices",
                        "price_history"} : t \in Known(db) <=> Kind(db, t) = "spot"
           /\ "bias_correction" \in Known(db) <=> Kind(db, "bias_correction") = "raw"
           /\ "weather_history" \in Known(db) <=> Kind(db, "weather_history") = "utc"
           /\ "evaluation" \in Known(db) <=> Kind(db, "evaluation") = "leads"
           /\ "meta" \in Known(db) <=> Kind(db, "meta") = "trained"
           /\ \A t \in Known(db) : Kind(db, t) \in {"spot", "raw", "utc", "leads", "trained"}
<1> USE DEF Known, Kind, Current
<1>1. Known(db) \subseteq Droppable \union {"weather_history"}
    BY DEF Droppable
<1>2. \A t \in {"predictions", "error_metrics", "lead_time_accuracy", "spot_prices"} :
         t \in Known(db) <=> Kind(db, t) = "spot"
    BY StoresIs
<1>3. "price_history" \in Known(db) <=> Kind(db, "price_history") = "spot"
    OBVIOUS
<1>4. /\ "bias_correction" \in Known(db) <=> Kind(db, "bias_correction") = "raw"
      /\ "weather_history" \in Known(db) <=> Kind(db, "weather_history") = "utc"
      /\ "evaluation" \in Known(db) <=> Kind(db, "evaluation") = "leads"
      /\ "meta" \in Known(db) <=> Kind(db, "meta") = "trained"
    BY StoresIs
<1>5. ASSUME NEW t \in Known(db)
      PROVE  Kind(db, t) \in {"spot", "raw", "utc", "leads", "trained"}
    BY StoresIs
<1> QED
    BY <1>1, <1>2, <1>3, <1>4, <1>5

\* What is kept, said of what is known.
LEMMA KeepsKnown ==
    ASSUME NEW a, NEW b, Keeps(a, b)
    PROVE  /\ Known(a) \ {"price_history", "weather_history"} \subseteq Known(b)
           /\ "price_history" \in Known(a) =>
                 "price_history" \in Known(b) \/ "spot_prices" \in Known(b)
<1>1. \A t \in {"predictions", "error_metrics", "lead_time_accuracy", "spot_prices",
                "bias_correction", "evaluation", "meta"} : t \in Known(a) => t \in Known(b)
    BY KnownIs DEF Keeps
<1>2. \A t \in Known(a) \ {"price_history", "weather_history"} :
         t \in {"predictions", "error_metrics", "lead_time_accuracy", "spot_prices",
                "bias_correction", "evaluation", "meta"}
    BY KnownIs DEF Droppable
<1>3. "price_history" \in Known(a) => "price_history" \in Known(b) \/ "spot_prices" \in Known(b)
    BY KnownIs DEF Keeps
<1> QED
    BY <1>1, <1>2, <1>3

\* Data of the current kind is lost to a reset and to nothing else: not to a
\* migration, a repeated one or a stop between two of its statements; the
\* weather not even to a reset, and all else to every reset that returns.
THEOREM NothingElseForgets == Spec => OnlyAResetForgets
<1> DEFINE prices(db) == {"price_history", "spot_prices"} \intersect Known(db) # {}
           single(db) == \/ \E t \in {"evaluation", "evaluation_single"} : db.tab[t].rows = "single"
                         \/ "evaluation" \in Known(db)
           weather == "weather_history" \in Known(disk) => "weather_history" \in Known(disk')
           kept == /\ Known(disk) \subseteq Known(disk') \union {"price_history"}
                                            \union (IF file THEN {"meta"} ELSE {})
                   /\ prices(disk) => prices(disk')
                   /\ single(disk) => single(disk')
<1>1. ASSUME Inv, [Next]_vars
      PROVE  weather
    BY <1>1, NextKeeps, KnownIs DEF Advances, KeepsWeather
<1>2. ASSUME Inv, [Next]_vars, mode # "clearing", disk.version >= 6, weather
      PROVE  kept
    <2>1. CASE Keeps(disk, disk')
        <3>1. Known(disk) \subseteq Known(disk') \union {"price_history"}
            BY <1>2, <2>1, KeepsKnown
        <3>2. prices(disk) => prices(disk')
            BY <2>1, KeepsKnown
        <3>3. ASSUME NEW db
              PROVE  single(db) <=> \/ Kind(db, "evaluation") = "single"
                                    \/ Kind(db, "evaluation_single") = "single"
                                    \/ Kind(db, "evaluation") = "leads"
            BY KnownIs DEF Kind
        <3> HIDE DEF single
        <3>4. single(disk) => single(disk')
            BY <2>1, <3>3 DEF Keeps
        <3> QED
            BY <3>1, <3>2, <3>4
    <2>2. CASE Imported
        <3>1. file
            BY <2>2 DEF Imported
        <3>2. \A t \in Tables \ {"meta"} : Kind(disk', t) = Kind(disk, t)
            <4>1. disk \in DB /\ "file" \in Rows
                BY <1>2 DEF Inv, Legal, Rows
            <4> QED
                BY <2>2, <4>1, HoldIs DEF Imported
        <3>3. \A t \in Current \ {"meta"} : t \in Known(disk) => t \in Known(disk')
            BY <3>2 DEF Known, Kind, Tables
        <3>4. Known(disk) \subseteq Current
            BY DEF Known
        <3>5. /\ Known(disk) \ {"meta"} \subseteq Known(disk')
              /\ "price_history" \in Known(disk) => "price_history" \in Known(disk')
              /\ "spot_prices" \in Known(disk) => "spot_prices" \in Known(disk')
              /\ "evaluation" \in Known(disk) => "evaluation" \in Known(disk')
            BY <3>3, <3>4 DEF Current
        <3>6. \A t \in {"evaluation", "evaluation_single"} : disk'.tab[t].rows = disk.tab[t].rows
            BY <3>2 DEF Kind, Tables, Current
        <3>7. prices(disk) => prices(disk')
            BY <3>5
        <3>8. single(disk) => single(disk')
            BY <3>5, <3>6
        <3> QED
            BY <3>1, <3>5, <3>7, <3>8
    <2> QED
        BY <1>2, <2>1, <2>2, NextKeeps DEF Advances
<1>3. ASSUME Inv, [Next]_vars, mode = "clearing", mode' = "open"
      PROVE  Known(disk') \subseteq {"weather_history"}
    <2>1. \A t \in Droppable : Kind(disk', t) \in {"absent", "none"}
        BY <1>3, NextKeeps DEF Advances, Fresh
    <2> QED
        BY <2>1, KnownIs
<1>4. Inv /\ [Next]_vars =>
        [/\ mode # "clearing" /\ disk.version >= 6 =>
              /\ Known(disk) \subseteq Known(disk') \union {"price_history"}
                                       \union (IF file THEN {"meta"} ELSE {})
              /\ prices(disk) => prices(disk')
              /\ single(disk) => single(disk')
         /\ mode = "clearing" /\ mode' = "open" => Known(disk') \subseteq {"weather_history"}
         /\ "weather_history" \in Known(disk) => "weather_history" \in Known(disk')]_vars
    <2> HIDE DEF prices, single
    <2> QED
        BY <1>1, <1>2, <1>3
<1> QED
    BY InvHolds, <1>4, PTL DEF Spec, OnlyAResetForgets
=============================================================================
