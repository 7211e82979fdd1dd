----------------------------- MODULE UpdateCycle -----------------------------
(***************************************************************************)
(* A config entry's life and its update cycle: setup, unload and reload    *)
(* (__init__.py), the timed updates and the forecast runs (updater.py) and *)
(* the re-checks for tomorrow's prices (tomorrow_prices.py).               *)
(*                                                                         *)
(* All of it runs on one event loop.  A handler is a task that other tasks *)
(* interleave with only where it awaits: an action is what a task does     *)
(* between two awaits.  Unloading an entry stops its timers but not the    *)
(* tasks under way, so each setup is an entry of its own with its own      *)
(* data, and the old one's tasks may go on beside it.                      *)
(*                                                                         *)
(* A day's price list is the day it holds prices of and whether it has all *)
(* of them; the empty list is NoList.                                      *)
(***************************************************************************)
EXTENDS Integers, FiniteSets

CONSTANTS
    Sources,        \* the price sources tried: "sensors", "dayahead"
    SlotsPerDay,    \* instants of a day; the 15-minute timer fires at each
    CheckStart,     \* slot of 13:00, from which tomorrow may be published
    CheckCutoff,    \* slot of 18:00, at which the checks stop for the day
    ForecastSlots,  \* slots at which the 6-hour timer fires
    LastSlot,       \* bound: the last instant
    MaxEntries,     \* bound: how often the entry is set up
    MaxFailures     \* bound: forecast runs that raise

ASSUME SlotsAssumption ==
    /\ SlotsPerDay \in Nat \ {0} /\ LastSlot \in Nat
    /\ CheckStart \in 1..(SlotsPerDay - 1)
    /\ CheckCutoff \in CheckStart..(SlotsPerDay - 1)
    /\ ForecastSlots \subseteq 0..(SlotsPerDay - 1)
ASSUME EntriesAssumption == MaxEntries \in Nat \ {0} /\ MaxFailures \in Nat
ASSUME SourcesAssumption == Sources \subseteq {"sensors", "dayahead"}

Entries == 1..MaxEntries
Kinds == {"setup", "quarter", "day", "forecast", "check", "refresh", "backfill"}
\* Created with entry.async_create_background_task: cancelled after an unload
Background == {"refresh", "backfill"}

VARIABLES
    source,     \* the configured price source
    now,        \* the slot of the current time
    published,  \* the last day whose prices are published
    entry,      \* the entry set up last
    phase,      \* what becomes of it: its place in __init__.py
    due,        \* its timers that fire in this slot and have not fired yet
    prices,     \* each entry's price part of api_data
    task,       \* each entry's tasks: where they wait and what they hold
    pending,    \* the time of each entry's pending check, or Never
    conn,       \* whether each entry's database connection is open
    forecast,   \* the last day each entry's forecasts knew the prices of
    overtaken,  \* whether a forecast replaced one that knew more prices
    missed,     \* whether midnight found the entry in its setup
    left,       \* what each entry left behind: see Left
    failures

vars == <<source, now, published, entry, phase, due, prices, task, pending,
          conn, forecast, overtaken,
          missed, left, failures>>
world == <<source, now, published>>
forecasts == <<forecast, overtaken>>
life == <<entry, phase, due, pending, missed, left>>

\* Days are numbered from 1.
Day(t) == t \div SlotsPerDay + 1
Today == Day(now)
Days == 0..(Day(LastSlot) + 1)
NoDay == 0
Never == 0 - 1

NoList == [of |-> NoDay, full |-> FALSE]
List(d, full) == [of |-> d, full |-> full]
Lists == {NoList} \union [of : Days \ {NoDay}, full : BOOLEAN]
NoPrices == [day |-> NoDay, today |-> NoList, tomorrow |-> NoList]
Readings == [day : Days, today : Lists, tomorrow : Lists]
NoData == [shown |-> NoPrices, spot |-> NoPrices, available |-> FALSE]
Idle == [pc |-> "idle"]
-----------------------------------------------------------------------------
(* Reading the prices *)

\* What a source may give of a day: nothing (unavailable, or rejected as
\* invalid), some of its slots or all of them.  A list of today counts as full.
Given(d, fulls) == {NoList} \union {List(d, full) : full \in
                                      IF d <= published THEN fulls ELSE {}}
Read(d, fulls) == [day : {d}, today : Given(d, {TRUE}), tomorrow : Given(d + 1, fulls)]

\* carry_over_day_prices: a slot keeps its price when the new read lacks it.
Kept(old, d) == IF d = old.day THEN old.today
                ELSE IF d = old.day + 1 THEN old.tomorrow ELSE NoList
Merged(new, old) == IF new = NoList THEN old
                    ELSE List(new.of, new.full \/ old.full)
\* Mutant: tomorrow's prices are not kept when the read lacks them.
CarryTodayOnly(old, read) ==
    [day |-> read.day, today |-> Merged(read.today, Kept(old, read.day)),
     tomorrow |-> read.tomorrow]
CarryOver(old, read) ==
    [day |-> read.day,
     today |-> Merged(read.today, Kept(old, read.day)),
     tomorrow |-> Merged(read.tomorrow, Kept(old, read.day + 1))]

\* Mutant: the model's prices are kept too, whatever day they are of.
SensorReadKeepsSpot(p, shown, spot) ==
    [p EXCEPT !.shown = IF shown.today = NoList /\ @ = NoPrices THEN @
                        ELSE CarryOver(@, shown),
              !.spot = IF spot.today = NoList THEN @ ELSE spot]
\* read_consumer_prices and read_spot_prices: the displayed prices are merged
\* into the previous ones, the model's are what the spot sensors say now.
SensorRead(p, shown, spot) ==
    [p EXCEPT !.shown = IF shown.today = NoList /\ @ = NoPrices THEN @
                        ELSE CarryOver(@, shown),
              !.spot = spot]

\* async_read_prices, day-ahead: nothing is stored without today's prices.
DayAheadRead(p, read) ==
    IF read.today = NoList THEN p ELSE [p EXCEPT !.shown = read, !.spot = read]

\* update_tomorrow_available
Arrived(p) == p.shown.tomorrow.full /\ ~p.available
Available(p) == [p EXCEPT !.available = p.shown.tomorrow.full]

\* Where ml_price_inputs says the known prices end, as a day
KnownTo(p) == IF p.spot.today = NoList THEN NoDay
              ELSE IF p.spot.tomorrow.full THEN p.spot.day + 1 ELSE p.spot.day

\* Mutant: the next check is always today's.
NextCheckToday(complete) ==
    IF ~complete /\ now % SlotsPerDay \in CheckStart..(CheckCutoff - 1) THEN now + 1
    ELSE (Today - 1) * SlotsPerDay + CheckStart
\* next_tomorrow_check
NextCheck(complete) ==
    LET start(d) == (d - 1) * SlotsPerDay + CheckStart IN
    IF ~complete /\ now < start(Today) THEN start(Today)
    ELSE IF ~complete /\ now % SlotsPerDay < CheckCutoff THEN now + 1
    ELSE start(Today + 1)
-----------------------------------------------------------------------------
TaskStates ==
    {Idle} \union [pc : {"load", "start", "weather", "prune", "fetch"}]
           \union [pc : {"read"}, day : Days]
           \union [pc : {"snapshot"}, list : Lists, arrived : BOOLEAN, ok : BOOLEAN]
           \union [pc : {"learn"}, day : Days, of : Days, ok : BOOLEAN, arrived : BOOLEAN]
           \union [pc : {"predict"}, knownTo : Days]
At(pc) == [pc |-> pc]
Reading == [pc |-> "read", day |-> Today]
Snapshot(list, arrived, ok) ==
    [pc |-> "snapshot", list |-> list, arrived |-> arrived, ok |-> ok]

\* The entry e is no longer the one Home Assistant runs.
Gone(e) == e < entry \/ (e = entry /\ phase \in {"closing", "closed", "gone"})

\* What was under way when an entry was unloaded: nothing, some task, or a
\* check among them.  A failed setup counts as a task.
Left == {"nothing", "tasks", "check"}

TypeOK ==
    /\ source \in Sources
    /\ now \in 0..LastSlot
    /\ published \in Days
    /\ entry \in Entries
    /\ phase \in {"setup", "loaded", "closing", "closed", "gone"}
    /\ due \subseteq {"quarter", "day", "forecast"}
    /\ prices \in [Entries -> [shown : Readings, spot : Readings, available : BOOLEAN]]
    /\ task \in [Entries -> [Kinds -> TaskStates]]
    /\ pending \in [Entries -> Nat \union {Never}]
    /\ \A e \in Entries : pending[e] = Never \/ pending[e] >= now
    /\ conn \in [Entries -> BOOLEAN]
    /\ forecast \in [Entries -> Days]
    /\ overtaken \in [Entries -> BOOLEAN]
    /\ missed \in [Entries -> BOOLEAN]
    /\ left \in [Entries -> Left]
    /\ failures \in Nat

Init ==
    /\ source \in Sources
    /\ now = 0
    /\ published = 1
    /\ entry = 1
    /\ phase = "setup"
    /\ due = {}
    /\ prices = [e \in Entries |-> NoData]
    /\ task = [e \in Entries |->
                 [k \in Kinds |-> IF e = 1 /\ k = "setup" THEN At("load") ELSE Idle]]
    /\ pending = [e \in Entries |-> Never]
    /\ conn = [e \in Entries |-> FALSE]
    /\ forecast = [e \in Entries |-> NoDay]
    /\ overtaken = [e \in Entries |-> FALSE]
    /\ missed = [e \in Entries |-> FALSE]
    /\ left = [e \in Entries |-> "nothing"]
    /\ failures = 0
-----------------------------------------------------------------------------
(* The tasks of the entry e *)

Goes(e, k, state) == task' = [task EXCEPT ![e][k] = state]
\* Mutant: the arrival of tomorrow's prices refreshes nothing.
GoesOnly(e, k, state, arrived) == Goes(e, k, state)
\* The task k goes on; it or a listener starts the forecast refresh.
GoesAndRefreshes(e, k, state, arrived) ==
    task' = [task EXCEPT ![e][k] = state,
                         ![e]["refresh"] = IF arrived THEN At("start") ELSE @]
Schedule(e, complete) == pending' = [pending EXCEPT ![e] = NextCheck(complete)]
UsesDatabase(e) == conn' = [conn EXCEPT ![e] = TRUE]

\* Mutant: a check that finds tomorrow complete schedules no other.
WithPricesStopsChecks(e, k, p, ok) ==
    LET q == IF k = "day" THEN [p EXCEPT !.available = FALSE] ELSE Available(p) IN
    /\ prices' = [prices EXCEPT ![e] = q]
    /\ CASE k = "quarter" ->
              Goes(e, k, Snapshot(p.spot.today, Arrived(p), ok)) /\ UNCHANGED pending
         [] k = "day" -> Goes(e, k, At("prune")) /\ UNCHANGED pending
         [] k = "check" -> /\ GoesAndRefreshes(e, k, Idle, Arrived(p))
                           /\ IF q.available THEN UNCHANGED pending
                              ELSE Schedule(e, FALSE)
         [] OTHER -> Goes(e, k, At("weather")) /\ UNCHANGED pending

\* What each handler does once the prices are read, up to its next await: p is
\* the entry's data as the read left it, ok whether today's prices were read.
WithPrices(e, k, p, ok) ==
    LET q == IF k = "day" THEN [p EXCEPT !.available = FALSE] ELSE Available(p) IN
    /\ prices' = [prices EXCEPT ![e] = q]
    /\ CASE k = "quarter" ->
              Goes(e, k, Snapshot(p.spot.today, Arrived(p), ok)) /\ UNCHANGED pending
         [] k = "day" -> Goes(e, k, At("prune")) /\ UNCHANGED pending
         [] k = "check" -> /\ GoesAndRefreshes(e, k, Idle, Arrived(p))
                           /\ Schedule(e, q.available)
         [] OTHER -> Goes(e, k, At("weather")) /\ UNCHANGED pending

\* Mutant: new_day leaves the list of tomorrow in place while it reads.
BeginUnrotated(e, k, checks) ==
    \/ /\ source = "sensors"
       /\ \E shown \in Read(Today, BOOLEAN), spot \in Read(Today, {TRUE}) :
             WithPrices(e, k, SensorRead(prices[e], shown, spot), TRUE)
    \/ /\ source = "dayahead"
       /\ Goes(e, k, Reading)
       /\ UNCHANGED prices
       /\ pending' = checks

\* A handler's start: sensors are read at once, the day-ahead source awaits.
\* new_day has emptied the displayed list of tomorrow before it reads.
Begin(e, k, checks) ==
    \/ /\ source = "sensors"
       /\ \E shown \in Read(Today, BOOLEAN), spot \in Read(Today, {TRUE}) :
             WithPrices(e, k, SensorRead(prices[e], shown, spot), TRUE)
    \/ /\ source = "dayahead"
       /\ Goes(e, k, Reading)
       /\ prices' = IF k = "day" THEN [prices EXCEPT ![e].shown.tomorrow = NoList]
                                 ELSE prices
       /\ pending' = checks

\* Rows once stored stay (TimeSeriesSource), so a read that succeeds has no
\* less of tomorrow than the one before.
ReadEnds(e, k) ==
    /\ task[e][k].pc = "read"
    /\ \E read \in Read(task[e][k].day, BOOLEAN) :
          /\ read.day = prices[e].spot.day =>
                Merged(read.tomorrow, prices[e].spot.tomorrow) = read.tomorrow
          /\ WithPrices(e, k, DayAheadRead(prices[e], read), read.today # NoList)
    /\ UsesDatabase(e)
    /\ UNCHANGED <<world, entry, phase, due, missed, left, forecasts, failures>>

\* run_forecast has refreshed its inputs and takes the known prices ...
WeatherEnds(e, k) ==
    /\ task[e][k].pc = "weather"
    /\ Goes(e, k, [pc |-> "predict", knownTo |-> KnownTo(prices[e])])
    /\ UsesDatabase(e)
    /\ UNCHANGED <<world, life, prices, forecasts, failures>>

\* ... and the prediction made from them becomes the entry's.
PredictEnds(e, k) ==
    /\ task[e][k].pc = "predict"
    /\ k # "setup"
    /\ forecast' = [forecast EXCEPT ![e] = task[e][k].knownTo]
    /\ overtaken' = [overtaken EXCEPT ![e] = @ \/ task[e][k].knownTo < forecast[e]]
    /\ Goes(e, k, Idle)
    /\ UsesDatabase(e)
    /\ UNCHANGED <<world, life, prices, failures>>

ForecastRaises(e, k) ==
    /\ task[e][k].pc \in {"weather", "predict"}
    /\ k # "setup"
    /\ failures < MaxFailures
    /\ failures' = failures + 1
    /\ Goes(e, k, Idle)
    /\ UsesDatabase(e)
    /\ UNCHANGED <<world, life, prices, forecasts>>

\* The weather is stored; the current slot is learned from, at the price the
\* list read before has for it, unless that is missing.
SnapshotEnds(e) ==
    LET t == task[e]["quarter"] IN
    /\ t.pc = "snapshot"
    /\ \/ /\ t.list # NoList
          /\ Goes(e, "quarter", [pc |-> "learn", day |-> Today, of |-> t.list.of,
                                 ok |-> t.ok, arrived |-> t.arrived])
       \/ /\ t.list = NoList
          /\ GoesAndRefreshes(e, "quarter", Idle, t.arrived)
    /\ UsesDatabase(e)
    /\ UNCHANGED <<world, life, prices, forecasts, failures>>

LearnEnds(e) ==
    LET t == task[e]["quarter"] IN
    /\ t.pc = "learn"
    /\ GoesAndRefreshes(e, "quarter", Idle, t.arrived)
    /\ UsesDatabase(e)
    /\ UNCHANGED <<world, life, prices, forecasts, failures>>

\* new_day has pruned the history and starts the backfill.
PruneEnds(e) ==
    /\ task[e]["day"].pc = "prune"
    /\ task' = [task EXCEPT ![e]["day"] = Idle, ![e]["backfill"] = At("fetch")]
    /\ UsesDatabase(e)
    /\ UNCHANGED <<world, life, prices, forecasts, failures>>

\* backfill_history refreshes the forecast if it changed anything.
BackfillEnds(e) ==
    /\ task[e]["backfill"].pc = "fetch"
    /\ \/ Goes(e, "backfill", Idle) /\ UNCHANGED <<prices, pending>>
       \/ Begin(e, "backfill", pending)
    /\ UsesDatabase(e)
    /\ UNCHANGED <<world, entry, phase, due, missed, left, forecasts, failures>>

RefreshStarts(e) ==
    /\ task[e]["refresh"].pc = "start"
    /\ Begin(e, "refresh", pending)
    /\ UNCHANGED <<world, entry, phase, due, missed, left, conn, forecasts, failures>>

\* A step a task takes when what it awaits is done
Step(e, k) ==
    \/ ReadEnds(e, k) \/ WeatherEnds(e, k) \/ PredictEnds(e, k)
    \/ k = "quarter" /\ (SnapshotEnds(e) \/ LearnEnds(e))
    \/ k = "day" /\ PruneEnds(e)
    \/ k = "backfill" /\ BackfillEnds(e)
    \/ k = "refresh" /\ RefreshStarts(e)
-----------------------------------------------------------------------------
(* Timers *)

Fire(k) ==
    /\ k \in due
    /\ due' = due \ {k}
    /\ IF k = "forecast"
         THEN Goes(entry, k, At("weather")) /\ UNCHANGED <<prices, pending>>
         ELSE Begin(entry, k, pending)
    /\ UNCHANGED <<world, entry, phase, missed, left, conn, forecasts, failures>>

\* The pending check runs: nothing is pending until it schedules the next.
CheckFires(e) ==
    /\ pending[e] = now
    /\ Begin(e, "check", [pending EXCEPT ![e] = Never])
    /\ UNCHANGED <<world, entry, phase, due, missed, left, conn, forecasts, failures>>

Publish ==
    /\ published <= Today
    /\ now % SlotsPerDay >= CheckStart
    /\ published' = Today + 1
    /\ UNCHANGED <<source, now, life, prices, task, conn, forecasts, failures>>

\* Bounds on how slow a task is: what a timer started reads its prices, and
\* new_quarter ends, before the next instant; a task ends before the timer
\* that starts it fires again, and a forecast run before midnight.  Only a
\* setup may take longer.
Settled(e) ==
    /\ task[e]["quarter"] = Idle
    /\ \A k \in Kinds \ {"setup"} : task[e][k].pc \notin {"start", "read"}
    /\ (now + 1) % SlotsPerDay \in ForecastSlots => task[e]["forecast"] = Idle
    /\ (now + 1) % SlotsPerDay = 0 =>
          \A k \in Kinds \ {"setup", "check"} : task[e][k] = Idle

Tick ==
    /\ now < LastSlot
    /\ due = {}
    /\ \A e \in Entries : pending[e] # now /\ Settled(e)
    /\ now' = now + 1
    /\ due' = IF phase # "loaded" THEN {}
              ELSE {"quarter"}
                   \union (IF now' % SlotsPerDay = 0 THEN {"day"} ELSE {})
                   \union (IF now' % SlotsPerDay \in ForecastSlots THEN {"forecast"} ELSE {})
    /\ missed' = [missed EXCEPT ![entry] =
                     @ \/ (phase = "setup" /\ now' % SlotsPerDay = 0)]
    /\ UNCHANGED <<source, published, entry, phase, pending, left, prices, task,
                   conn, forecasts, failures>>
-----------------------------------------------------------------------------
(* The entry's life *)

\* The learning data is loaded; the initial fetch begins with the prices.
SetupLoads ==
    /\ task[entry]["setup"].pc = "load"
    /\ Begin(entry, "setup", pending)
    /\ UsesDatabase(entry)
    /\ UNCHANGED <<world, entry, phase, due, missed, left, forecasts, failures>>

\* The initial fetch ends: the timers are registered, the first check is
\* scheduled and the backfill is started.
SetupEnds ==
    LET t == task[entry]["setup"] IN
    /\ t.pc = "predict"
    /\ forecast' = [forecast EXCEPT ![entry] = t.knownTo]
    /\ task' = [task EXCEPT ![entry]["setup"] = Idle,
                            ![entry]["backfill"] = At("fetch")]
    /\ Schedule(entry, prices[entry].available)
    /\ phase' = "loaded"
    /\ UsesDatabase(entry)
    /\ UNCHANGED <<world, entry, due, overtaken, missed, left, prices, failures>>

\* ConfigEntryNotReady: Home Assistant sets the entry up again later.  The
\* connection stays open.
SetupFails ==
    /\ task[entry]["setup"].pc \in {"weather", "predict"}
    /\ failures < MaxFailures
    /\ failures' = failures + 1
    /\ Goes(entry, "setup", Idle)
    /\ left' = [left EXCEPT ![entry] = "tasks"]
    /\ phase' = "gone"
    /\ UNCHANGED <<world, entry, due, pending, missed, prices, conn, forecasts>>

\* Mutant: the pending check is not among the cancelled listeners.
UnloadKeepsCheck ==
    /\ phase = "loaded"
    /\ phase' = "closing"
    /\ due' = {}
    /\ left' = [left EXCEPT ![entry] =
                   IF task[entry]["check"] # Idle THEN "check"
                   ELSE IF \E k \in Kinds : task[entry][k] # Idle THEN "tasks"
                   ELSE "nothing"]
    /\ UNCHANGED <<world, entry, pending, missed, prices, task, conn, forecasts,
                   failures>>

\* async_unload_entry: the data is dropped and the listeners are cancelled ...
Unload ==
    /\ phase = "loaded"
    /\ phase' = "closing"
    /\ due' = {}
    /\ pending' = [pending EXCEPT ![entry] = Never]
    /\ left' = [left EXCEPT ![entry] =
                   IF task[entry]["check"] # Idle THEN "check"
                   ELSE IF \E k \in Kinds : task[entry][k] # Idle THEN "tasks"
                   ELSE "nothing"]
    /\ UNCHANGED <<world, entry, missed, prices, task, conn, forecasts, failures>>

\* Mutant: the connection is left to the garbage collector.
CloseNothing ==
    /\ phase = "closing"
    /\ phase' = "closed"
    /\ UNCHANGED <<world, entry, due, pending, missed, left, prices, task, conn,
                   forecasts, failures>>

\* ... the connection is closed ...
Close ==
    /\ phase = "closing"
    /\ phase' = "closed"
    /\ conn' = [conn EXCEPT ![entry] = FALSE]
    /\ UNCHANGED <<world, entry, due, pending, missed, left, prices, task, forecasts, failures>>

\* ... and Home Assistant cancels the entry's background tasks.
CancelBackground ==
    /\ phase = "closed"
    /\ phase' = "gone"
    /\ task' = [e \in Entries |-> [k \in Kinds |->
                  IF k \in Background THEN Idle ELSE task[e][k]]]
    /\ UNCHANGED <<world, entry, due, pending, missed, left, prices, conn, forecasts, failures>>

\* Bound: an entry is set up again only when the old one's tasks have ended
\* and it has no check pending; nothing refers to its data any more.
SetUpAgain ==
    /\ phase = "gone"
    /\ entry < MaxEntries
    /\ \A k \in Kinds : task[entry][k] = Idle
    /\ pending[entry] = Never
    /\ entry' = entry + 1
    /\ phase' = "setup"
    /\ Goes(entry', "setup", At("load"))
    /\ prices' = [prices EXCEPT ![entry] = NoData]
    /\ forecast' = [forecast EXCEPT ![entry] = NoDay]
    /\ UNCHANGED <<world, overtaken, due, pending, missed, left, conn, failures>>
-----------------------------------------------------------------------------
Next ==
    \/ \E e \in Entries, k \in Kinds : Step(e, k) \/ ForecastRaises(e, k)
    \/ \E k \in Kinds : Fire(k)
    \/ \E e \in Entries : CheckFires(e)
    \/ Publish \/ Tick
    \/ SetupLoads \/ SetupEnds \/ SetupFails
    \/ Unload \/ Close \/ CancelBackground \/ SetUpAgain

Spec == Init /\ [][Next]_vars

\* A task goes on when what it awaits is done, and whatever it awaits ends:
\* the requests have timeouts, and the executor jobs finish.
TaskStep == (\E e \in Entries, k \in Kinds : Step(e, k)) \/ (\E k \in Kinds : Fire(k))
FairSpec == Spec /\ WF_vars(TaskStep)
-----------------------------------------------------------------------------
(* Properties *)

\* A loaded entry has one check pending or under way, never both and never
\* none, whatever a check finds: polling resumes every day.
OneCheck ==
    phase = "loaded" => (pending[entry] = Never) = (task[entry]["check"] # Idle)

\* What an unloaded entry goes on with, it had under way when it was unloaded:
\* it starts a check only because one was (the check schedules the next after
\* the cancel), and has its connection open again only because some task was,
\* or because its setup failed, which closes nothing.
OnlyWorkUnderWaySurvives ==
    \A e \in Entries : Gone(e) =>
        /\ pending[e] # Never \/ task[e]["check"] # Idle => left[e] = "check"
        /\ conn[e] /\ (e = entry => phase # "closing") => left[e] # "nothing"

\* Whatever order new_day, new_quarter and the reads they wait for take at
\* midnight: once they have read, the list shown for tomorrow is tomorrow's,
\* and it counts as available if it is complete.  The exception is an entry
\* that midnight found in its setup, whose new_day never ran.
TomorrowIsTomorrows ==
    (/\ phase = "loaded" /\ due = {}
     /\ \A k \in Kinds : task[entry][k].pc # "read")
        => \/ LET p == prices[entry] IN
                 /\ p.shown.tomorrow.of \in {NoDay, Today + 1}
                 /\ p.available = p.shown.tomorrow.full
           \/ missed[entry]

\* Tomorrow's prices arrive once a day: however the sensors flicker and
\* whatever handlers overlap, an entry that had them complete takes them to be
\* incomplete again only after midnight (each arrival refreshes the forecast).
ArrivesOnce ==
    [][prices[entry].available /\ ~prices'[entry].available
           => prices[entry].shown.day < Today \/ phase = "gone"]_vars

\* What new_quarter is learning from: a slot of the day .day at a price of .of
Learning == {task[e]["quarter"] : e \in {e \in Entries : task[e]["quarter"].pc = "learn"}}

\* The price a slot is learned from is that slot's own price, unless the
\* day-ahead read before it failed and kept the list of another day.
OnlyAFailedReadMislearns ==
    \A l \in Learning : l.of # l.day => source = "dayahead" /\ ~l.ok

\* "The lookup date must be today's: it is paired with today's price."
LearnedIsTheSlots == \A l \in Learning : l.of = l.day

\* Once tomorrow's prices are complete, a forecast is made from them while they
\* are still tomorrow's, whichever handler found them; unless a run that took
\* the prices earlier got the predict lock later and replaced it.
TomorrowKnown ==
    /\ source = "dayahead" /\ phase = "loaded"
    /\ prices[entry].available /\ prices[entry].shown.day = Today
ArrivalIsForecast ==
    TomorrowKnown ~> (\/ forecast[entry] = Today + 1 \/ overtaken[entry]
                      \/ failures > 0 \/ ~TomorrowKnown)
=============================================================================
