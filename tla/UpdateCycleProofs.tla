-------------------------- MODULE UpdateCycleProofs --------------------------
(***************************************************************************)
(* Proofs about UpdateCycle, for any number of entries, failures and days, *)
(* and any hours of the checks and the forecasts.                          *)
(***************************************************************************)
EXTENDS UpdateCycle, TLAPS

Data == [shown : Readings, spot : Readings, available : BOOLEAN]
Tasks == [Entries -> [Kinds -> TaskStates]]
Pendings == {f \in [Entries -> Nat \union {Never}] :
                \A e \in Entries : f[e] = Never \/ f[e] >= now}

\* The model's list of tomorrow is of the day after the read.
Dated(p) == p.spot.tomorrow.full => p.spot.tomorrow.of = p.spot.day + 1

\* A task reads only the day-ahead source, of a day there is.
ReadsOfADay == \A e \in Entries, k \in Kinds :
    task[e][k].pc = "read" => source = "dayahead" /\ task[e][k].day # NoDay

Typed == TypeOK /\ ReadsOfADay /\ \A e \in Entries : Dated(prices[e])

\* What new_quarter holds is of today, unless a day-ahead read failed.
Held(t) ==
    LET failed == source = "dayahead" /\ ~t.ok IN
    /\ t.pc = "read" => t.day = Today
    /\ t.pc = "snapshot" => t.list = NoList \/ t.list.of = Today \/ failed
    /\ t.pc = "learn" => t.day = Today /\ (t.of = Today \/ failed)
QuarterHolds == \A e \in Entries : Held(task[e]["quarter"])

\* Only the entry set up last has tasks and a pending check, and its setup
\* task only before it is loaded; a check is idle or reads.
OthersRest == \A e \in Entries \ {entry} :
    pending[e] = Never /\ \A k \in Kinds : task[e][k] = Idle
SetupComesFirst ==
    /\ phase = "setup" => pending[entry] = Never /\ task[entry]["check"] = Idle
    /\ phase # "setup" => task[entry]["setup"] = Idle
    /\ phase # "loaded" => due = {}
ChecksOnlyRead == \A e \in Entries : task[e]["check"].pc \in {"idle", "read"}

\* What an unloaded entry had under way bounds what it still does.
NothingRests == \A e \in Entries : Gone(e) =>
    /\ left[e] = "nothing" => \A k \in Kinds : task[e][k] = Idle
    /\ left[e] # "check" => pending[e] = Never /\ task[e]["check"] = Idle
    /\ conn[e] /\ (e = entry => phase # "closing") => left[e] # "nothing"

\* The inductive invariant.
Life == OthersRest /\ SetupComesFirst /\ ChecksOnlyRead /\ OneCheck /\ NothingRests
Inv == Typed /\ QuarterHolds /\ Life
-----------------------------------------------------------------------------
(* Days and lists *)

LEMMA DivMod == ASSUME NEW a \in Nat, NEW n \in Nat \ {0}
                PROVE  a \div n \in Nat /\ a % n \in 0..(n - 1)
    OBVIOUS

LEMMA DivMonotone == ASSUME NEW a \in Nat, NEW b \in Nat, NEW n \in Nat \ {0}, a <= b
                     PROVE  a \div n <= b \div n
    OBVIOUS

LEMMA NextDayIsLater == ASSUME NEW a \in Nat, NEW n \in Nat \ {0}, NEW c \in Nat
                        PROVE  (a \div n + 1) * n + c > a
    OBVIOUS

\* Today and tomorrow are days.
LEMMA TodayIsADay ==
    ASSUME now \in 0..LastSlot
    PROVE  Today \in Days \ {NoDay} /\ Today + 1 \in Days \ {NoDay} /\ Days \subseteq Nat
<1>1. now \div SlotsPerDay \in Nat /\ LastSlot \div SlotsPerDay \in Nat
    BY SlotsAssumption, DivMod
<1>2. now \div SlotsPerDay <= LastSlot \div SlotsPerDay
    BY SlotsAssumption, DivMonotone
<1> QED
    BY <1>1, <1>2 DEF Today, Day, Days, NoDay

\* The next check is later.
LEMMA NextCheckIsLater ==
    ASSUME now \in 0..LastSlot, NEW complete \in BOOLEAN
    PROVE  NextCheck(complete) \in Nat /\ NextCheck(complete) > now
<1> DEFINE start(d) == (d - 1) * SlotsPerDay + CheckStart
<1>1. now \div SlotsPerDay \in Nat /\ now \in Nat /\ CheckStart \in Nat
    BY SlotsAssumption, DivMod
<1>2. start(Today) \in Nat /\ start(Today + 1) \in Nat
    BY <1>1, SlotsAssumption DEF Today, Day
<1>3. start(Today + 1) > now
    BY <1>1, SlotsAssumption, NextDayIsLater DEF Today, Day
<1> HIDE DEF start
<1>4. NextCheck(complete) \in {start(Today), now + 1, start(Today + 1)}
    BY DEF NextCheck, start
<1>5. NextCheck(complete) = start(Today) => start(Today) > now \/ NextCheck(complete) = now + 1
                                            \/ NextCheck(complete) = start(Today + 1)
    BY <1>1, <1>2 DEF NextCheck, start
<1> QED
    BY <1>1, <1>2, <1>3, <1>4, <1>5

LEMMA DaysAreNumbers == Day(LastSlot) \in Nat /\ Days \subseteq Nat
    BY SlotsAssumption, DivMod DEF Days, Day

\* Lists put together are lists.
LEMMA MergedIsAList == ASSUME NEW a \in Lists, NEW b \in Lists PROVE Merged(a, b) \in Lists
    BY DEF Merged, Lists, List, NoList

LEMMA CarriedIsAReading ==
    ASSUME NEW old \in Readings, NEW read \in Readings
    PROVE  CarryOver(old, read) \in Readings
<1>1. \A d : Kept(old, d) \in Lists
    BY DEF Kept, Readings, Lists
<1>2. read.today \in Lists /\ read.tomorrow \in Lists /\ read.day \in Days
    BY DEF Readings
<1>3. /\ Merged(read.today, Kept(old, read.day)) \in Lists
      /\ Merged(read.tomorrow, Kept(old, read.day + 1)) \in Lists
    BY <1>1, <1>2, MergedIsAList
<1> QED
    BY <1>2, <1>3 DEF CarryOver, Readings

\* What a source gives of a day is a list of that day.
LEMMA GivenIsAList ==
    ASSUME published \in Days, NEW d \in Nat \ {0}, NEW fulls \in SUBSET BOOLEAN,
           NEW x \in Given(d, fulls)
    PROVE  x \in Lists /\ (x = NoList \/ x.of = d)
<1>1. CASE x = NoList
    BY <1>1 DEF Lists
<1>2. CASE x # NoList
    <2>1. PICK full \in (IF d <= published THEN fulls ELSE {}) : x = List(d, full)
        BY <1>2 DEF Given
    <2>2. d <= published /\ full \in BOOLEAN
        BY <2>1
    <2>3. d \in Days \ {NoDay}
        BY <2>2, DaysAreNumbers DEF Days, NoDay
    <2> QED
        BY <2>1, <2>2, <2>3 DEF List, Lists
<1> QED
    BY <1>1, <1>2

LEMMA ReadIsAReading ==
    ASSUME published \in Days, NEW d \in Days \ {NoDay}, NEW fulls \in SUBSET BOOLEAN,
           NEW read \in Read(d, fulls)
    PROVE  /\ read \in Readings /\ read.day = d
           /\ read.today = NoList \/ read.today.of = d
           /\ read.tomorrow = NoList \/ read.tomorrow.of = d + 1
<1>1. read.day = d /\ read.today \in Given(d, {TRUE}) /\ read.tomorrow \in Given(d + 1, fulls)
      /\ read = [day |-> read.day, today |-> read.today, tomorrow |-> read.tomorrow]
    BY DEF Read
<1>2. d \in Nat \ {0} /\ d + 1 \in Nat \ {0}
    BY DaysAreNumbers DEF Days, NoDay
<1>3. /\ read.today \in Lists /\ (read.today = NoList \/ read.today.of = d)
      /\ read.tomorrow \in Lists /\ (read.tomorrow = NoList \/ read.tomorrow.of = d + 1)
    BY <1>1, <1>2, GivenIsAList
<1> QED
    BY <1>1, <1>3 DEF Readings

\* What the reads leave of an entry's data.
LEMMA SensorReadIsData ==
    ASSUME TypeOK, NEW p \in Data, NEW shown \in Read(Today, BOOLEAN),
           NEW spot \in Read(Today, {TRUE})
    PROVE  LET q == SensorRead(p, shown, spot) IN
           q \in Data /\ Dated(q) /\ (q.spot.today = NoList \/ q.spot.today.of = Today)
<1> DEFINE q == SensorRead(p, shown, spot)
<1>1. /\ shown \in Readings /\ spot \in Readings /\ spot.day = Today
      /\ spot.today = NoList \/ spot.today.of = Today
      /\ spot.tomorrow = NoList \/ spot.tomorrow.of = Today + 1
    BY TodayIsADay, ReadIsAReading DEF TypeOK
<1>2. CarryOver(p.shown, shown) \in Readings
    BY <1>1, CarriedIsAReading DEF Data
<1>3. q.spot = spot /\ q \in Data
    BY <1>1, <1>2 DEF SensorRead, Data
<1> QED
    BY <1>1, <1>3 DEF Dated, NoList

LEMMA DayAheadReadIsData ==
    ASSUME TypeOK, NEW p \in Data, Dated(p), NEW d \in Days \ {NoDay}, NEW read \in Read(d, BOOLEAN)
    PROVE  LET q == DayAheadRead(p, read) IN
           /\ q \in Data /\ Dated(q)
           /\ read.today # NoList => q.spot.today.of = d
<1>1. /\ read \in Readings /\ read.day = d
      /\ read.today = NoList \/ read.today.of = d
      /\ read.tomorrow = NoList \/ read.tomorrow.of = d + 1
    BY ReadIsAReading DEF TypeOK
<1>2. CASE read.today = NoList
    BY <1>2 DEF DayAheadRead
<1>3. CASE read.today # NoList
    <2> DEFINE q == DayAheadRead(p, read)
    <2>1. q.spot = read /\ q \in Data
        BY <1>1, <1>3 DEF DayAheadRead, Data
    <2> QED
        BY <1>1, <1>3, <2>1 DEF Dated, NoList
<1> QED
    BY <1>2, <1>3

\* Where the known prices end is a day.
LEMMA KnownToIsADay == ASSUME NEW p \in Data, Dated(p) PROVE KnownTo(p) \in Days
<1>1. NoDay \in Days
    BY DaysAreNumbers DEF Days, NoDay
<1>2. NoList.of \in Days /\ \A l \in Lists : l.of \in Days
    BY <1>1 DEF Lists, NoList
<1>3. p.spot.day \in Days /\ p.spot.tomorrow.of \in Days
    BY <1>2 DEF Data, Readings
<1> QED
    BY <1>1, <1>3 DEF KnownTo, Dated
-----------------------------------------------------------------------------
(* The handlers.  What one may change: its own task and the refresh or the  *)
(* backfill it starts, its entry's prices and pending check.                *)

Handled(e, k) ==
    /\ prices' \in [Entries -> Data] /\ \A i \in Entries : Dated(prices'[i])
    /\ task' \in Tasks /\ pending' \in Pendings
    /\ \A i \in Entries, j \in Kinds :
          i # e \/ j \notin {k, "refresh", "backfill"} => task'[i][j] = task[i][j]
    /\ \A i \in Entries : i # e \/ k # "check" => pending'[i] = pending[i]
    /\ \A j \in Kinds : task'[e][j].pc = "read" =>
          \/ task'[e][j] = task[e][j]
          \/ j = k /\ task'[e][j] = Reading /\ source = "dayahead"
    /\ k = "check" => \/ task'[e][k] = Idle /\ pending'[e] # Never
                      \/ task'[e][k] = Reading /\ pending'[e] = Never
    /\ k = "quarter" => Held(task'[e][k])

\* The states a task may go on to.
LEMMA TaskStatesHold ==
    /\ Idle \in TaskStates
    /\ \A pc \in {"load", "start", "weather", "prune", "fetch"} : At(pc) \in TaskStates
    /\ \A d \in Days : [pc |-> "read", day |-> d] \in TaskStates
    /\ \A d \in Days : [pc |-> "predict", knownTo |-> d] \in TaskStates
    /\ \A l \in Lists, a, ok \in BOOLEAN : Snapshot(l, a, ok) \in TaskStates
    /\ \A d, o \in Days, a, ok \in BOOLEAN :
          [pc |-> "learn", day |-> d, of |-> o, ok |-> ok, arrived |-> a] \in TaskStates
    BY DEF TaskStates, At, Snapshot

LEMMA WithPricesHandles ==
    ASSUME Typed, NEW e \in Entries, NEW k \in Kinds, NEW p \in Data, Dated(p), NEW ok \in BOOLEAN,
           k = "quarter" =>
              p.spot.today = NoList \/ p.spot.today.of = Today \/ (source = "dayahead" /\ ~ok),
           WithPrices(e, k, p, ok)
    PROVE  Handled(e, k)
<1> DEFINE q == IF k = "day" THEN [p EXCEPT !.available = FALSE] ELSE Available(p)
<1>0. p.shown.tomorrow.full \in BOOLEAN /\ p.available \in BOOLEAN
    <2>1. p.shown.tomorrow \in Lists /\ p.available \in BOOLEAN
        BY DEF Data, Readings
    <2>2. CASE p.shown.tomorrow = NoList
        BY <2>1, <2>2 DEF NoList
    <2>3. CASE p.shown.tomorrow \in [of : Days \ {NoDay}, full : BOOLEAN]
        BY <2>1, <2>3
    <2> QED
        BY <2>1, <2>2, <2>3 DEF Lists
<1>1. q \in Data /\ Dated(q)
    <2>1. \A b \in BOOLEAN : [p EXCEPT !.available = b] \in Data
                             /\ [p EXCEPT !.available = b].spot = p.spot
        BY DEF Data
    <2>2. q \in {[p EXCEPT !.available = b] : b \in BOOLEAN}
        BY <1>0 DEF Available
    <2> HIDE DEF q
    <2> QED
        BY <2>1, <2>2 DEF Dated
<1>2. prices' = [prices EXCEPT ![e] = q]
    BY DEF WithPrices
<1>3. prices' \in [Entries -> Data] /\ \A i \in Entries : Dated(prices'[i])
    <2> HIDE DEF q
    <2> QED
        BY <1>1, <1>2 DEF Typed, TypeOK, Data
<1>4. task \in Tasks /\ pending \in Pendings /\ now \in 0..LastSlot
    BY DEF Typed, TypeOK, Tasks, Pendings
<1>5. Arrived(p) \in BOOLEAN /\ q.available \in BOOLEAN
    <2>1. Arrived(p) \in BOOLEAN
        BY Zenon DEF Arrived
    <2>2. q.available \in BOOLEAN
        <3> HIDE DEF q
        <3> QED
            BY <1>1 DEF Data
    <2> QED
        BY <2>1, <2>2
<1>6. CASE k = "quarter"
    <2>1. task' = [task EXCEPT ![e][k] = Snapshot(p.spot.today, Arrived(p), ok)]
          /\ UNCHANGED pending
        BY <1>6 DEF WithPrices, Goes
    <2>2. Snapshot(p.spot.today, Arrived(p), ok) \in TaskStates
        BY <1>5, TaskStatesHold DEF Data, Readings
    <2>3. Held(Snapshot(p.spot.today, Arrived(p), ok))
        BY <1>6 DEF Held, Snapshot
    <2> HIDE DEF q
    <2>4. task' \in Tasks /\ task'[e][k] = Snapshot(p.spot.today, Arrived(p), ok)
          /\ \A i \in Entries, j \in Kinds : i # e \/ j # k => task'[i][j] = task[i][j]
        BY <1>4, <2>1, <2>2 DEF Tasks
    <2>5. task'[e][k].pc # "read"
        BY <2>4 DEF Snapshot
    <2> QED
        BY <1>3, <1>4, <1>6, <2>1, <2>3, <2>4, <2>5 DEF Handled, Pendings
<1>7. CASE k = "check"
    <2>1. task' = [task EXCEPT ![e][k] = Idle,
                               ![e]["refresh"] = IF Arrived(p) THEN At("start") ELSE @]
          /\ pending' = [pending EXCEPT ![e] = NextCheck(q.available)]
        BY <1>7 DEF WithPrices, GoesAndRefreshes, Schedule
    <2>2. NextCheck(q.available) \in Nat /\ NextCheck(q.available) > now
        BY <1>4, <1>5, NextCheckIsLater
    <2> HIDE DEF q
    <2>3. /\ task' \in Tasks /\ task'[e][k] = Idle
          /\ task'[e]["refresh"] \in {At("start"), task[e]["refresh"]}
          /\ \A i \in Entries, j \in Kinds : i # e \/ j \notin {k, "refresh"} => task'[i][j] = task[i][j]
        BY <1>4, <1>7, <2>1, TaskStatesHold DEF Tasks, Kinds
    <2>4. /\ pending' \in Pendings /\ pending'[e] # Never
          /\ \A i \in Entries : i # e => pending'[i] = pending[i]
        BY <1>4, <2>1, <2>2 DEF Pendings, Never
    <2>5. At("start").pc # "read" /\ Idle.pc # "read"
        BY DEF At, Idle
    <2> QED
        BY <1>3, <1>7, <2>3, <2>4, <2>5 DEF Handled
<1>8. CASE k \notin {"quarter", "check"}
    <2> DEFINE s == IF k = "day" THEN At("prune") ELSE At("weather")
    <2>1. task' = [task EXCEPT ![e][k] = s] /\ UNCHANGED pending
        BY <1>8 DEF WithPrices, Goes
    <2>2. s \in TaskStates /\ s.pc # "read"
        BY TaskStatesHold DEF At
    <2> HIDE DEF q, s
    <2>3. task' \in Tasks /\ task'[e][k] = s
          /\ \A i \in Entries, j \in Kinds : i # e \/ j # k => task'[i][j] = task[i][j]
        BY <1>4, <2>1, <2>2 DEF Tasks
    <2> QED
        BY <1>3, <1>4, <1>8, <2>1, <2>2, <2>3 DEF Handled, Pendings
<1> QED
    BY <1>6, <1>7, <1>8

LEMMA BeginHandles ==
    ASSUME Typed, NEW e \in Entries, NEW k \in Kinds, NEW checks,
           checks = IF k = "check" THEN [pending EXCEPT ![e] = Never] ELSE pending,
           Begin(e, k, checks)
    PROVE  Handled(e, k)
<1>0. /\ TypeOK /\ prices \in [Entries -> Data] /\ prices[e] \in Data /\ Dated(prices[e])
      /\ task \in Tasks /\ pending \in Pendings /\ now \in 0..LastSlot
    BY DEF Typed, TypeOK, Data, Tasks, Pendings
<1>1. ASSUME NEW shown \in Read(Today, BOOLEAN), NEW spot \in Read(Today, {TRUE}),
             WithPrices(e, k, SensorRead(prices[e], shown, spot), TRUE)
      PROVE  Handled(e, k)
    BY <1>0, <1>1, SensorReadIsData, WithPricesHandles
<1>2. CASE /\ source = "dayahead" /\ Goes(e, k, Reading) /\ pending' = checks
           /\ prices' = IF k = "day" THEN [prices EXCEPT ![e].shown.tomorrow = NoList]
                                     ELSE prices
    <2>1. Reading \in TaskStates /\ Reading.pc = "read" /\ Reading.day = Today
        BY <1>0, TodayIsADay, TaskStatesHold DEF Reading
    <2>2. /\ task' \in Tasks /\ task'[e][k] = Reading
          /\ \A i \in Entries, j \in Kinds : i # e \/ j # k => task'[i][j] = task[i][j]
        BY <1>0, <1>2, <2>1 DEF Goes, Tasks
    <2>3. prices' \in [Entries -> Data] /\ \A i \in Entries : Dated(prices'[i])
        <3>1. NoList \in Lists
            BY DEF Lists
        <3>2. [prices[e] EXCEPT !.shown.tomorrow = NoList] \in Data
              /\ [prices[e] EXCEPT !.shown.tomorrow = NoList].spot = prices[e].spot
            BY <1>0, <3>1 DEF Data, Readings
        <3>3. prices' \in {prices, [prices EXCEPT ![e] = [prices[e] EXCEPT !.shown.tomorrow = NoList]]}
            BY <1>2
        <3> QED
            BY <1>0, <3>2, <3>3 DEF Typed, Dated
    <2>4. /\ pending' \in Pendings
          /\ k = "check" => pending'[e] = Never
          /\ \A i \in Entries : i # e \/ k # "check" => pending'[i] = pending[i]
        BY <1>0, <1>2 DEF Pendings
    <2>5. Held(Reading)
        BY <2>1 DEF Held
    <2> QED
        BY <1>2, <2>2, <2>3, <2>4, <2>5 DEF Handled
<1> QED
    BY <1>1, <1>2 DEF Begin

\* A task that goes on to a state in which it reads nothing.
LEMMA GoingOnHandles ==
    ASSUME Typed, NEW e \in Entries, NEW k \in Kinds \ {"check"}, NEW state \in TaskStates,
           state.pc # "read", k = "quarter" => Held(state), UNCHANGED <<prices, pending>>,
           \/ task' = [task EXCEPT ![e][k] = state]
           \/ k # "refresh" /\ task' = [task EXCEPT ![e][k] = state, ![e]["refresh"] = At("start")]
           \/ k # "backfill" /\ task' = [task EXCEPT ![e][k] = state, ![e]["backfill"] = At("fetch")]
    PROVE  Handled(e, k)
<1>1. /\ prices \in [Entries -> Data] /\ task \in Tasks /\ pending \in Pendings
      /\ \A i \in Entries : Dated(prices[i])
    BY DEF Typed, TypeOK, Data, Tasks, Pendings
<1>2. At("start") \in TaskStates /\ At("fetch") \in TaskStates
    BY TaskStatesHold
<1>3. At("start").pc # "read" /\ At("fetch").pc # "read"
    BY DEF At
<1>4. {"refresh", "backfill"} \subseteq Kinds
    BY DEF Kinds
<1>5. /\ task' \in Tasks /\ task'[e][k] = state
      /\ \A i \in Entries, j \in Kinds :
            i # e \/ j \notin {k, "refresh", "backfill"} => task'[i][j] = task[i][j]
      /\ \A j \in Kinds : task'[e][j] \in {task[e][j], state, At("start"), At("fetch")}
    BY <1>1, <1>2, <1>4 DEF Tasks
<1> QED
    BY <1>1, <1>3, <1>5 DEF Handled, Pendings
-----------------------------------------------------------------------------
(* The steps of the tasks and the timers *)

\* A handler runs in the entry set up last: a task that waits, a timer that
\* is due, a check that is pending.
Active(e, k) ==
    \/ task[e][k] # Idle
    \/ k = "check" /\ pending[e] # Never
    \/ e = entry /\ phase = "loaded" /\ k \in due
\* What a handler leaves to the others.
Apart(e) ==
    /\ UNCHANGED <<world, entry, phase, missed, left>>
    /\ due' \subseteq due
    /\ conn' \in {conn, [conn EXCEPT ![e] = TRUE]}
    /\ forecast' \in [Entries -> Days] /\ overtaken' \in [Entries -> BOOLEAN] /\ failures' \in Nat

LEMMA HandledKeepsInv ==
    ASSUME Inv, NEW e \in Entries, NEW k \in Kinds, Active(e, k), Handled(e, k), Apart(e)
    PROVE  Inv'
<1>0. /\ TypeOK /\ ReadsOfADay /\ OthersRest /\ SetupComesFirst
      /\ task \in Tasks /\ pending \in Pendings
    BY DEF Inv, Typed, Life, TypeOK, Tasks, Pendings
<1>1. e = entry
    BY <1>0 DEF Active, OthersRest
<1>2. /\ \A i \in Entries, j \in Kinds :
            i # e \/ j \notin {k, "refresh", "backfill"} => task'[i][j] = task[i][j]
      /\ \A i \in Entries : i # e \/ k # "check" => pending'[i] = pending[i]
      /\ k = "check" => \/ task'[e][k] = Idle /\ pending'[e] # Never
                        \/ task'[e][k] = Reading /\ pending'[e] = Never
      /\ UNCHANGED <<source, now, entry, phase, left>>
    BY DEF Handled, Apart, world
<1>3. {"check", "setup", "quarter"} \subseteq Kinds
    BY DEF Kinds
<1>4. k # "check" => task'[e]["check"] = task[e]["check"]
    BY <1>2, <1>3
<1>5. Typed'
    <2>1. TypeOK'
        BY <1>0 DEF Handled, Apart, world, TypeOK, Data, Tasks, Pendings
    <2>2. ReadsOfADay'
        <3>1. Reading.day # NoDay
            BY <1>0, TodayIsADay DEF TypeOK, Reading
        <3>2. \A j \in Kinds : task'[e][j].pc = "read" =>
                 source' = "dayahead" /\ task'[e][j].day # NoDay
            BY <1>0, <1>2, <3>1 DEF Handled, ReadsOfADay
        <3>3. \A i \in Entries : i # e => \A j \in Kinds : task'[i][j].pc = "read" =>
                 source' = "dayahead" /\ task'[i][j].day # NoDay
            BY <1>0, <1>2 DEF ReadsOfADay
        <3> QED
            BY <3>2, <3>3 DEF ReadsOfADay
    <2>3. \A i \in Entries : Dated(prices'[i])
        BY DEF Handled
    <2> QED
        BY <2>1, <2>2, <2>3 DEF Typed, Dated
<1>6. QuarterHolds'
    <2>1. \A i \in Entries : Held(task'[i]["quarter"])
        BY <1>2, <1>3 DEF Handled, Inv, QuarterHolds
    <2>2. source' = source /\ Today' = Today
        BY <1>2 DEF Today
    <2> QED
        BY <2>1, <2>2 DEF QuarterHolds, Held
<1>7. OthersRest'
    BY <1>0, <1>1, <1>2 DEF OthersRest
<1>8. SetupComesFirst'
    <2>1. phase = "setup" => k # "check"
        BY <1>0, <1>1 DEF Active, SetupComesFirst
    <2>2. phase # "setup" => k # "setup"
        BY <1>0, <1>1 DEF Active, SetupComesFirst, TypeOK
    <2> QED
        BY <1>0, <1>1, <1>2, <1>3, <1>4, <2>1, <2>2 DEF SetupComesFirst, Apart
<1>9. ChecksOnlyRead'
    <2>1. Idle.pc = "idle" /\ Reading.pc = "read"
        BY DEF Idle, Reading
    <2> QED
        BY <1>2, <1>3, <1>4, <2>1 DEF Inv, Life, ChecksOnlyRead
<1>10. OneCheck'
    <2>1. Reading # Idle
        BY DEF Reading, Idle
    <2> QED
        BY <1>1, <1>2, <1>4, <2>1 DEF Inv, Life, OneCheck
<1>11. NothingRests'
    <2>1. \A i \in Entries : Gone(i)' = Gone(i)
        BY <1>2 DEF Gone
    <2>2. ASSUME Gone(e)
          PROVE  /\ left[e] # "nothing" \/ ~(\E j \in Kinds : task'[e][j] # Idle)
                 /\ left[e] # "check" => pending'[e] = Never /\ task'[e]["check"] = Idle
                 /\ conn'[e] /\ phase # "closing" => left[e] # "nothing"
        <3>1. ~(e = entry /\ phase = "loaded")
            BY <1>0, <1>1, <2>2, EntriesAssumption DEF Gone, TypeOK, Entries
        <3>2. task[e][k] # Idle \/ (k = "check" /\ pending[e] # Never)
            BY <3>1 DEF Active
        <3>3. /\ left[e] = "nothing" => \A j \in Kinds : task[e][j] = Idle
              /\ left[e] # "check" => pending[e] = Never /\ task[e]["check"] = Idle
            BY <2>2 DEF Inv, Life, NothingRests
        <3>4. left[e] # "nothing"
            BY <3>2, <3>3
        <3>5. k = "check" => left[e] = "check"
            BY <3>2, <3>3
        <3> QED
            BY <1>2, <1>4, <3>3, <3>4, <3>5
    <2>3. ASSUME NEW i \in Entries, i # e, Gone(i)
          PROVE  /\ left[i] = "nothing" => \A j \in Kinds : task'[i][j] = Idle
                 /\ left[i] # "check" => pending'[i] = Never /\ task'[i]["check"] = Idle
                 /\ conn'[i] => left[i] # "nothing"
        BY <1>0, <1>1, <1>2, <1>3, <2>3 DEF Inv, Life, NothingRests, Apart, TypeOK
    <2> QED
        BY <1>1, <1>2, <2>1, <2>2, <2>3 DEF NothingRests
<1> QED
    BY <1>5, <1>6, <1>7, <1>8, <1>9, <1>10, <1>11 DEF Inv, Life

\* A task's step goes on only from where it waits.
LEMMA StepKeepsInv == ASSUME Inv, NEW e \in Entries, NEW k \in Kinds, Step(e, k) PROVE Inv'
<1>0. /\ Typed /\ task \in Tasks /\ prices \in [Entries -> Data] /\ Dated(prices[e])
      /\ now \in 0..LastSlot /\ task[e]["check"].pc \in {"idle", "read"}
      /\ forecast \in [Entries -> Days] /\ overtaken \in [Entries -> BOOLEAN] /\ failures \in Nat
    BY DEF Inv, Typed, TypeOK, Tasks, Data, Life, ChecksOnlyRead
<1>1. {"quarter", "day", "backfill", "refresh"} \subseteq Kinds /\ task[e][k] \in TaskStates
    BY <1>0 DEF Kinds, Tasks
<1>2. Idle \in TaskStates /\ Idle.pc = "idle" /\ Held(Idle)
    BY TaskStatesHold DEF Idle, Held
<1>3. CASE ReadEnds(e, k)
    <2>1. PICK read \in Read(task[e][k].day, BOOLEAN) :
             WithPrices(e, k, DayAheadRead(prices[e], read), read.today # NoList)
        BY <1>3 DEF ReadEnds
    <2>2. task[e][k].pc = "read" /\ source = "dayahead" /\ task[e][k].day \in Days \ {NoDay}
        <3>1. task[e][k].pc = "read" /\ source = "dayahead" /\ task[e][k].day # NoDay
            BY <1>0, <1>3 DEF ReadEnds, Typed, ReadsOfADay
        <3> QED
            BY <1>1, <3>1 DEF TaskStates, Idle
    <2>3. DayAheadRead(prices[e], read) \in Data /\ Dated(DayAheadRead(prices[e], read))
          /\ (read.today # NoList => DayAheadRead(prices[e], read).spot.today.of = task[e][k].day)
        BY <1>0, <2>2, DayAheadReadIsData DEF Typed
    <2>4. k = "quarter" => task[e][k].day = Today
        BY <2>2 DEF Inv, QuarterHolds, Held
    <2>5. Handled(e, k)
        BY <1>0, <2>1, <2>2, <2>3, <2>4, WithPricesHandles
    <2>6. Active(e, k) /\ Apart(e)
        BY <1>0, <1>2, <1>3, <2>2 DEF Active, ReadEnds, UsesDatabase, Apart, forecasts
    <2> QED
        BY <2>5, <2>6, HandledKeepsInv
<1>4. CASE WeatherEnds(e, k)
    <2> DEFINE state == [pc |-> "predict", knownTo |-> KnownTo(prices[e])]
    <2>1. state \in TaskStates /\ state.pc # "read" /\ Held(state)
        BY <1>0, KnownToIsADay, TaskStatesHold DEF Held
    <2>2. k # "check" /\ task[e][k].pc = "weather" /\ task' = [task EXCEPT ![e][k] = state]
          /\ UNCHANGED <<prices, pending>>
        BY <1>0, <1>4 DEF WeatherEnds, Goes, life
    <2> HIDE DEF state
    <2>3. Handled(e, k)
        BY <1>0, <2>1, <2>2, GoingOnHandles
    <2>4. Active(e, k) /\ Apart(e)
        BY <1>0, <1>2, <1>4, <2>2 DEF Active, WeatherEnds, UsesDatabase, Apart, forecasts, life
    <2> QED
        BY <2>3, <2>4, HandledKeepsInv
<1>5. CASE PredictEnds(e, k)
    <2>1. k # "check" /\ task[e][k].pc = "predict" /\ task' = [task EXCEPT ![e][k] = Idle]
          /\ UNCHANGED <<prices, pending>>
        BY <1>0, <1>5 DEF PredictEnds, Goes, life
    <2>2. Handled(e, k)
        BY <1>0, <1>2, <2>1, GoingOnHandles
    <2>3. task[e][k].knownTo \in Days
        BY <1>1, <2>1 DEF TaskStates, Idle
    <2>4. forecast' \in [Entries -> Days]
        BY <1>0, <1>5, <2>3 DEF PredictEnds
    <2>5. overtaken' \in [Entries -> BOOLEAN]
        BY <1>0, <1>5, Zenon DEF PredictEnds
    <2>6. Active(e, k) /\ Apart(e)
        BY <1>0, <1>2, <1>5, <2>1, <2>4, <2>5 DEF Active, PredictEnds, UsesDatabase, Apart, life
    <2> QED
        BY <2>2, <2>6, HandledKeepsInv
<1>6. CASE k = "quarter" /\ SnapshotEnds(e)
    <2> DEFINE t == task[e]["quarter"]
               state == [pc |-> "learn", day |-> Today, of |-> t.list.of,
                         ok |-> t.ok, arrived |-> t.arrived]
    <2>1. t.pc = "snapshot" /\ UNCHANGED <<prices, pending>>
          /\ \/ t.list # NoList /\ task' = [task EXCEPT ![e][k] = state]
             \/ GoesAndRefreshes(e, k, Idle, t.arrived)
        BY <1>6 DEF SnapshotEnds, Goes, life
    <2>2. t \in TaskStates
        BY <1>1, <1>6
    <2>3. t.list \in Lists /\ t.arrived \in BOOLEAN /\ t.ok \in BOOLEAN
        BY <2>1, <2>2 DEF TaskStates, Idle
    <2>4. t.list # NoList => state \in TaskStates /\ state.pc # "read" /\ Held(state)
        <3>1. t.list # NoList => t.list.of \in Days
            BY <2>3 DEF Lists
        <3>2. t.list = NoList \/ t.list.of = Today \/ (source = "dayahead" /\ ~t.ok)
            BY <2>1 DEF Inv, QuarterHolds, Held
        <3>3. Today \in Days
            BY <1>0, TodayIsADay
        <3> QED
            BY <2>3, <3>1, <3>2, <3>3, TaskStatesHold DEF Held
    <2> HIDE DEF t, state
    <2>5. \/ /\ task' = [task EXCEPT ![e][k] = state]
             /\ state \in TaskStates /\ state.pc # "read" /\ Held(state)
          \/ task' = [task EXCEPT ![e][k] = Idle]
          \/ task' = [task EXCEPT ![e][k] = Idle, ![e]["refresh"] = At("start")]
        BY <1>0, <1>1, <1>6, <2>1, <2>3, <2>4 DEF GoesAndRefreshes, Tasks
    <2>6. Handled(e, k)
        <3>1. k \in Kinds \ {"check"} /\ k # "refresh" /\ UNCHANGED <<prices, pending>>
            BY <1>6, <2>1
        <3>2. CASE /\ task' = [task EXCEPT ![e][k] = state]
                   /\ state \in TaskStates /\ state.pc # "read" /\ Held(state)
            BY <1>0, <3>1, <3>2, GoingOnHandles
        <3>3. CASE \/ task' = [task EXCEPT ![e][k] = Idle]
                   \/ task' = [task EXCEPT ![e][k] = Idle, ![e]["refresh"] = At("start")]
            BY <1>0, <1>2, <3>1, <3>3, GoingOnHandles
        <3> QED
            BY <2>5, <3>2, <3>3
    <2>7. Active(e, k) /\ Apart(e)
        BY <1>0, <1>2, <1>6, <2>1 DEF Active, SnapshotEnds, UsesDatabase, Apart, forecasts, life, t
    <2> QED
        BY <2>6, <2>7, HandledKeepsInv
<1>7. CASE k = "quarter" /\ LearnEnds(e)
    <2>1. /\ task[e][k].pc = "learn" /\ UNCHANGED <<prices, pending>>
          /\ GoesAndRefreshes(e, k, Idle, task[e][k].arrived)
        BY <1>7 DEF LearnEnds, life
    <2>2. \/ task' = [task EXCEPT ![e][k] = Idle]
          \/ task' = [task EXCEPT ![e][k] = Idle, ![e]["refresh"] = At("start")]
        BY <1>0, <1>1, <1>7, <2>1 DEF GoesAndRefreshes, Tasks
    <2>3. Handled(e, k)
        BY <1>0, <1>2, <1>7, <2>1, <2>2, GoingOnHandles
    <2>4. Active(e, k) /\ Apart(e)
        BY <1>0, <1>2, <1>7, <2>1 DEF Active, LearnEnds, UsesDatabase, Apart, forecasts, life
    <2> QED
        BY <2>3, <2>4, HandledKeepsInv
<1>8. CASE k = "day" /\ PruneEnds(e)
    <2>1. /\ task[e][k].pc = "prune" /\ UNCHANGED <<prices, pending>>
          /\ task' = [task EXCEPT ![e][k] = Idle, ![e]["backfill"] = At("fetch")]
        BY <1>8 DEF PruneEnds, life
    <2>2. Handled(e, k)
        BY <1>0, <1>2, <1>8, <2>1, GoingOnHandles
    <2>3. Active(e, k) /\ Apart(e)
        BY <1>0, <1>2, <1>8, <2>1 DEF Active, PruneEnds, UsesDatabase, Apart, forecasts, life
    <2> QED
        BY <2>2, <2>3, HandledKeepsInv
<1>9. CASE k = "backfill" /\ BackfillEnds(e)
    <2>1. Active(e, k) /\ Apart(e)
        BY <1>0, <1>2, <1>9 DEF Active, BackfillEnds, UsesDatabase, Apart, forecasts
    <2>2. CASE Goes(e, k, Idle) /\ UNCHANGED <<prices, pending>>
        BY <1>0, <1>2, <1>9, <2>1, <2>2, GoingOnHandles, HandledKeepsInv DEF Goes
    <2>3. CASE Begin(e, k, pending)
        BY <1>0, <1>9, <2>1, <2>3, BeginHandles, HandledKeepsInv
    <2> QED
        BY <1>9, <2>2, <2>3 DEF BackfillEnds
<1>10. CASE k = "refresh" /\ RefreshStarts(e)
    <2>1. Active(e, k) /\ Apart(e)
        BY <1>0, <1>2, <1>10 DEF Active, RefreshStarts, Apart, forecasts, TypeOK
    <2> QED
        BY <1>0, <1>10, <2>1, BeginHandles, HandledKeepsInv DEF RefreshStarts
<1> QED
    BY <1>3, <1>4, <1>5, <1>6, <1>7, <1>8, <1>9, <1>10 DEF Step

LEMMA RaisingKeepsInv ==
    ASSUME Inv, NEW e \in Entries, NEW k \in Kinds, ForecastRaises(e, k)
    PROVE  Inv'
<1>0. /\ Typed /\ task[e]["check"].pc \in {"idle", "read"}
      /\ forecast \in [Entries -> Days] /\ overtaken \in [Entries -> BOOLEAN] /\ failures \in Nat
    BY DEF Inv, Typed, TypeOK, Life, ChecksOnlyRead
<1>1. Idle \in TaskStates /\ Idle.pc = "idle" /\ Held(Idle)
    BY TaskStatesHold DEF Idle, Held
<1>2. k # "check" /\ task[e][k].pc \in {"weather", "predict"}
      /\ task' = [task EXCEPT ![e][k] = Idle] /\ UNCHANGED <<prices, pending>>
    BY <1>0 DEF ForecastRaises, Goes, life
<1>3. Handled(e, k)
    BY <1>0, <1>1, <1>2, GoingOnHandles
<1>4. Active(e, k) /\ Apart(e)
    BY <1>0, <1>1, <1>2 DEF Active, ForecastRaises, UsesDatabase, Apart, forecasts, life
<1> QED
    BY <1>3, <1>4, HandledKeepsInv

LEMMA TimersKeepInv ==
    ASSUME Inv,
           \/ \E k \in Kinds : Fire(k)
           \/ \E e \in Entries : CheckFires(e)
           \/ SetupLoads
    PROVE  Inv'
<1>0. /\ Typed /\ entry \in Entries /\ now \in 0..LastSlot
      /\ forecast \in [Entries -> Days] /\ overtaken \in [Entries -> BOOLEAN] /\ failures \in Nat
      /\ due \subseteq {"quarter", "day", "forecast"} /\ (phase # "loaded" => due = {})
      /\ task \in Tasks
    BY DEF Inv, Typed, TypeOK, Life, SetupComesFirst, Tasks
<1>1. ASSUME NEW k \in Kinds, Fire(k) PROVE Inv'
    <2>1. Active(entry, k) /\ Apart(entry) /\ k # "check"
        BY <1>0, <1>1 DEF Active, Fire, Apart, forecasts
    <2>2. CASE k = "forecast"
        <3>1. At("weather") \in TaskStates /\ At("weather").pc = "weather" /\ Held(At("weather"))
            BY TaskStatesHold DEF At, Held
        <3> QED
            BY <1>0, <1>1, <2>1, <2>2, <3>1, GoingOnHandles, HandledKeepsInv DEF Fire, Goes
    <2>3. CASE k # "forecast"
        BY <1>0, <1>1, <2>1, <2>3, BeginHandles, HandledKeepsInv DEF Fire
    <2> QED
        BY <2>2, <2>3
<1>2. ASSUME NEW e \in Entries, CheckFires(e) PROVE Inv'
    <2>1. Active(e, "check") /\ Apart(e) /\ "check" \in Kinds
        BY <1>0, <1>2 DEF Active, CheckFires, Apart, forecasts, Never, Kinds
    <2> QED
        BY <1>0, <1>2, <2>1, BeginHandles, HandledKeepsInv DEF CheckFires
<1>3. CASE SetupLoads
    <2>1. Active(entry, "setup") /\ Apart(entry) /\ "setup" \in Kinds
        BY <1>0, <1>3 DEF Active, SetupLoads, UsesDatabase, Apart, forecasts, Idle, Kinds
    <2> QED
        BY <1>0, <1>3, <2>1, BeginHandles, HandledKeepsInv DEF SetupLoads
<1> QED
    BY <1>1, <1>2, <1>3
-----------------------------------------------------------------------------
(* Time, the market and the entry's life *)

LEMMA WorldKeepsInv == ASSUME Inv, Publish \/ Tick PROVE Inv'
<1>0. /\ Typed /\ now \in 0..LastSlot /\ LastSlot \in Nat
      /\ \A e \in Entries : pending[e] \in Nat \union {Never}
      /\ \A e \in Entries : pending[e] = Never \/ pending[e] >= now
    BY SlotsAssumption DEF Inv, Typed, TypeOK
<1>1. CASE Publish
    <2>1. Today + 1 \in Days
        BY <1>0, TodayIsADay
    <2>2. published' \in Days
        BY <1>1, <2>1 DEF Publish
    <2>3. UNCHANGED <<source, now, entry, phase, due, pending, missed, left, prices, task, conn,
                      forecast, overtaken, failures>>
        BY <1>1 DEF Publish, life, forecasts
    <2>4. Typed'
        BY <1>0, <2>2, <2>3 DEF Typed, TypeOK, ReadsOfADay, Dated
    <2>5. QuarterHolds' /\ Life'
        BY <2>3 DEF Inv, QuarterHolds, Held, Today, Life, OthersRest, SetupComesFirst,
                    ChecksOnlyRead, OneCheck, NothingRests, Gone
    <2> QED
        BY <2>4, <2>5 DEF Inv
<1>2. CASE Tick
    <2>1. /\ now' = now + 1 /\ now' \in 0..LastSlot
          /\ UNCHANGED <<source, published, entry, phase, pending, left, prices, task, conn,
                         forecast, overtaken, failures>>
          /\ due' \subseteq {"quarter", "day", "forecast"}
          /\ phase # "loaded" => due' = {}
        BY <1>0, <1>2 DEF Tick, forecasts
    <2>2. \A e \in Entries : pending[e] = Never \/ pending[e] >= now + 1
        BY <1>0, <1>2 DEF Tick
    <2>3. missed' \in [Entries -> BOOLEAN]
        <3>1. missed \in [Entries -> BOOLEAN]
            BY <1>0 DEF Typed, TypeOK
        <3>2. (missed[entry] \/ (phase = "setup" /\ now' % SlotsPerDay = 0)) \in BOOLEAN
            BY Zenon
        <3>3. missed' = [missed EXCEPT ![entry] =
                            missed[entry] \/ (phase = "setup" /\ now' % SlotsPerDay = 0)]
            BY <1>2 DEF Tick
        <3> HIDE DEF Tick
        <3> QED
            BY <3>1, <3>2, <3>3, Zenon
    <2>4. Typed'
        BY <1>0, <2>1, <2>2, <2>3 DEF Typed, TypeOK, ReadsOfADay, Dated
    <2>5. QuarterHolds'
        <3>1. \A e \in Entries : task'[e]["quarter"] = Idle
            BY <1>2, <2>1 DEF Tick, Settled
        <3> QED
            BY <3>1 DEF QuarterHolds, Held, Idle
    <2>6. Life'
        BY <2>1 DEF Inv, Life, OthersRest, SetupComesFirst, ChecksOnlyRead, OneCheck,
                    NothingRests, Gone
    <2> QED
        BY <2>4, <2>5, <2>6 DEF Inv
<1> QED
    BY <1>1, <1>2

LEMMA SetupKeepsInv == ASSUME Inv, SetupEnds \/ SetupFails PROVE Inv'
<1>0. /\ Typed /\ entry \in Entries /\ Entries \subseteq Nat /\ now \in 0..LastSlot
      /\ task \in Tasks /\ pending \in Pendings /\ forecast \in [Entries -> Days]
      /\ left \in [Entries -> Left] /\ failures \in Nat
      /\ prices[entry].available \in BOOLEAN
      /\ task[entry]["setup"] \in TaskStates /\ "setup" \in Kinds /\ "check" \in Kinds
      /\ "quarter" \in Kinds /\ "backfill" \in Kinds
    BY EntriesAssumption DEF Inv, Typed, TypeOK, Tasks, Pendings, Kinds, Entries
<1>1. Idle \in TaskStates /\ At("fetch") \in TaskStates /\ Idle.pc = "idle" /\ At("fetch").pc = "fetch"
    BY TaskStatesHold DEF Idle, At
<1>2. task[entry]["setup"].pc \in {"weather", "predict"}
    BY DEF SetupEnds, SetupFails
<1>3. phase = "setup" /\ due = {} /\ pending[entry] = Never /\ task[entry]["check"] = Idle
    BY <1>1, <1>2 DEF Inv, Life, SetupComesFirst
<1>4. CASE SetupEnds
    <2>1. /\ task' = [task EXCEPT ![entry]["setup"] = Idle, ![entry]["backfill"] = At("fetch")]
          /\ pending' = [pending EXCEPT ![entry] = NextCheck(prices[entry].available)]
          /\ phase' = "loaded"
          /\ conn' = [conn EXCEPT ![entry] = TRUE]
          /\ forecast' = [forecast EXCEPT ![entry] = task[entry]["setup"].knownTo]
          /\ UNCHANGED <<source, now, published, entry, due, overtaken, missed, left, prices, failures>>
        BY <1>4 DEF SetupEnds, Schedule, UsesDatabase, world
    <2>2. /\ task' \in Tasks /\ task'[entry]["setup"] = Idle /\ task'[entry]["check"] = Idle
          /\ \A e \in Entries, j \in Kinds : task'[e][j] \in {task[e][j], Idle, At("fetch")}
          /\ \A e \in Entries \ {entry}, j \in Kinds : task'[e][j] = task[e][j]
          /\ \A e \in Entries : task'[e]["check"] = task[e]["check"]
                             /\ task'[e]["quarter"] = task[e]["quarter"]
        BY <1>0, <1>1, <1>3, <2>1 DEF Tasks
    <2>3. /\ pending' \in Pendings /\ pending'[entry] # Never
          /\ \A e \in Entries \ {entry} : pending'[e] = pending[e]
        BY <1>0, <2>1, NextCheckIsLater DEF Pendings, Never
    <2>4. forecast' \in [Entries -> Days]
        <3>1. task[entry]["setup"].pc = "predict"
            BY <1>4 DEF SetupEnds
        <3>2. task[entry]["setup"].knownTo \in Days
            BY <1>0, <3>1 DEF TaskStates, Idle
        <3> QED
            BY <1>0, <2>1, <3>2
    <2>5. Typed'
        BY <1>0, <1>1, <2>1, <2>2, <2>3, <2>4 DEF Typed, TypeOK, ReadsOfADay, Dated, Tasks, Pendings
    <2>6. QuarterHolds'
        BY <2>1, <2>2 DEF Inv, QuarterHolds, Held, Today
    <2>7. OthersRest' /\ SetupComesFirst' /\ ChecksOnlyRead' /\ OneCheck'
        <3>1. OthersRest'
            <4>1. \A e \in Entries \ {entry} : pending[e] = Never /\ \A k \in Kinds : task[e][k] = Idle
                BY DEF Inv, Life, OthersRest
            <4>2. entry' = entry
                BY <2>1
            <4> QED
                BY <2>2, <2>3, <4>1, <4>2 DEF OthersRest
        <3>2. SetupComesFirst'
            BY <2>1, <2>2 DEF SetupComesFirst
        <3>3. ChecksOnlyRead'
            BY <2>1, <2>2 DEF Inv, Life, ChecksOnlyRead
        <3>4. OneCheck'
            BY <2>1, <2>2, <2>3 DEF OneCheck
        <3> QED
            BY <3>1, <3>2, <3>3, <3>4
    <2>8. NothingRests'
        <3>1. \A e \in Entries : Gone(e)' => e # entry /\ Gone(e)
            BY <1>0, <2>1 DEF Gone
        <3> QED
            BY <1>0, <2>1, <2>2, <2>3, <3>1 DEF Inv, Life, NothingRests, Typed, TypeOK
    <2> QED
        BY <2>5, <2>6, <2>7, <2>8 DEF Inv, Life
<1>5. CASE SetupFails
    <2>1. /\ task' = [task EXCEPT ![entry]["setup"] = Idle]
          /\ left' = [left EXCEPT ![entry] = "tasks"]
          /\ phase' = "gone" /\ failures' = failures + 1
          /\ UNCHANGED <<source, now, published, entry, due, pending, overtaken, forecast, missed,
                         conn, prices>>
        BY <1>5 DEF SetupFails, Goes, world, forecasts
    <2>2. /\ task' \in Tasks /\ task'[entry]["setup"] = Idle
          /\ \A e \in Entries, j \in Kinds : task'[e][j] \in {task[e][j], Idle}
          /\ \A e \in Entries \ {entry}, j \in Kinds : task'[e][j] = task[e][j]
          /\ \A e \in Entries : task'[e]["check"] = task[e]["check"]
                             /\ task'[e]["quarter"] = task[e]["quarter"]
        BY <1>0, <1>1, <2>1 DEF Tasks
    <2>3. left' \in [Entries -> Left] /\ left'[entry] = "tasks"
          /\ \A e \in Entries \ {entry} : left'[e] = left[e]
        BY <1>0, <2>1 DEF Left
    <2>4. Typed'
        BY <1>0, <1>1, <2>1, <2>2, <2>3 DEF Typed, TypeOK, ReadsOfADay, Dated, Tasks
    <2>5. QuarterHolds'
        BY <2>1, <2>2 DEF Inv, QuarterHolds, Held, Today
    <2>6. OthersRest' /\ SetupComesFirst' /\ ChecksOnlyRead' /\ OneCheck'
        BY <1>0, <1>3, <2>1, <2>2 DEF Inv, Life, OthersRest, SetupComesFirst, ChecksOnlyRead, OneCheck
    <2>7. NothingRests'
        <3>1. \A e \in Entries : Gone(e)' => e = entry \/ Gone(e)
            BY <1>0, <2>1 DEF Gone
        <3> QED
            BY <1>0, <1>3, <2>1, <2>2, <2>3, <3>1 DEF Inv, Life, NothingRests
    <2> QED
        BY <2>4, <2>5, <2>6, <2>7 DEF Inv, Life
<1> QED
    BY <1>4, <1>5

LEMMA UnloadKeepsInv == ASSUME Inv, Unload \/ Close \/ CancelBackground PROVE Inv'
<1>0. /\ Typed /\ entry \in Entries /\ Entries \subseteq Nat /\ task \in Tasks /\ pending \in Pendings
      /\ left \in [Entries -> Left] /\ conn \in [Entries -> BOOLEAN] /\ "check" \in Kinds
      /\ "quarter" \in Kinds /\ "setup" \in Kinds
    BY EntriesAssumption DEF Inv, Typed, TypeOK, Tasks, Pendings, Kinds, Entries
<1>1. Idle \in TaskStates /\ Idle.pc = "idle"
    BY TaskStatesHold DEF Idle
<1>2. CASE Unload
    <2> DEFINE l == IF task[entry]["check"] # Idle THEN "check"
                    ELSE IF \E k \in Kinds : task[entry][k] # Idle THEN "tasks"
                    ELSE "nothing"
    <2>1. /\ phase = "loaded" /\ phase' = "closing" /\ due' = {}
          /\ pending' = [pending EXCEPT ![entry] = Never]
          /\ left' = [left EXCEPT ![entry] = l]
          /\ UNCHANGED <<source, now, published, entry, missed, prices, task, conn, forecast,
                         overtaken, failures>>
        BY <1>2 DEF Unload, world, forecasts
    <2>2. /\ l \in Left
          /\ l = "nothing" => \A k \in Kinds : task[entry][k] = Idle
          /\ l # "check" => task[entry]["check"] = Idle
        BY DEF Left
    <2> HIDE DEF l
    <2>3. /\ pending' \in Pendings /\ pending'[entry] = Never
          /\ \A e \in Entries \ {entry} : pending'[e] = pending[e] /\ left'[e] = left[e]
          /\ left' \in [Entries -> Left] /\ left'[entry] = l
        BY <1>0, <2>1, <2>2 DEF Pendings
    <2>4. Typed'
        BY <1>0, <2>1, <2>3 DEF Typed, TypeOK, ReadsOfADay, Dated, Pendings
    <2>5. QuarterHolds'
        BY <2>1 DEF Inv, QuarterHolds, Held, Today
    <2>6. OthersRest' /\ SetupComesFirst' /\ ChecksOnlyRead' /\ OneCheck'
        BY <1>0, <2>1, <2>3 DEF Inv, Life, OthersRest, SetupComesFirst, ChecksOnlyRead, OneCheck
    <2>7. NothingRests'
        <3>1. \A e \in Entries : Gone(e)' => e = entry \/ Gone(e)
            BY <1>0, <2>1 DEF Gone
        <3> QED
            BY <1>0, <2>1, <2>2, <2>3, <3>1 DEF Inv, Life, NothingRests
    <2> QED
        BY <2>4, <2>5, <2>6, <2>7 DEF Inv, Life
<1>3. CASE Close
    <2>1. /\ phase = "closing" /\ phase' = "closed"
          /\ conn' = [conn EXCEPT ![entry] = FALSE]
          /\ UNCHANGED <<source, now, published, entry, due, pending, left, missed, prices, task,
                         forecast, overtaken, failures>>
        BY <1>3 DEF Close, world, forecasts
    <2>2. conn' \in [Entries -> BOOLEAN] /\ ~conn'[entry]
          /\ \A e \in Entries \ {entry} : conn'[e] = conn[e]
        BY <1>0, <2>1
    <2>3. Typed'
        BY <1>0, <2>1, <2>2 DEF Typed, TypeOK, ReadsOfADay, Dated
    <2>4. QuarterHolds'
        BY <2>1 DEF Inv, QuarterHolds, Held, Today
    <2>5. OthersRest' /\ SetupComesFirst' /\ ChecksOnlyRead' /\ OneCheck'
        BY <1>0, <2>1 DEF Inv, Life, OthersRest, SetupComesFirst, ChecksOnlyRead, OneCheck
    <2>6. NothingRests'
        <3>1. \A e \in Entries : Gone(e)' => Gone(e)
            BY <1>0, <2>1 DEF Gone
        <3> QED
            BY <1>0, <2>1, <2>2, <3>1 DEF Inv, Life, NothingRests
    <2> QED
        BY <2>3, <2>4, <2>5, <2>6 DEF Inv, Life
<1>4. CASE CancelBackground
    <2>1. /\ phase = "closed" /\ phase' = "gone"
          /\ task' = [e \in Entries |-> [k \in Kinds |->
                        IF k \in Background THEN Idle ELSE task[e][k]]]
          /\ UNCHANGED <<source, now, published, entry, due, pending, left, missed, prices, conn,
                         forecast, overtaken, failures>>
        BY <1>4 DEF CancelBackground, world, forecasts
    <2>2. /\ task' \in Tasks
          /\ \A e \in Entries, j \in Kinds : task'[e][j] \in {task[e][j], Idle}
          /\ \A e \in Entries : /\ task'[e]["check"] = task[e]["check"]
                                /\ task'[e]["quarter"] = task[e]["quarter"]
                                /\ task'[e]["setup"] = task[e]["setup"]
        BY <1>0, <1>1, <2>1 DEF Tasks, Background
    <2>3. Typed'
        BY <1>0, <1>1, <2>1, <2>2 DEF Typed, TypeOK, ReadsOfADay, Dated, Tasks
    <2>4. QuarterHolds'
        BY <2>1, <2>2 DEF Inv, QuarterHolds, Held, Today
    <2>5. OthersRest' /\ SetupComesFirst' /\ ChecksOnlyRead' /\ OneCheck'
        BY <1>0, <2>1, <2>2 DEF Inv, Life, OthersRest, SetupComesFirst, ChecksOnlyRead, OneCheck
    <2>6. NothingRests'
        <3>1. \A e \in Entries : Gone(e)' => Gone(e)
            BY <1>0, <2>1 DEF Gone
        <3> QED
            BY <1>0, <2>1, <2>2, <3>1 DEF Inv, Life, NothingRests
    <2> QED
        BY <2>3, <2>4, <2>5, <2>6 DEF Inv, Life
<1> QED
    BY <1>2, <1>3, <1>4

LEMMA SetUpAgainKeepsInv == ASSUME Inv, SetUpAgain PROVE Inv'
<1>0. /\ Typed /\ entry \in Entries /\ Entries \subseteq Nat /\ task \in Tasks
      /\ prices \in [Entries -> Data] /\ forecast \in [Entries -> Days]
      /\ "setup" \in Kinds /\ "quarter" \in Kinds /\ "check" \in Kinds
    BY EntriesAssumption DEF Inv, Typed, TypeOK, Tasks, Kinds, Entries, Data
<1>1. At("load") \in TaskStates /\ At("load").pc = "load"
    BY TaskStatesHold DEF At
<1>2. /\ phase = "gone" /\ phase' = "setup" /\ entry' = entry + 1
      /\ \A k \in Kinds : task[entry][k] = Idle
      /\ pending[entry] = Never
      /\ task' = [task EXCEPT ![entry + 1]["setup"] = At("load")]
      /\ prices' = [prices EXCEPT ![entry] = NoData]
      /\ forecast' = [forecast EXCEPT ![entry] = NoDay]
      /\ UNCHANGED <<source, now, published, due, pending, left, missed, conn, overtaken, failures>>
    BY DEF SetUpAgain, Goes, world
<1>3. entry' \in Entries /\ entry' # entry
    BY <1>0, <1>2, EntriesAssumption DEF Entries, SetUpAgain
<1>4. \A e \in Entries : pending[e] = Never /\ \A k \in Kinds : task[e][k] = Idle
    BY <1>2 DEF Inv, Life, OthersRest
<1>5. /\ task' \in Tasks
      /\ \A e \in Entries, j \in Kinds : e # entry' \/ j # "setup" => task'[e][j] = task[e][j]
      /\ \A e \in Entries, j \in Kinds : task'[e][j] \in {task[e][j], At("load")}
    BY <1>0, <1>1, <1>2, <1>3 DEF Tasks
<1>6. Typed'
    <2>1. NoDay \in Days /\ NoList \in Lists
        BY DaysAreNumbers DEF NoDay, Days, Lists
    <2>2. NoData \in Data /\ Dated(NoData)
        BY <2>1 DEF NoData, NoPrices, Data, Readings, Dated, NoList
    <2>3. prices' \in [Entries -> Data] /\ \A e \in Entries : Dated(prices'[e])
        BY <1>0, <1>2, <2>2 DEF Typed
    <2>4. forecast' \in [Entries -> Days]
        BY <1>0, <1>2, <2>1
    <2> QED
        BY <1>0, <1>1, <1>2, <1>3, <1>5, <2>3, <2>4 DEF Typed, TypeOK, ReadsOfADay, Dated, Tasks, Data
<1>7. QuarterHolds'
    BY <1>0, <1>2, <1>5 DEF Inv, QuarterHolds, Held, Today
<1>8. OthersRest' /\ SetupComesFirst' /\ ChecksOnlyRead' /\ OneCheck'
    BY <1>0, <1>2, <1>3, <1>4, <1>5 DEF Inv, Life, OthersRest, SetupComesFirst, ChecksOnlyRead, OneCheck
<1>9. NothingRests'
    <2>1. \A e \in Entries : Gone(e)' => Gone(e) /\ e # entry' /\ phase = "gone"
        BY <1>0, <1>2 DEF Gone
    <2> QED
        BY <1>0, <1>2, <1>4, <1>5, <2>1 DEF Inv, Life, NothingRests
<1> QED
    BY <1>6, <1>7, <1>8, <1>9 DEF Inv, Life
-----------------------------------------------------------------------------
(* The theorems *)

LEMMA InitInv == Init => Inv
<1> SUFFICES ASSUME Init PROVE Inv
    OBVIOUS
<1>1. Day(LastSlot) \in Nat /\ 0 \in 0..LastSlot /\ 1 \in Days /\ NoDay \in Days /\ 1 \in Entries
    <2>1. LastSlot \div SlotsPerDay \in Nat
        BY SlotsAssumption, DivMod
    <2> QED
        BY <2>1, SlotsAssumption, EntriesAssumption DEF Day, Days, NoDay, Entries
<1>2. NoData \in Data /\ Dated(NoData)
    <2>1. NoList \in Lists
        BY DEF Lists
    <2> QED
        BY <1>1, <2>1 DEF NoData, NoPrices, Data, Readings, Dated, NoList
<1>3. Idle \in TaskStates /\ At("load") \in TaskStates /\ Idle.pc = "idle" /\ At("load").pc = "load"
    BY TaskStatesHold DEF Idle, At
<1>4. Typed
    BY <1>1, <1>2, <1>3 DEF Init, Typed, TypeOK, ReadsOfADay, Data, Left, Never
<1>5. QuarterHolds
    BY <1>3 DEF Init, QuarterHolds, Held, Kinds
<1>6. Life
    BY <1>1, <1>3 DEF Init, Life, OthersRest, SetupComesFirst, ChecksOnlyRead, OneCheck,
                      NothingRests, Gone, Kinds, Entries
<1> QED
    BY <1>4, <1>5, <1>6 DEF Inv

LEMMA NextInv == Inv /\ [Next]_vars => Inv'
<1> SUFFICES ASSUME Inv, [Next]_vars PROVE Inv'
    OBVIOUS
<1>1. CASE UNCHANGED vars
    BY <1>1 DEF vars, Inv, Typed, TypeOK, ReadsOfADay, Dated, QuarterHolds, Held, Today, Life,
                OthersRest, SetupComesFirst, ChecksOnlyRead, OneCheck, NothingRests, Gone
<1>2. CASE Next
    BY <1>2, StepKeepsInv, RaisingKeepsInv, TimersKeepInv, WorldKeepsInv, SetupKeepsInv,
       UnloadKeepsInv, SetUpAgainKeepsInv DEF Next
<1> QED
    BY <1>1, <1>2

\* Every value is what its comment says, and a pending check is not overdue
\* (async_setup_entry, async_unload_entry and the handlers of updater.py).
THEOREM TypeCorrect == Spec => []TypeOK
<1>1. Inv => TypeOK
    BY DEF Inv, Typed
<1> QED
    BY InitInv, NextInv, <1>1, PTL DEF Spec

\* A loaded entry has exactly one check of tomorrow's prices, pending or under
\* way (schedule_tomorrow_check, _run).
THEOREM ExactlyOneCheck == Spec => []OneCheck
<1>1. Inv => OneCheck
    BY DEF Inv, Life
<1> QED
    BY InitInv, NextInv, <1>1, PTL DEF Spec

\* What an unloaded entry goes on with, it had under way (async_unload_entry).
THEOREM NothingElseSurvives == Spec => []OnlyWorkUnderWaySurvives
<1>1. Inv => OnlyWorkUnderWaySurvives
    BY DEF Inv, Life, NothingRests, OnlyWorkUnderWaySurvives
<1> QED
    BY InitInv, NextInv, <1>1, PTL DEF Spec

\* A slot is learned from at its own price, unless the read before failed
\* (new_quarter, async_read_prices).
THEOREM LearnsItsOwnPrice == Spec => []OnlyAFailedReadMislearns
<1>1. Inv => OnlyAFailedReadMislearns
    <2> SUFFICES ASSUME Inv, NEW e \in Entries, task[e]["quarter"].pc = "learn"
                 PROVE  LET l == task[e]["quarter"] IN
                        l.of # l.day => source = "dayahead" /\ ~l.ok
        BY DEF OnlyAFailedReadMislearns, Learning
    <2> QED
        BY DEF Inv, QuarterHolds, Held
<1> QED
    BY InitInv, NextInv, <1>1, PTL DEF Spec
-----------------------------------------------------------------------------
(* What the entry takes for tomorrow's prices, through every midnight *)

\* The market publishes a day's prices on the day before, from CheckStart on.
PublishedInTime ==
    /\ published <= Today + 1
    /\ now % SlotsPerDay < CheckStart => published <= Today

\* An entry has no prices before its setup.
NotYetSetUp == \A e \in Entries : e > entry => prices[e] = NoData

\* A read under way is today's, but for the one of a setup that met midnight.
ReadsInTime == \A k \in Kinds : task[entry][k].pc = "read" =>
    /\ task[entry][k].day <= Today
    /\ k # "setup" \/ ~missed[entry] => task[entry][k].day = Today

\* new_day starts and reads in the first slot of the day, once.
DayReads == task[entry]["day"].pc = "read"
MidnightsWork ==
    /\ "day" \in due \/ DayReads => now % SlotsPerDay = 0
    /\ DayReads => "day" \notin due

Times == PublishedInTime /\ NotYetSetUp /\ ReadsInTime /\ MidnightsWork

\* The setup reads alone, and first.
SetupReadsFirst ==
    task[entry]["setup"].pc \in {"load", "read"} =>
        prices[entry] = NoData /\ \A k \in Kinds \ {"setup"} : task[entry][k] = Idle

\* The list of tomorrow is of the day after the last read, and published; the
\* day-ahead source shows the list that the model has, unless new_day emptied it.
ListsAreDated(p) ==
    /\ p.shown.tomorrow.of \in {NoDay, p.shown.day + 1}
    /\ p.shown.tomorrow.of <= published
    /\ p.shown.day <= Today
    /\ source = "dayahead" => /\ p.shown.day = p.spot.day
                              /\ p.shown.tomorrow \in {p.spot.tomorrow, NoList}

\* Tomorrow is available when its list is full; new_day, while it reads, has
\* emptied the list and not yet reset the flag.
AvailableIsFull(p) ==
    /\ DayReads => p.shown.tomorrow = NoList /\ (p.available => p.shown.day < Today)
    /\ ~DayReads => (p.available <=> p.shown.tomorrow.full)

\* Once new_day began, the list of tomorrow is not the one of the day before.
Rotated(p) ==
    phase \in {"setup", "loaded"} /\ ~missed[entry] /\ "day" \notin due =>
        p.shown.tomorrow.of \in {NoDay, Today + 1}

\* The invariant, inductive relative to Inv.
Arrival ==
    /\ Times /\ SetupReadsFirst
    /\ ListsAreDated(prices[entry])
    /\ AvailableIsFull(prices[entry])
    /\ Rotated(prices[entry])

\* What ArrivesOnce says of a step.
Once == prices[entry].available /\ ~prices'[entry].available
           => prices[entry].shown.day < Today \/ phase = "gone"
-----------------------------------------------------------------------------
(* Days, slots and lists *)

LEMMA SameDay == ASSUME NEW a \in Nat, NEW n \in Nat \ {0}, (a + 1) % n # 0
                 PROVE  (a + 1) \div n = a \div n
    OBVIOUS

LEMMA NextDay == ASSUME NEW a \in Nat, NEW n \in Nat \ {0}, (a + 1) % n = 0
                 PROVE  (a + 1) \div n = a \div n + 1
    OBVIOUS

LEMMA ZeroSlot == ASSUME NEW n \in Nat \ {0} PROVE 0 \div n = 0 /\ 0 % n = 0
    OBVIOUS

LEMMA ListFacts ==
    ASSUME NEW l \in Lists
    PROVE  l.of \in Nat /\ l.full \in BOOLEAN /\ (l.of = NoDay <=> l = NoList)
<1>1. CASE l = NoList
    BY <1>1 DEF NoList, NoDay
<1>2. CASE l \in [of : Days \ {NoDay}, full : BOOLEAN]
    <2>1. l.of \in Days \ {NoDay} /\ l.full \in BOOLEAN
        BY <1>2
    <2>2. l # NoList
        BY <2>1 DEF NoList
    <2> QED
        BY <2>1, <2>2, DaysAreNumbers
<1> QED
    BY <1>1, <1>2 DEF Lists

LEMMA NoListIsEmpty == NoList.of = NoDay /\ NoList.full = FALSE /\ NoList \in Lists
    BY DEF NoList, Lists

LEMMA Typing ==
    ASSUME Inv
    PROVE  /\ Typed /\ TypeOK /\ entry \in Entries /\ Entries \subseteq Nat
           /\ task \in Tasks /\ prices \in [Entries -> Data] /\ prices[entry] \in Data
           /\ now \in 0..LastSlot /\ now \in Nat /\ Today \in Days \ {NoDay} /\ Today \in Nat
           /\ published \in Nat /\ published \in Days
           /\ now % SlotsPerDay \in Nat
           /\ {"check", "setup", "quarter", "day"} \subseteq Kinds
<1>1. Typed /\ TypeOK /\ entry \in Entries /\ task \in Tasks /\ prices \in [Entries -> Data]
      /\ now \in 0..LastSlot /\ published \in Days
    BY DEF Inv, Typed, TypeOK, Tasks, Data
<1>2. Today \in Days \ {NoDay} /\ Days \subseteq Nat
    BY <1>1, TodayIsADay
<1>3. now % SlotsPerDay \in Nat
    BY <1>1, SlotsAssumption, DivMod
<1> QED
    BY <1>1, <1>2, <1>3, EntriesAssumption DEF Entries, Kinds

LEMMA ReadingsHaveLists ==
    ASSUME NEW p \in Data
    PROVE  /\ p.shown.tomorrow \in Lists /\ p.spot.tomorrow \in Lists /\ p.shown.today \in Lists
           /\ p.shown.day \in Nat /\ p.available \in BOOLEAN
           /\ p.shown \in Readings
    BY DaysAreNumbers DEF Data, Readings

\* In the first slot of a day nothing of the next one is published.
LEMMA NothingOfTomorrowYet ==
    ASSUME Inv, PublishedInTime, now % SlotsPerDay = 0, NEW l \in Lists,
           l.of \in {NoDay, Today + 1}, l.of <= published
    PROVE  l = NoList
<1>1. published <= Today
    BY Typing, SlotsAssumption DEF PublishedInTime
<1> QED
    BY <1>1, ListFacts, Typing
-----------------------------------------------------------------------------
(* The handlers *)

\* With the prices read a handler goes on to a state that is no read.
LEMMA WithPricesGoesOn ==
    ASSUME task \in Tasks, NEW e \in Entries, NEW k \in Kinds, NEW p, NEW ok,
           WithPrices(e, k, p, ok)
    PROVE  task'[e][k].pc \notin {"read", "load"}
<1>1. "refresh" \in Kinds
    BY DEF Kinds
<1>2. CASE k = "quarter"
    BY <1>2 DEF WithPrices, Goes, Tasks, Snapshot
<1>3. CASE k = "day"
    BY <1>3 DEF WithPrices, Goes, Tasks, At
<1>4. CASE k = "check"
    BY <1>1, <1>4 DEF WithPrices, GoesAndRefreshes, Tasks, Idle
<1>5. CASE k \notin {"quarter", "day", "check"}
    <2>1. task' = [task EXCEPT ![e][k] = At("weather")]
        BY <1>5 DEF WithPrices, Goes
    <2> QED
        BY <2>1 DEF Tasks, At
<1> QED
    BY <1>2, <1>3, <1>4, <1>5

\* While the setup reads, no other handler is active.
LEMMA SetupIsAlone ==
    ASSUME Inv, SetupReadsFirst, NEW k \in Kinds, Active(entry, k),
           task[entry]["setup"].pc \in {"load", "read"}
    PROVE  k = "setup"
<1>1. phase = "setup"
    BY DEF Idle, Inv, Life, SetupComesFirst
<1>2. pending[entry] = Never
    BY <1>1 DEF Inv, Life, SetupComesFirst
<1> QED
    BY <1>1, <1>2 DEF Active, SetupReadsFirst

\* A handler that leaves new_day's read to new_day keeps the times.
LEMMA HandledKeepsTimes ==
    ASSUME Inv, Times, NEW k \in Kinds, Handled(entry, k), Apart(entry),
           \A e \in Entries : e # entry => prices'[e] = prices[e],
           k = "day" /\ DayReads' => now % SlotsPerDay = 0 /\ "day" \notin due'
    PROVE  Times'
<1>0. UNCHANGED <<source, now, published, entry, phase, missed>> /\ due' \subseteq due
    BY DEF Apart, world
<1>1. Today' = Today /\ Reading.day = Today
    BY <1>0 DEF Today, Reading
<1>2. PublishedInTime'
    BY <1>0, <1>1 DEF Times, PublishedInTime
<1>3. NotYetSetUp'
    BY <1>0, Typing DEF Times, NotYetSetUp
<1>4. ReadsInTime'
    <2>1. \A j \in Kinds : task'[entry][j].pc = "read" =>
              task'[entry][j] = task[entry][j] \/ task'[entry][j] = Reading
        BY DEF Handled
    <2> QED
        BY <1>0, <1>1, <2>1, Typing DEF Times, ReadsInTime
<1>5. MidnightsWork'
    <2>1. k # "day" => task'[entry]["day"] = task[entry]["day"]
        BY Typing DEF Handled
    <2> QED
        BY <1>0, <2>1 DEF Times, MidnightsWork, DayReads
<1> QED
    BY <1>2, <1>3, <1>4, <1>5 DEF Times

\* What a read of the prices must leave, for the handler k to keep the
\* invariant: p is the entry's data as the read left it.
Timely(k, p) ==
    /\ p \in Data /\ Dated(p) /\ ListsAreDated(p)
    /\ k = "day" \/ DayReads => p.shown.tomorrow = NoList
    /\ Rotated(p)
    /\ prices[entry].available /\ prices[entry].shown.day >= Today =>
          k # "day" /\ p.shown.tomorrow.full

LEMMA TakingKeepsArrival ==
    ASSUME Inv, Arrival, NEW k \in Kinds, NEW p, NEW ok \in BOOLEAN,
           Active(entry, k), Handled(entry, k), Apart(entry), "day" \in due /\ "day" \notin due' => k = "day",
           WithPrices(entry, k, p, ok), Timely(k, p)
    PROVE  Arrival' /\ Once
<1>q. PICK q : q = IF k = "day" THEN [p EXCEPT !.available = FALSE] ELSE Available(p)
    OBVIOUS
<1>0. UNCHANGED <<source, now, published, entry, phase, missed>> /\ due' \subseteq due
    BY DEF Apart, world
<1>1. p \in Data /\ p.shown.tomorrow \in Lists /\ p.shown.day \in Nat
      /\ p.shown.tomorrow.full \in BOOLEAN
    BY ReadingsHaveLists, ListFacts DEF Timely
<1>2. /\ q.shown = p.shown /\ q.spot = p.spot
      /\ k = "day" => q.available = FALSE
      /\ k # "day" => q.available = p.shown.tomorrow.full
    BY <1>1, <1>q DEF Available, Data
<1>3. prices' = [prices EXCEPT ![entry] = q]
    BY <1>q DEF WithPrices
<1>4. prices'[entry] = q /\ \A e \in Entries : e # entry => prices'[e] = prices[e]
    BY <1>3, Typing
<1>5. task'[entry][k].pc \notin {"read", "load"}
    BY Typing, WithPricesGoesOn
<1>6. Today' = Today /\ k \in Kinds /\ entry \in Entries
    BY <1>0, Typing DEF Today
<1>7. k # "day" => task'[entry]["day"] = task[entry]["day"]
    BY Typing DEF Handled
<1>8. k = "day" => ~DayReads'
    BY <1>0, <1>5 DEF DayReads
<1>9. Times'
    BY <1>4, <1>8, HandledKeepsTimes DEF Arrival
<1>10. SetupReadsFirst'
    BY <1>0, <1>5, SetupIsAlone, Typing DEF Arrival, Handled, SetupReadsFirst
<1>11. ListsAreDated(q)'
    BY <1>0, <1>2, <1>6 DEF Timely, ListsAreDated
<1>12. AvailableIsFull(q)'
    <2>1. CASE DayReads'
        <3>1. k # "day" /\ DayReads
            BY <1>0, <1>7, <1>8, <2>1 DEF DayReads
        <3>2. q.shown.tomorrow = NoList /\ ~q.available
            BY <1>2, <3>1, NoListIsEmpty DEF Timely
        <3> QED
            BY <2>1, <3>2 DEF AvailableIsFull
    <2>2. CASE ~DayReads'
        <3>1. q.available <=> q.shown.tomorrow.full
            <4>1. CASE k = "day"
                <5>1. p.shown.tomorrow = NoList
                    BY <4>1 DEF Timely
                <5> QED
                    BY <1>2, <4>1, <5>1, NoListIsEmpty, Zenon
            <4>2. CASE k # "day"
                BY <1>2, <4>2
            <4> QED
                BY <4>1, <4>2
        <3> QED
            BY <2>2, <3>1 DEF AvailableIsFull
    <2> QED
        BY <2>1, <2>2
<1>13. Rotated(q)'
    BY <1>0, <1>2, <1>6, NoListIsEmpty DEF Timely, Rotated
<1>14. Once
    BY <1>1, <1>2, <1>4, Typing, ReadingsHaveLists DEF Timely, Once
<1> QED
    BY <1>0, <1>4, <1>9, <1>10, <1>11, <1>12, <1>13, <1>14 DEF Arrival
-----------------------------------------------------------------------------
(* The reads *)

\* What a source gives of a day is published.
LEMMA GivenIsPublished ==
    ASSUME published \in Days, NEW d \in Nat \ {0}, NEW fulls \in SUBSET BOOLEAN,
           NEW x \in Given(d, fulls)
    PROVE  x \in Lists /\ x.of \in {NoDay, d} /\ x.of <= published
<1>0. x \in Lists /\ (x = NoList \/ x.of = d)
    BY GivenIsAList
<1>1. published \in Nat
    BY DaysAreNumbers
<1>2. CASE x = NoList
    BY <1>0, <1>1, <1>2, NoListIsEmpty DEF NoDay
<1>3. CASE x # NoList
    <2>1. PICK full \in (IF d <= published THEN fulls ELSE {}) : x = List(d, full)
        BY <1>3 DEF Given
    <2> QED
        BY <1>0, <1>3, <2>1
<1> QED
    BY <1>2, <1>3

\* Two lists of a day put together are of that day, and full if one is.
LEMMA MergedIsOfTheDay ==
    ASSUME NEW d \in Nat, NEW a \in Lists, NEW b \in Lists, NEW n \in Nat,
           a.of \in {NoDay, d}, b.of \in {NoDay, d}, a.of <= n, b.of <= n
    PROVE  LET m == Merged(a, b) IN
           /\ m \in Lists /\ m.of \in {NoDay, d} /\ m.of <= n
           /\ b.full => m.full
<1>1. Merged(a, b) \in Lists
    BY MergedIsAList
<1>2. CASE a = NoList
    BY <1>1, <1>2 DEF Merged
<1>3. CASE a # NoList
    <2>1. Merged(a, b) = [of |-> a.of, full |-> a.full \/ b.full]
        BY <1>3 DEF Merged, List
    <2>2. Merged(a, b).of = a.of /\ Merged(a, b).full = (a.full \/ b.full)
        BY <2>1
    <2>3. b.full => Merged(a, b).full
        BY <2>2, Zenon
    <2> QED
        BY <1>1, <2>2, <2>3
<1> QED
    BY <1>2, <1>3

LEMMA SensorReadIsTimely ==
    ASSUME Inv, Arrival, NEW k \in Kinds, source = "sensors", k = "day" => now % SlotsPerDay = 0,
           NEW shown \in Read(Today, BOOLEAN), NEW spot \in Read(Today, {TRUE})
    PROVE  Timely(k, SensorRead(prices[entry], shown, spot))
<1>q. PICK q : q = SensorRead(prices[entry], shown, spot)
    OBVIOUS
<1>p. PICK p : p = prices[entry]
    OBVIOUS
<1>0. p \in Data /\ ListsAreDated(p) /\ AvailableIsFull(p)
      /\ p.shown.tomorrow \in Lists /\ p.shown.day \in Nat /\ p.available \in BOOLEAN
      /\ p.shown.tomorrow.of \in Nat
    BY <1>p, Typing, ReadingsHaveLists, ListFacts DEF Arrival
<1>1. ~DayReads
    BY Typing DEF Typed, ReadsOfADay, DayReads
<1>2. q \in Data /\ Dated(q)
    BY <1>q, <1>p, <1>0, Typing, SensorReadIsData
<1>3. /\ shown.day = Today /\ shown.tomorrow \in Lists
      /\ shown.tomorrow.of \in {NoDay, Today + 1} /\ shown.tomorrow.of <= published
    <2>1. shown.day = Today /\ shown.tomorrow \in Given(Today + 1, BOOLEAN)
        BY DEF Read
    <2> QED
        BY <2>1, Typing, GivenIsPublished
<1>4. CASE shown.today = NoList /\ p.shown = NoPrices
    <2>1. q.shown = NoPrices
        BY <1>q, <1>p, <1>0, <1>4 DEF SensorRead, Data
    <2>2. q.shown.tomorrow = NoList /\ q.shown.day = NoDay /\ p.shown.tomorrow = NoList
        BY <1>4, <2>1 DEF NoPrices
    <2>3. ListsAreDated(q)
        BY <2>2, Typing, NoListIsEmpty DEF ListsAreDated, NoDay
    <2>4. ~p.available
        BY <1>0, <1>1, <2>2, NoListIsEmpty DEF AvailableIsFull
    <2> QED
        BY <1>q, <1>p, <1>2, <2>2, <2>3, <2>4, NoListIsEmpty DEF Timely, Rotated
<1>5. CASE ~(shown.today = NoList /\ p.shown = NoPrices)
    <2>1. q.shown = CarryOver(p.shown, shown)
        BY <1>q, <1>p, <1>0, <1>5 DEF SensorRead, Data
    <2>2. PICK old : old = Kept(p.shown, Today + 1)
        OBVIOUS
    <2>3. /\ old \in Lists /\ old.of \in {NoDay, Today + 1} /\ old.of <= published
          /\ p.shown.day = Today => old = p.shown.tomorrow
        <3>1. p.shown.day <= Today
            BY <1>0 DEF ListsAreDated
        <3>2. CASE p.shown.day = Today
            BY <1>0, <2>2, <3>2, Typing DEF Kept, ListsAreDated
        <3>3. CASE p.shown.day # Today
            <4>1. old = NoList
                BY <1>0, <2>2, <3>1, <3>3, Typing DEF Kept
            <4> QED
                BY <3>3, <4>1, NoListIsEmpty, Typing DEF NoDay
        <3> QED
            BY <3>2, <3>3
    <2>4. q.shown.day = Today /\ q.shown.tomorrow = Merged(shown.tomorrow, old)
        BY <1>3, <2>1, <2>2 DEF CarryOver
    <2>5. /\ q.shown.tomorrow \in Lists
          /\ q.shown.tomorrow.of \in {NoDay, Today + 1} /\ q.shown.tomorrow.of <= published
          /\ old.full => q.shown.tomorrow.full
        BY <1>3, <2>3, <2>4, Typing, MergedIsOfTheDay
    <2>6. ListsAreDated(q)
        BY <2>4, <2>5, Typing DEF ListsAreDated
    <2>7. k = "day" => q.shown.tomorrow = NoList
        BY <2>5, NothingOfTomorrowYet DEF Arrival, Times
    <2>8. p.available /\ p.shown.day >= Today => k # "day" /\ q.shown.tomorrow.full
        <3> SUFFICES ASSUME p.available, p.shown.day >= Today
                     PROVE  k # "day" /\ q.shown.tomorrow.full
            OBVIOUS
        <3>1. p.shown.day = Today /\ p.shown.tomorrow.full
            BY <1>0, <1>1, Typing DEF ListsAreDated, AvailableIsFull
        <3>2. q.shown.tomorrow.full
            BY <2>3, <2>5, <3>1
        <3>3. k # "day"
            BY <2>7, <3>2, NoListIsEmpty
        <3> QED
            BY <3>2, <3>3
    <2> QED
        BY <1>q, <1>p, <1>1, <1>2, <2>5, <2>6, <2>7, <2>8 DEF Timely, Rotated
<1> QED
    BY <1>4, <1>5

LEMMA DayAheadReadIsTimely ==
    ASSUME Inv, Arrival, NEW k \in Kinds, task[entry][k].pc = "read",
           NEW read \in Read(task[entry][k].day, BOOLEAN),
           read.day = prices[entry].spot.day =>
               Merged(read.tomorrow, prices[entry].spot.tomorrow) = read.tomorrow
    PROVE  Timely(k, DayAheadRead(prices[entry], read))
<1>q. PICK q : q = DayAheadRead(prices[entry], read)
    OBVIOUS
<1>p. PICK p : p = prices[entry]
    OBVIOUS
<1>d. PICK d : d = task[entry][k].day
    OBVIOUS
<1>0. p \in Data /\ ListsAreDated(p) /\ AvailableIsFull(p) /\ Rotated(p) /\ Dated(p)
      /\ p.shown.tomorrow \in Lists /\ p.shown.day \in Nat /\ p.available \in BOOLEAN
    BY <1>p, Typing, ReadingsHaveLists DEF Arrival, Typed
<1>1. source = "dayahead" /\ d \in Days \ {NoDay} /\ d \in Nat /\ d + 1 \in Nat \ {0}
    <2>1. source = "dayahead" /\ d # NoDay
        BY <1>d, Typing DEF Typed, ReadsOfADay
    <2>2. task[entry][k] \in TaskStates
        BY Typing DEF Tasks
    <2>3. d \in Days
        BY <1>d, <2>2 DEF TaskStates, Idle
    <2> QED
        BY <2>1, <2>3, DaysAreNumbers
<1>2. d <= Today /\ (k # "setup" \/ ~missed[entry] => d = Today)
    BY <1>d DEF Arrival, Times, ReadsInTime
<1>3. /\ read.day = d /\ read.tomorrow \in Lists
      /\ read.tomorrow.of \in {NoDay, d + 1} /\ read.tomorrow.of <= published
    <2>1. read.day = d /\ read.tomorrow \in Given(d + 1, BOOLEAN)
        BY <1>d DEF Read
    <2> QED
        BY <1>1, <2>1, Typing, GivenIsPublished
<1>4. q \in Data /\ Dated(q)
    BY <1>q, <1>p, <1>d, <1>0, <1>1, Typing, DayAheadReadIsData
<1>5. k = "day" => DayReads
    BY DEF DayReads
<1>6. CASE read.today = NoList
    <2>1. q = p
        BY <1>q, <1>p, <1>6 DEF DayAheadRead
    <2>2. p.available /\ p.shown.day >= Today => ~DayReads /\ p.shown.tomorrow.full
        BY <1>0, Typing DEF AvailableIsFull
    <2> QED
        BY <1>q, <1>p, <1>0, <1>5, <2>1, <2>2 DEF Timely, AvailableIsFull
<1>7. CASE read.today # NoList
    <2>1. q.shown = read /\ q.spot = read
        BY <1>q, <1>p, <1>0, <1>7 DEF DayAheadRead, Data
    <2>2. ListsAreDated(q)
        BY <1>2, <1>3, <2>1 DEF ListsAreDated
    <2>3. k = "setup" => prices[entry] = NoData /\ ~DayReads
        <3>1. k = "setup" => prices[entry] = NoData /\ task[entry]["day"] = Idle
            BY Typing DEF Arrival, SetupReadsFirst
        <3> QED
            BY <3>1 DEF DayReads, Idle
    <2>4. k = "day" \/ DayReads => q.shown.tomorrow = NoList
        BY <1>2, <1>3, <1>5, <2>1, <2>3, NothingOfTomorrowYet DEF Arrival, Times, MidnightsWork
    <2>5. Rotated(q)
        BY <1>2, <1>3, <2>1 DEF Rotated
    <2>6. p.available /\ p.shown.day >= Today => k # "day" /\ q.shown.tomorrow.full
        <3> SUFFICES ASSUME p.available, p.shown.day >= Today
                     PROVE  k # "day" /\ q.shown.tomorrow.full
            OBVIOUS
        <3>1. k # "setup" /\ d = Today
            BY <1>p, <1>2, <2>3 DEF NoData
        <3>2. ~DayReads /\ p.shown.tomorrow.full /\ p.shown.day = Today
            BY <1>0, Typing DEF AvailableIsFull, ListsAreDated
        <3>3. p.shown.tomorrow = p.spot.tomorrow /\ p.spot.day = Today
            BY <1>0, <1>1, <3>2, NoListIsEmpty DEF ListsAreDated
        <3>4. Merged(read.tomorrow, p.shown.tomorrow) = read.tomorrow
            BY <1>p, <1>3, <3>1, <3>3
        <3>5. read.tomorrow.full
            BY <1>0, <1>3, <3>2, <3>4, ListFacts, MergedIsOfTheDay, Typing DEF Merged, List
        <3> QED
            BY <1>5, <2>1, <3>2, <3>5
    <2> QED
        BY <1>q, <1>p, <1>4, <2>2, <2>4, <2>5, <2>6 DEF Timely
<1> QED
    BY <1>6, <1>7
-----------------------------------------------------------------------------
(* The steps *)

LEMMA BeginKeepsArrival ==
    ASSUME Inv, Arrival, NEW k \in Kinds, NEW checks,
           checks = IF k = "check" THEN [pending EXCEPT ![entry] = Never] ELSE pending,
           Begin(entry, k, checks), Active(entry, k), Apart(entry),
           k = "day" => "day" \in due /\ "day" \notin due',
           k = "setup" => task[entry][k].pc = "load",
           "day" \in due /\ "day" \notin due' => k = "day"
    PROVE  Arrival' /\ Once
<1>0. UNCHANGED <<source, now, published, entry, phase, missed>> /\ due' \subseteq due
    BY DEF Apart, world
<1>1. Handled(entry, k) /\ (k = "day" => now % SlotsPerDay = 0)
    BY Typing, BeginHandles DEF Arrival, Times, MidnightsWork
<1>2. ASSUME source = "sensors",
             NEW shown \in Read(Today, BOOLEAN), NEW spot \in Read(Today, {TRUE}),
             WithPrices(entry, k, SensorRead(prices[entry], shown, spot), TRUE)
      PROVE  Arrival' /\ Once
    BY <1>1, <1>2, SensorReadIsTimely, TakingKeepsArrival
<1>3. CASE /\ source = "dayahead" /\ Goes(entry, k, Reading)
           /\ prices' = IF k = "day" THEN [prices EXCEPT ![entry].shown.tomorrow = NoList]
                                     ELSE prices
    <2>p. PICK p : p = prices[entry]
        OBVIOUS
    <2>q. PICK q : q = IF k = "day" THEN [p EXCEPT !.shown.tomorrow = NoList] ELSE p
        OBVIOUS
    <2>0. p \in Data /\ ListsAreDated(p) /\ AvailableIsFull(p) /\ Rotated(p)
          /\ p.shown.tomorrow \in Lists /\ p.shown.day \in Nat /\ p.available \in BOOLEAN
        BY <2>p, Typing, ReadingsHaveLists DEF Arrival
    <2>1. prices' = [prices EXCEPT ![entry] = q]
        BY <1>3, <2>p, <2>q, Typing
    <2>2. prices'[entry] = q /\ \A e \in Entries : e # entry => prices'[e] = prices[e]
        BY <2>1, Typing
    <2>3. task' = [task EXCEPT ![entry][k] = Reading] /\ Today' = Today
        BY <1>0, <1>3 DEF Goes, Today
    <2>4. Times'
        BY <1>0, <1>1, <2>2, HandledKeepsTimes DEF Arrival
    <2>5. SetupReadsFirst'
        <3>1. \A j \in Kinds \ {k} : task'[entry][j] = task[entry][j]
            BY <2>3, Typing DEF Tasks
        <3> QED
            BY <1>0, <2>2, <2>p, <2>q, <3>1, SetupIsAlone, Typing DEF Arrival, SetupReadsFirst
    <2>6. CASE k = "day"
        <3>1. /\ q.shown.tomorrow = NoList /\ q.shown.day = p.shown.day
              /\ q.spot = p.spot /\ q.available = p.available
            BY <2>q, <2>0, <2>6 DEF Data, Readings
        <3>2. DayReads' /\ ~DayReads
            BY <1>0, <2>3, <2>6, Typing DEF Tasks, Reading, Arrival, Times, MidnightsWork, DayReads
        <3>3. p.available => p.shown.day < Today
            <4> SUFFICES ASSUME p.available, p.shown.day >= Today PROVE FALSE
                BY <2>0, Typing
            <4>1. p.shown.day = Today /\ p.shown.tomorrow.full
                BY <2>0, <3>2, Typing DEF ListsAreDated, AvailableIsFull
            <4>2. p.shown.tomorrow = NoList
                BY <1>1, <2>0, <2>6, <4>1, NothingOfTomorrowYet DEF ListsAreDated, Arrival, Times
            <4> QED
                BY <4>1, <4>2, NoListIsEmpty
        <3>4. ListsAreDated(q)'
            BY <1>0, <2>0, <2>3, <3>1, Typing, NoListIsEmpty DEF ListsAreDated, NoDay
        <3>5. AvailableIsFull(q)' /\ Rotated(q)'
            BY <2>3, <3>1, <3>2, <3>3, NoListIsEmpty DEF AvailableIsFull, Rotated
        <3>6. Once
            BY <2>2, <2>p, <3>1 DEF Once
        <3> QED
            BY <1>0, <2>2, <2>4, <2>5, <3>4, <3>5, <3>6 DEF Arrival
    <2>7. CASE k # "day"
        <3>1. q = p
            BY <2>q, <2>7
        <3>2. DayReads' = DayReads /\ ("day" \in due' <=> "day" \in due)
            BY <1>0, <2>3, <2>7, Typing DEF Tasks, DayReads
        <3>3. ListsAreDated(q)' /\ AvailableIsFull(q)' /\ Rotated(q)'
            BY <1>0, <2>0, <2>3, <3>1, <3>2 DEF ListsAreDated, AvailableIsFull, Rotated
        <3>4. Once
            BY <2>2, <2>p, <3>1 DEF Once
        <3> QED
            BY <1>0, <2>2, <2>4, <2>5, <3>3, <3>4 DEF Arrival
    <2> QED
        BY <2>6, <2>7
<1> QED
    BY <1>2, <1>3 DEF Begin

\* A step that leaves the prices, the time and the reads alone.
LEMMA RestKeepsArrival ==
    ASSUME Inv, Arrival, UNCHANGED <<source, now, published, entry, missed, prices>>,
           \A k \in Kinds : task'[entry][k].pc = "read" => task'[entry][k] = task[entry][k],
           DayReads' <=> DayReads,
           task'[entry]["setup"].pc \notin {"load", "read"},
           "day" \in due' => "day" \in due,
           phase' \in {"setup", "loaded"} =>
               phase \in {"setup", "loaded"} /\ ("day" \in due => "day" \in due')
    PROVE  Arrival' /\ Once
<1>1. Today' = Today
    BY DEF Today
<1>2. Times'
    BY <1>1 DEF Arrival, Times, PublishedInTime, NotYetSetUp, ReadsInTime, MidnightsWork
<1>3. SetupReadsFirst'
    BY DEF SetupReadsFirst
<1>4. ListsAreDated(prices[entry])' /\ AvailableIsFull(prices[entry])' /\ Rotated(prices[entry])'
    BY <1>1 DEF Arrival, ListsAreDated, AvailableIsFull, Rotated
<1> QED
    BY <1>2, <1>3, <1>4 DEF Arrival, Once

\* A handler that goes on without a read.
LEMMA GoingOnKeepsArrival ==
    ASSUME Inv, Arrival, NEW k \in Kinds, NEW state, state.pc \notin {"load", "read"},
           Active(entry, k), k = "day" => ~DayReads,
           k = "setup" => task[entry][k].pc \notin {"load", "read"},
           UNCHANGED <<source, now, published, entry, phase, missed, prices>>,
           "day" \in due' <=> "day" \in due,
           \/ task' = [task EXCEPT ![entry][k] = state]
           \/ task' = [task EXCEPT ![entry][k] = state, ![entry]["refresh"] = At("start")]
           \/ task' = [task EXCEPT ![entry][k] = state, ![entry]["backfill"] = At("fetch")]
    PROVE  Arrival' /\ Once
<1>1. At("start").pc = "start" /\ At("fetch").pc = "fetch"
    BY DEF At
<1>2. \A j \in Kinds : \/ task'[entry][j] = task[entry][j] /\ j # k
                       \/ task'[entry][j] \in {state, At("start"), At("fetch")}
                          /\ j \in {k, "refresh", "backfill"}
    BY Typing DEF Tasks
<1>3. \A j \in Kinds : task'[entry][j].pc = "read" => task'[entry][j] = task[entry][j]
    BY <1>1, <1>2
<1>4. DayReads' <=> DayReads
    BY <1>1, <1>2, Typing DEF DayReads
<1>5. task'[entry]["setup"].pc \notin {"load", "read"}
    BY <1>1, <1>2, SetupIsAlone, Typing DEF Arrival
<1> QED
    BY <1>3, <1>4, <1>5, RestKeepsArrival

\* Who acts is of the entry set up last.
LEMMA ActiveIsLast == ASSUME Inv, NEW e \in Entries, NEW k \in Kinds, Active(e, k) PROVE e = entry
    BY DEF Inv, Life, Active, OthersRest

LEMMA StepKeepsArrival ==
    ASSUME Inv, Arrival, NEW e \in Entries, NEW k \in Kinds, Step(e, k)
    PROVE  Arrival' /\ Once
<1>0. /\ Typed /\ TypeOK /\ task \in Tasks /\ prices \in [Entries -> Data] /\ Dated(prices[e])
      /\ task[e][k] \in TaskStates
      /\ now \in 0..LastSlot /\ task[e]["check"].pc \in {"idle", "read"}
      /\ {"quarter", "day", "backfill", "refresh"} \subseteq Kinds
      /\ forecast \in [Entries -> Days] /\ overtaken \in [Entries -> BOOLEAN] /\ failures \in Nat
    BY Typing DEF Inv, Typed, TypeOK, Tasks, Data, Life, ChecksOnlyRead, Kinds
<1>1. Idle.pc = "idle"
    BY DEF Idle
<1>2. task[e][k].pc # "idle"
    BY <1>1 DEF Step, ReadEnds, WeatherEnds, PredictEnds, SnapshotEnds, LearnEnds, PruneEnds,
                BackfillEnds, RefreshStarts
<1>3. Active(e, k) /\ e = entry
    BY <1>1, <1>2, ActiveIsLast DEF Active
<1>4. CASE ReadEnds(e, k)
    <2>1. PICK read \in Read(task[e][k].day, BOOLEAN) :
             /\ read.day = prices[e].spot.day =>
                   Merged(read.tomorrow, prices[e].spot.tomorrow) = read.tomorrow
             /\ WithPrices(e, k, DayAheadRead(prices[e], read), read.today # NoList)
        BY <1>4 DEF ReadEnds
    <2>2. task[e][k].pc = "read" /\ source = "dayahead" /\ task[e][k].day \in Days \ {NoDay}
        <3>1. task[e][k].pc = "read" /\ source = "dayahead" /\ task[e][k].day # NoDay
            BY <1>0, <1>4 DEF ReadEnds, Typed, ReadsOfADay
        <3> QED
            BY <1>0, <3>1 DEF TaskStates, Idle
    <2>3. DayAheadRead(prices[e], read) \in Data /\ Dated(DayAheadRead(prices[e], read))
          /\ (read.today # NoList => DayAheadRead(prices[e], read).spot.today.of = task[e][k].day)
        BY <1>0, <2>2, DayAheadReadIsData
    <2>4. k = "quarter" => task[e][k].day = Today
        BY <2>2 DEF Inv, QuarterHolds, Held
    <2>5. Handled(e, k)
        BY <1>0, <2>1, <2>2, <2>3, <2>4, WithPricesHandles
    <2>6. Apart(e) /\ due' = due
        BY <1>0, <1>4 DEF ReadEnds, UsesDatabase, Apart, forecasts
    <2>7. Timely(k, DayAheadRead(prices[e], read))
        BY <1>3, <2>1, <2>2, DayAheadReadIsTimely
    <2> QED
        BY <1>3, <2>1, <2>5, <2>6, <2>7, TakingKeepsArrival
<1>5. CASE WeatherEnds(e, k)
    <2> DEFINE state == [pc |-> "predict", knownTo |-> KnownTo(prices[e])]
    <2>1. /\ state.pc \notin {"load", "read"} /\ task[e][k].pc = "weather"
          /\ task' = [task EXCEPT ![e][k] = state]
          /\ UNCHANGED <<source, now, published, entry, phase, missed, due, prices>>
        BY <1>5 DEF WeatherEnds, Goes, life, world
    <2> HIDE DEF state
    <2> QED
        BY <1>3, <2>1, GoingOnKeepsArrival DEF DayReads
<1>6. CASE PredictEnds(e, k)
    <2>1. /\ task[e][k].pc = "predict" /\ task' = [task EXCEPT ![e][k] = Idle]
          /\ UNCHANGED <<source, now, published, entry, phase, missed, due, prices>>
        BY <1>6 DEF PredictEnds, Goes, life, world
    <2> QED
        BY <1>1, <1>3, <2>1, GoingOnKeepsArrival DEF DayReads
<1>7. CASE k = "quarter" /\ (SnapshotEnds(e) \/ LearnEnds(e))
    <2>1. PICK state : /\ state.pc \notin {"load", "read"}
                       /\ \/ task' = [task EXCEPT ![e][k] = state]
                          \/ task' = [task EXCEPT ![e][k] = state, ![e]["refresh"] = At("start")]
        <3>1. \E arrived : /\ \/ Goes(e, k, Idle) \/ GoesAndRefreshes(e, k, Idle, arrived)
                              \/ Goes(e, k, [pc |-> "learn", day |-> Today,
                                             of |-> task[e]["quarter"].list.of,
                                             ok |-> task[e]["quarter"].ok,
                                             arrived |-> task[e]["quarter"].arrived])
            BY <1>7 DEF SnapshotEnds, LearnEnds
        <3>2. ASSUME NEW arrived, GoesAndRefreshes(e, k, Idle, arrived)
              PROVE  \/ task' = [task EXCEPT ![e][k] = Idle]
                     \/ task' = [task EXCEPT ![e][k] = Idle, ![e]["refresh"] = At("start")]
            BY <1>0, <1>7, <3>2 DEF GoesAndRefreshes, Tasks
        <3> QED
            BY <1>1, <3>1, <3>2 DEF Goes
    <2>2. UNCHANGED <<source, now, published, entry, phase, missed, due, prices>>
        BY <1>7 DEF SnapshotEnds, LearnEnds, life, world
    <2> QED
        BY <1>3, <1>7, <2>1, <2>2, GoingOnKeepsArrival
<1>8. CASE k = "day" /\ PruneEnds(e)
    <2>1. /\ task[e][k].pc = "prune"
          /\ task' = [task EXCEPT ![e][k] = Idle, ![e]["backfill"] = At("fetch")]
          /\ UNCHANGED <<source, now, published, entry, phase, missed, due, prices>>
        BY <1>8 DEF PruneEnds, life, world
    <2> QED
        BY <1>1, <1>3, <1>8, <2>1, GoingOnKeepsArrival DEF DayReads
<1>9. CASE k = "backfill" /\ BackfillEnds(e)
    <2>1. Apart(e) /\ due' = due
        BY <1>0, <1>9 DEF BackfillEnds, UsesDatabase, Apart, forecasts
    <2>2. CASE Goes(e, k, Idle) /\ UNCHANGED <<prices, pending>>
        BY <1>1, <1>3, <1>9, <2>1, <2>2, GoingOnKeepsArrival DEF Goes, Apart, world
    <2>3. CASE Begin(e, k, pending)
        BY <1>3, <1>9, <2>1, <2>3, BeginKeepsArrival
    <2> QED
        BY <1>9, <2>2, <2>3 DEF BackfillEnds
<1>10. CASE k = "refresh" /\ RefreshStarts(e)
    <2>1. Apart(e) /\ due' = due
        BY <1>0, <1>10 DEF RefreshStarts, Apart, forecasts
    <2> QED
        BY <1>3, <1>10, <2>1, BeginKeepsArrival DEF RefreshStarts
<1> QED
    BY <1>4, <1>5, <1>6, <1>7, <1>8, <1>9, <1>10 DEF Step

LEMMA RaisingKeepsArrival ==
    ASSUME Inv, Arrival, NEW e \in Entries, NEW k \in Kinds, ForecastRaises(e, k)
    PROVE  Arrival' /\ Once
<1>1. Idle.pc = "idle" /\ task[e][k].pc \in {"weather", "predict"}
      /\ task' = [task EXCEPT ![e][k] = Idle]
      /\ UNCHANGED <<source, now, published, entry, phase, missed, due, prices>>
    BY DEF ForecastRaises, Goes, life, world, Idle
<1>2. Active(e, k) /\ e = entry
    BY <1>1, ActiveIsLast DEF Active
<1> QED
    BY <1>1, <1>2, GoingOnKeepsArrival DEF DayReads

LEMMA TimersKeepArrival ==
    ASSUME Inv, Arrival,
           \/ \E k \in Kinds : Fire(k)
           \/ \E e \in Entries : CheckFires(e)
           \/ SetupLoads
    PROVE  Arrival' /\ Once
<1>0. /\ forecast \in [Entries -> Days] /\ overtaken \in [Entries -> BOOLEAN] /\ failures \in Nat
      /\ due \subseteq {"quarter", "day", "forecast"} /\ (phase # "loaded" => due = {})
      /\ {"check", "setup"} \subseteq Kinds /\ entry \in Entries
    BY Typing DEF Inv, Typed, TypeOK, Life, SetupComesFirst
<1>1. ASSUME NEW k \in Kinds, Fire(k) PROVE Arrival' /\ Once
    <2>1. /\ Active(entry, k) /\ Apart(entry) /\ k \notin {"check", "setup"}
          /\ k \in due /\ due' = due \ {k}
        BY <1>0, <1>1 DEF Active, Fire, Apart, forecasts
    <2>2. CASE k = "forecast"
        <3>1. At("weather").pc = "weather"
            BY DEF At
        <3>2. /\ task' = [task EXCEPT ![entry][k] = At("weather")]
              /\ UNCHANGED <<source, now, published, entry, phase, missed, prices>>
            BY <1>1, <2>2 DEF Fire, Goes, world
        <3> QED
            BY <2>1, <2>2, <3>1, <3>2, GoingOnKeepsArrival
    <2>3. CASE k # "forecast"
        BY <1>1, <2>1, <2>3, BeginKeepsArrival DEF Fire
    <2> QED
        BY <2>2, <2>3
<1>2. ASSUME NEW e \in Entries, CheckFires(e) PROVE Arrival' /\ Once
    <2>1. Active(e, "check") /\ Apart(e) /\ due' = due
        BY <1>0, <1>2, Typing DEF Active, CheckFires, Apart, forecasts, Never
    <2>2. e = entry
        BY <1>0, <2>1, ActiveIsLast
    <2> QED
        BY <1>0, <1>2, <2>1, <2>2, BeginKeepsArrival DEF CheckFires
<1>3. CASE SetupLoads
    <2>1. Active(entry, "setup") /\ Apart(entry) /\ due' = due
        BY <1>0, <1>3 DEF Active, SetupLoads, UsesDatabase, Apart, forecasts, Idle
    <2> QED
        BY <1>0, <1>3, <2>1, BeginKeepsArrival DEF SetupLoads
<1> QED
    BY <1>1, <1>2, <1>3
-----------------------------------------------------------------------------
(* Time, the market and the entry's life *)

LEMMA PublishKeepsArrival == ASSUME Inv, Arrival, Publish PROVE Arrival' /\ Once
<1>1. /\ published' = Today + 1 /\ published <= Today /\ now % SlotsPerDay >= CheckStart
      /\ UNCHANGED <<source, now, entry, phase, due, missed, prices, task>> /\ Today' = Today
    BY DEF Publish, life, Today
<1>2. prices[entry].shown.tomorrow.of \in Nat
    BY Typing, ReadingsHaveLists, ListFacts
<1>3. Times'
    BY <1>1, Typing, SlotsAssumption
       DEF Arrival, Times, PublishedInTime, NotYetSetUp, ReadsInTime, MidnightsWork, DayReads
<1>4. SetupReadsFirst'
    BY <1>1 DEF Arrival, SetupReadsFirst
<1>5. ListsAreDated(prices[entry])'
    BY <1>1, <1>2, Typing DEF Arrival, ListsAreDated
<1>6. AvailableIsFull(prices[entry])' /\ Rotated(prices[entry])'
    BY <1>1 DEF Arrival, AvailableIsFull, Rotated, DayReads
<1> QED
    BY <1>1, <1>3, <1>4, <1>5, <1>6 DEF Arrival, Once

\* The slot after the last of a day is the first of the next.
LEMMA NextSlot ==
    ASSUME NEW a \in Nat, NEW n \in Nat \ {0}, (a + 1) % n # 0
    PROVE  (a + 1) % n = (a % n) + 1
<1>1. \A i \in Nat : i = n * (i \div n) + (i % n)
    OBVIOUS
<1>2. a \div n \in Nat /\ a % n \in Nat /\ (a + 1) % n \in Nat
    BY DivMod
<1>3. a + 1 = n * (a \div n) + ((a + 1) % n)
    <2>1. (a + 1) \div n = a \div n
        BY SameDay
    <2>2. a + 1 = n * ((a + 1) \div n) + ((a + 1) % n)
        BY <1>1
    <2> QED
        BY <2>1, <2>2
<1>4. a = n * (a \div n) + (a % n)
    BY <1>1
<1>5. n * (a \div n) \in Nat
    BY <1>2
<1> QED
    BY <1>2, <1>3, <1>4, <1>5

LEMMA TickKeepsArrival == ASSUME Inv, Arrival, Tick PROVE Arrival' /\ Once
<1> DEFINE midnight == (now + 1) % SlotsPerDay = 0
<1>1. /\ now' = now + 1 /\ due = {} /\ Settled(entry)
      /\ UNCHANGED <<source, published, entry, phase, prices, task>>
      /\ due' = IF phase # "loaded" THEN {}
                ELSE {"quarter"} \union (IF midnight THEN {"day"} ELSE {})
                     \union (IF (now + 1) % SlotsPerDay \in ForecastSlots THEN {"forecast"} ELSE {})
    BY Typing DEF Tick
<1>2. ~missed'[entry] => ~missed[entry] /\ ~(phase = "setup" /\ midnight)
    <2>1. missed \in [Entries -> BOOLEAN]
        BY Typing DEF TypeOK
    <2>2. missed' = [missed EXCEPT ![entry] =
                        missed[entry] \/ (phase = "setup" /\ now' % SlotsPerDay = 0)]
        BY DEF Tick
    <2>3. missed'[entry] = (missed[entry] \/ (phase = "setup" /\ now' % SlotsPerDay = 0))
        BY <2>1, <2>2, Typing
    <2> QED
        BY <1>1, <2>3
<1>3. /\ midnight => Today' = Today + 1
      /\ ~midnight => Today' = Today /\ now' % SlotsPerDay = (now % SlotsPerDay) + 1
    BY <1>1, Typing, SlotsAssumption, SameDay, NextDay, NextSlot DEF Today, Day
<1>4. \A k \in Kinds : task[entry][k].pc = "read" => k = "setup" /\ phase = "setup"
    <2>1. \A k \in Kinds \ {"setup"} : task[entry][k].pc # "read"
        BY <1>1 DEF Settled
    <2>2. task[entry]["setup"].pc = "read" => phase = "setup"
        BY DEF Inv, Life, SetupComesFirst, Idle
    <2> QED
        BY <2>1, <2>2
<1>5. ~DayReads /\ ~DayReads'
    BY <1>1, <1>4, Typing DEF DayReads
<1>6. "day" \in due' <=> phase = "loaded" /\ midnight
    BY <1>1
<1>7. Times'
    <2>1. PublishedInTime'
        BY <1>1, <1>3, Typing, SlotsAssumption DEF Arrival, Times, PublishedInTime
    <2>2. NotYetSetUp'
        BY <1>1 DEF Arrival, Times, NotYetSetUp
    <2>3. ReadsInTime'
        <3> SUFFICES ASSUME NEW k \in Kinds, task[entry][k].pc = "read"
                     PROVE  /\ task[entry][k].day <= Today'
                            /\ k # "setup" \/ ~missed'[entry] => task[entry][k].day = Today'
            BY <1>1 DEF ReadsInTime
        <3>1. k = "setup" /\ phase = "setup"
            BY <1>4
        <3>2. task[entry][k].day <= Today /\ (~missed[entry] => task[entry][k].day = Today)
            BY DEF Arrival, Times, ReadsInTime
        <3>3. task[entry][k].day \in Nat
            <4>1. task[entry][k] \in TaskStates
                BY Typing DEF Tasks
            <4>2. task[entry][k].day \in Days
                BY <4>1 DEF TaskStates, Idle
            <4> QED
                BY <4>2, DaysAreNumbers
        <3> QED
            BY <1>2, <1>3, <3>1, <3>2, <3>3, Typing
    <2>4. MidnightsWork'
        BY <1>1, <1>5, <1>6 DEF MidnightsWork
    <2> QED
        BY <2>1, <2>2, <2>3, <2>4 DEF Times
<1>8. SetupReadsFirst'
    BY <1>1 DEF Arrival, SetupReadsFirst
<1>9. ListsAreDated(prices[entry])'
    BY <1>1, <1>3, Typing, ReadingsHaveLists DEF Arrival, ListsAreDated
<1>10. AvailableIsFull(prices[entry])'
    BY <1>1, <1>5 DEF Arrival, AvailableIsFull
<1>11. Rotated(prices[entry])'
    <2> SUFFICES ASSUME phase \in {"setup", "loaded"}, ~missed'[entry], "day" \notin due'
                 PROVE  prices[entry].shown.tomorrow.of \in {NoDay, Today' + 1}
        BY <1>1 DEF Rotated
    <2>1. ~midnight /\ ~missed[entry] /\ "day" \notin due
        BY <1>1, <1>2, <1>6
    <2> QED
        BY <1>3, <2>1 DEF Arrival, Rotated
<1>12. Once
    BY <1>1 DEF Once
<1> QED
    BY <1>1, <1>7, <1>8, <1>9, <1>10, <1>11, <1>12 DEF Arrival

LEMMA LifeKeepsArrival ==
    ASSUME Inv, Arrival, SetupEnds \/ SetupFails \/ Unload \/ Close \/ CancelBackground
    PROVE  Arrival' /\ Once
<1>0. /\ Idle.pc = "idle" /\ At("fetch").pc = "fetch" /\ "setup" \in Kinds /\ "day" \in Kinds
      /\ phase # "setup" => task[entry]["setup"] = Idle
      /\ task \in Tasks /\ entry \in Entries
    BY Typing DEF Idle, At, Inv, Life, SetupComesFirst
<1>1. CASE SetupEnds \/ SetupFails
    <2>1. /\ \/ task' = [task EXCEPT ![entry]["setup"] = Idle]
             \/ task' = [task EXCEPT ![entry]["setup"] = Idle, ![entry]["backfill"] = At("fetch")]
          /\ phase' \in {"loaded", "gone"} /\ task[entry]["setup"].pc # "idle"
          /\ UNCHANGED <<source, now, published, entry, due, missed, prices>>
        BY <1>1 DEF SetupEnds, SetupFails, Goes, world
    <2>2. phase = "setup"
        BY <1>0, <2>1
    <2>3. /\ \A k \in Kinds : \/ task'[entry][k] = task[entry][k]
                              \/ task'[entry][k].pc \in {"idle", "fetch"}
          /\ task'[entry]["setup"].pc = "idle" /\ task'[entry]["day"] = task[entry]["day"]
        BY <1>0, <2>1 DEF Tasks
    <2> QED
        BY <2>1, <2>2, <2>3, RestKeepsArrival DEF DayReads
<1>2. CASE Unload \/ Close
    BY <1>0, <1>2, RestKeepsArrival DEF Unload, Close, world, DayReads
<1>3. CASE CancelBackground
    <2>1. /\ \A k \in Kinds : task'[entry][k] \in {task[entry][k], Idle}
          /\ task'[entry]["setup"] = task[entry]["setup"] /\ task'[entry]["day"] = task[entry]["day"]
          /\ phase = "closed" /\ phase' = "gone"
          /\ UNCHANGED <<source, now, published, entry, due, missed, prices>>
        BY <1>0, <1>3 DEF CancelBackground, Background, world
    <2> QED
        BY <1>0, <2>1, RestKeepsArrival DEF DayReads
<1> QED
    BY <1>1, <1>2, <1>3

\* An entry without data has no prices to be wrong about.
LEMMA NoDataIsTimely ==
    ASSUME published \in Nat, Today \in Nat, task[entry]["day"].pc # "read"
    PROVE  ListsAreDated(NoData) /\ AvailableIsFull(NoData) /\ Rotated(NoData)
<1>1. /\ NoData.shown = NoPrices /\ NoData.spot = NoPrices /\ NoData.available = FALSE
      /\ NoPrices.day = NoDay /\ NoPrices.tomorrow = NoList
    BY DEF NoData, NoPrices
<1> QED
    BY <1>1, NoListIsEmpty DEF ListsAreDated, AvailableIsFull, Rotated, DayReads, NoDay

LEMMA SetUpAgainKeepsArrival == ASSUME Inv, Arrival, SetUpAgain PROVE Arrival' /\ Once
<1>1. /\ phase = "gone" /\ entry' = entry + 1
      /\ \A k \in Kinds : task[entry][k] = Idle
      /\ task' = [task EXCEPT ![entry + 1]["setup"] = At("load")]
      /\ prices' = [prices EXCEPT ![entry] = NoData]
      /\ UNCHANGED <<source, now, published, due, missed>> /\ Today' = Today
    BY DEF SetUpAgain, Goes, world, Today
<1>2. entry' \in Entries /\ entry' > entry
    BY <1>1, Typing, EntriesAssumption DEF Entries, SetUpAgain
<1>3. due = {} /\ \A e \in Entries, k \in Kinds : task[e][k] = Idle
    BY <1>1 DEF Inv, Life, OthersRest, SetupComesFirst
<1>4. /\ \A k \in Kinds \ {"setup"} : task'[entry'][k] = Idle
      /\ task'[entry']["setup"] = At("load")
    BY <1>1, <1>2, <1>3, Typing DEF Tasks
<1>5. \A k \in Kinds : task'[entry'][k].pc # "read"
    BY <1>4 DEF Idle, At
<1>6. \A e \in Entries : e > entry => prices'[e] = NoData
    BY <1>1, Typing DEF Arrival, Times, NotYetSetUp
<1>7. Times'
    <2>1. PublishedInTime'
        BY <1>1 DEF Arrival, Times, PublishedInTime
    <2>2. NotYetSetUp'
        BY <1>2, <1>6, Typing DEF NotYetSetUp
    <2>3. ReadsInTime' /\ MidnightsWork'
        BY <1>1, <1>3, <1>5, Typing DEF ReadsInTime, MidnightsWork, DayReads
    <2> QED
        BY <2>1, <2>2, <2>3 DEF Times
<1>8. SetupReadsFirst'
    BY <1>2, <1>4, <1>6 DEF SetupReadsFirst
<1>9. ListsAreDated(NoData)' /\ AvailableIsFull(NoData)' /\ Rotated(NoData)'
    <2>1. /\ NoData.shown = NoPrices /\ NoData.spot = NoPrices /\ NoData.available = FALSE
          /\ NoPrices.day = NoDay /\ NoPrices.tomorrow = NoList
        BY DEF NoData, NoPrices
    <2> QED
        BY <1>1, <1>5, <2>1, Typing, NoListIsEmpty
           DEF ListsAreDated, AvailableIsFull, Rotated, DayReads, NoDay
<1>10. prices[entry]' = NoData
    BY <1>2, <1>6
<1> QED
    BY <1>1, <1>7, <1>8, <1>9, <1>10 DEF Arrival, Once
-----------------------------------------------------------------------------
(* The theorems *)

LEMMA InitArrival == Init => Inv /\ Arrival
<1> SUFFICES ASSUME Init PROVE Arrival
    BY InitInv
<1>1. Inv
    BY InitInv
<1>2. /\ now = 0 /\ published = 1 /\ entry = 1 /\ due = {} /\ entry \in Entries
      /\ \A e \in Entries : prices[e] = NoData
      /\ \A k \in Kinds : task[entry][k] = IF k = "setup" THEN At("load") ELSE Idle
    BY <1>1, Typing DEF Init
<1>3. Today = 1 /\ now % SlotsPerDay = 0
    BY <1>2, ZeroSlot, SlotsAssumption DEF Today, Day
<1>4. \A k \in Kinds : task[entry][k].pc # "read"
    BY <1>2 DEF At, Idle
<1>5. Times
    BY <1>1, <1>2, <1>3, <1>4, Typing
       DEF Times, PublishedInTime, NotYetSetUp, ReadsInTime, MidnightsWork, DayReads
<1>6. SetupReadsFirst
    BY <1>2 DEF SetupReadsFirst
<1>7. ListsAreDated(NoData) /\ AvailableIsFull(NoData) /\ Rotated(NoData)
    BY <1>1, <1>4, Typing, NoDataIsTimely
<1> QED
    BY <1>2, <1>5, <1>6, <1>7 DEF Arrival

LEMMA NextArrival == Inv /\ Arrival /\ [Next]_vars => Inv' /\ Arrival' /\ Once
<1> SUFFICES ASSUME Inv, Arrival, [Next]_vars PROVE Arrival' /\ Once
    BY NextInv
<1>1. CASE UNCHANGED vars
    <2>1. UNCHANGED <<source, now, published, entry, phase, due, missed, prices, task>>
        BY <1>1 DEF vars
    <2> QED
        BY <2>1 DEF Arrival, Times, PublishedInTime, NotYetSetUp, ReadsInTime, MidnightsWork,
                    DayReads, SetupReadsFirst, ListsAreDated, AvailableIsFull, Rotated, Today, Once
<1>2. CASE Next
    BY <1>2, StepKeepsArrival, RaisingKeepsArrival, TimersKeepArrival, PublishKeepsArrival,
       TickKeepsArrival, LifeKeepsArrival, SetUpAgainKeepsArrival DEF Next
<1> QED
    BY <1>1, <1>2

\* Once new_day and the handlers of an instant have read, the list shown for
\* tomorrow is tomorrow's and available says whether it is complete, in every
\* order in which they read and fail (new_day, new_quarter, async_read_prices).
THEOREM ListIsTomorrows == Spec => []TomorrowIsTomorrows
<1>1. Inv /\ Arrival => TomorrowIsTomorrows
    <2> SUFFICES ASSUME Inv, Arrival, phase = "loaded", due = {},
                        \A k \in Kinds : task[entry][k].pc # "read", ~missed[entry]
                 PROVE  /\ prices[entry].shown.tomorrow.of \in {NoDay, Today + 1}
                        /\ prices[entry].available = prices[entry].shown.tomorrow.full
        BY DEF TomorrowIsTomorrows
    <2>1. ~DayReads
        BY Typing DEF DayReads
    <2>2. prices[entry].available \in BOOLEAN /\ prices[entry].shown.tomorrow.full \in BOOLEAN
        BY Typing, ReadingsHaveLists, ListFacts
    <2>3. prices[entry].available <=> prices[entry].shown.tomorrow.full
        BY <2>1 DEF Arrival, AvailableIsFull
    <2> QED
        BY <2>2, <2>3 DEF Arrival, Rotated
<1> QED
    BY InitArrival, NextArrival, <1>1, PTL DEF Spec

\* Tomorrow's prices, once complete, become incomplete only after midnight,
\* whatever the reads of overlapping handlers lack (carry_over_day_prices,
\* update_tomorrow_available).
THEOREM ArriveOnlyOnce == Spec => ArrivesOnce
<1>1. Inv /\ Arrival /\ [Next]_vars =>
          [prices[entry].available /\ ~prices'[entry].available
              => prices[entry].shown.day < Today \/ phase = "gone"]_vars
    BY NextArrival DEF Once
<1> QED
    BY InitArrival, NextArrival, <1>1, PTL DEF Spec, ArrivesOnce
=============================================================================
