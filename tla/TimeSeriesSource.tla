-------------------------- MODULE TimeSeriesSource --------------------------
(***************************************************************************)
(* A time-series source: a table that is kept a copy of an upstream series *)
(* by requesting only what it lacks, and the holes, what upstream did not  *)
(* have at an earlier request, that are not asked for again before their   *)
(* retry time.                                                             *)
(*                                                                         *)
(* Updates of one source overlap (the quarter's price read, a forecast     *)
(* run, the history backfill): each suspends at every request and every    *)
(* storage call.  A range of time is a set of grid points, a value is the  *)
(* number of its revision.  The subclasses differ in the constants: how    *)
(* many points one day has, how many days one request covers, whether      *)
(* current days are re-fetched, and what upstream can have yet.            *)
(***************************************************************************)
EXTENDS Integers, FiniteSets

CONSTANTS
    LastPoint,      \* grid points are 0..LastPoint
    PerDay,         \* grid points of a local day, the unit of a request
    MaxDays,        \* consecutive days in one request
    Back,           \* days of history the backfill asks for
    Margin,         \* days kept beyond them
    LastRev,        \* revisions of a value are 1..LastRev, 0 is no value
    Revised,        \* refresh_from: today and later are re-fetched anyway
    Limited,        \* available_until: tomorrow only once it is auctioned
    Shift,          \* points the auction's day starts after the local one
    RecentDays,     \* recent_window
    RecentWait,     \* ticks until a recent hole is asked for again
    HistoryWait,    \* ticks until a hole in older history is
    Updates,        \* updates of the source that may overlap
    MaxFaults       \* exceptions, resets and restarts in a behaviour

ASSUME GridAssumption ==
    /\ LastPoint \in Nat /\ LastRev \in Nat /\ PerDay \in Nat \ {0}
    /\ MaxDays \in Nat \ {0} /\ Back \in Nat /\ Margin \in Nat
    /\ Shift \in Int /\ RecentDays \in Nat /\ MaxFaults \in Nat
ASSUME SwitchAssumption == Revised \in BOOLEAN /\ Limited \in BOOLEAN
ASSUME WaitAssumption ==
    RecentWait \in Nat /\ HistoryWait \in Nat /\ RecentWait <= HistoryWait

Points == 0..LastPoint
Values == [Points -> 0..LastRev]
Waits == [Points -> 0..HistoryWait]
Nothing == [p \in Points |-> 0]

VARIABLES
    now,        \* the current grid point
    upstream,   \* the revision upstream has of each point
    stored,     \* the revision the table has
    holes,      \* _state: ticks left of each closed hole, by its points, and
                \* of each open one, by its start; 0 for none or an expired one
    disk,       \* the state as saved in meta
    job,        \* the updates under way
    pruner,     \* the daily prune
    faults      \* exceptions, resets and restarts so far

vars == <<now, upstream, stored, holes, disk, job, pruner, faults>>

NoHoles == [closed |-> Nothing, open |-> Nothing]
Idle == [pc |-> "idle"]

Day(p) == p \div PerDay
DayStart(d) == d * PerDay
Least(S) == CHOOSE p \in S : \A q \in S : p <= q
Greatest(S) == CHOOSE p \in S : \A q \in S : q <= p
Missing(S) == {p \in S : stored[p] = 0}

\* The run of consecutive members of S that p is in.
RunOf(S, p) == {q \in S : (p..q) \union (q..p) \subseteq S}
-----------------------------------------------------------------------------
(* What is asked for *)

\* Today and tomorrow, which price reads and forecast runs update ...
ToCome == {p \in Points : Day(p) \in Day(now)..(Day(now) + 1)}

\* ... and the days before today, which the backfill does.
Past == {p \in Points : Day(p) \in (Day(now) - Back)..(Day(now) - 1)}

Windows == {ToCome, Past}

\* The results are due in the second half of the auction's day.
AuctionRan == (now - Shift) % PerDay >= PerDay \div 2

\* Mutant: a day counts as available only once it is over.
AvailableUntilDelivered ==
    DayStart((now - Shift) \div PerDay + (IF AuctionRan THEN 1 ELSE 0)) + Shift

\* The end of the last day upstream can have: tomorrow's once the results
\* are due, today's before.
AvailableUntil ==
    DayStart((now - Shift) \div PerDay + (IF AuctionRan THEN 2 ELSE 1)) + Shift

Available == {p \in Points : ~Limited \/ p < AvailableUntil}

\* What is not to be requested before its retry time.
Pending(h) == {p \in Points : \/ h.closed[p] > 0
                              \/ \E q \in 0..p : h.open[q] > 0}

\* Mutant: the day that is current is taken to be final.
RevisableTomorrow(S, at) ==
    IF Revised THEN {p \in S : p >= DayStart(Day(at) + 1)} ELSE {}

\* Stored values upstream may have revised.
Revisable(S, at) == IF Revised THEN {p \in S : p >= DayStart(Day(at))} ELSE {}

\* What an update of S that started at a point requests.
Wanted(S, at) == (Missing(S) \union Revisable(S, at)) \ Pending(holes)

\* Mutant: a run of days ends a day late.
RequestsOneDayMore(S) ==
    LET days     == {Day(p) : p \in S}
        late     == days \union {d + 1 : d \in days}
        first(d) == Least(RunOf(late, d))
        part(d)  == <<first(d), (d - first(d)) \div MaxDays>>
    IN  {{p \in 0..(LastPoint + PerDay) : Day(p) \in late /\ part(Day(p)) = part(d)} :
            d \in late}

\* The days S touches, in runs of at most MaxDays, each run one request.
Requests(S) ==
    LET days     == {Day(p) : p \in S}
        first(d) == Least(RunOf(days, d))
        part(d)  == <<first(d), (d - first(d)) \div MaxDays>>
    IN  {{p \in Points : Day(p) \in days /\ part(Day(p)) = part(d)} : d \in days}

\* The oldest request still to be made (none, or one).
NextRequests(u) ==
    {r \in job[u].todo : \A s \in job[u].todo : Least(r) <= Least(s)}
-----------------------------------------------------------------------------
(* What is remembered *)

\* Ticks until the hole that ends with the point last is asked for again.
RetryWait(last, at) ==
    IF last + 1 > at - RecentDays * PerDay THEN RecentWait ELSE HistoryWait

\* Where the missing part of the window that reaches into the future starts.
Horizon(S, at) ==
    IF S # {} /\ Greatest(S) >= at /\ Greatest(S) \in Missing(S)
    THEN {Least(RunOf(Missing(S), Greatest(S)))} ELSE {}

\* Ticks left of a wait that started when the update did.
Left(u, wait) == IF wait > job[u].since THEN wait - job[u].since ELSE 0

\* Mutant: everything missing becomes a hole, whether it was answered or not.
RecordAllMissing(u) ==
    LET gaps == Missing(job[u].win)
    IN  [closed |-> [p \in Points |->
             IF p \in gaps
             THEN Left(u, RetryWait(Greatest(RunOf(gaps, p)), job[u].now))
             ELSE IF p \in job[u].asked THEN 0 ELSE holes.closed[p]],
         open |-> holes.open]

\* The holes inside the answered requests are replaced by what is still
\* missing there.  The one that starts at the horizon is open: it stands for
\* everything from there on.
Recorded(u) ==
    LET asked   == job[u].asked
        gaps    == Missing(job[u].win) \intersect asked
        starts  == Horizon(job[u].win, job[u].now) \intersect gaps
        wait(p) == Left(u, RetryWait(Greatest(RunOf(gaps, p)), job[u].now))
        beyond  == UNION {RunOf(gaps, q) : q \in starts}
    IN  [closed |-> [p \in Points |->
             IF p \in gaps \ beyond THEN wait(p)
             ELSE IF p \in asked THEN 0 ELSE holes.closed[p]],
         open |-> [p \in Points |->
             IF p \in starts THEN wait(p)
             ELSE IF \E q \in asked : p <= q THEN 0 ELSE holes.open[p]]]

\* The holes left when those before a point are forgotten.  Open ones stay, and
\* so does the part of a closed one from that point on.
Forgotten(h, before) ==
    [h EXCEPT !.closed = [p \in Points |-> IF p < before THEN 0 ELSE @[p]]]
-----------------------------------------------------------------------------
Running == {"fetching", "storing", "recheck"}

Holes == [closed : Waits, open : Waits]

RunningJobs ==
    [pc : Running, win : SUBSET Points, now : Points, since : 0..HistoryWait,
     todo : SUBSET SUBSET Points, rows : Values, asked : SUBSET Points,
     failed : SUBSET Points, lacking : SUBSET Points, erased : SUBSET Points]

SavingJobs == [pc : {"saving"}, text : Holes]

QueryJobs == [pc : {"query"}, win : SUBSET Points, now : Points]

Jobs == {Idle} \union QueryJobs
               \union RunningJobs \union SavingJobs

TypeOK ==
    /\ now \in Points
    /\ upstream \in Values
    /\ stored \in Values
    /\ holes \in Holes
    /\ disk \in Holes
    /\ job \in [Updates -> Jobs]
    /\ pruner \in [pc : {"idle", "due"}] \union [pc : {"forget"}, before : Int]
                  \union SavingJobs
    /\ faults \in 0..MaxFaults

\* A new installation.
Init ==
    /\ now = 0
    /\ upstream = Nothing
    /\ stored = Nothing
    /\ holes = NoHoles
    /\ disk = NoHoles
    /\ job = [u \in Updates |-> Idle]
    /\ pruner = Idle
    /\ faults = 0
-----------------------------------------------------------------------------
(* An update *)

Start(u, S) ==
    /\ job[u] = Idle
    /\ S \intersect Available # {}
    /\ job' = [job EXCEPT ![u] = [pc |-> "query", win |-> S \intersect Available,
                                     now |-> now]]
    /\ UNCHANGED <<now, upstream, stored, holes, disk, pruner, faults>>

\* The stored points are known: the requests are planned, or there are none.
Query(u) ==
    /\ job[u].pc = "query"
    /\ LET wanted == Wanted(job[u].win, job[u].now)
       IN  job' = [job EXCEPT ![u] =
               IF wanted = {} THEN Idle
               ELSE [pc |-> "fetching", win |-> @.win, now |-> @.now, since |-> 0,
                     todo |-> Requests(wanted), rows |-> Nothing, asked |-> {},
                     failed |-> {}, lacking |-> {}, erased |-> {}]]
    /\ UNCHANGED <<now, upstream, stored, holes, disk, pruner, faults>>

\* Where an update is once its next request r is dealt with.
After(j, r) == IF j.todo = {r} THEN "recheck" ELSE "fetching"

\* Upstream answers, with what it has of the range.
Answer(u) ==
    /\ job[u].pc = "fetching"
    /\ \E r \in NextRequests(u) :
           job' = [job EXCEPT ![u].pc = IF \A p \in r : upstream[p] = 0
                                        THEN After(job[u], r) ELSE "storing",
                              ![u].rows = [p \in Points |->
                                  IF p \in r THEN upstream[p] ELSE 0],
                              ![u].todo = @ \ {r},
                              ![u].asked = @ \union r,
                              ![u].lacking = @ \union {p \in r : upstream[p] = 0}]
    /\ UNCHANGED <<now, upstream, stored, holes, disk, pruner, faults>>

\* The request failed.  An update none of whose requests was answered ends.
Fail(u) ==
    /\ job[u].pc = "fetching"
    /\ \E r \in NextRequests(u) :
           job' = [job EXCEPT ![u] =
               IF job[u].todo = {r} /\ job[u].asked = {} THEN Idle
               ELSE [job[u] EXCEPT !.pc = After(job[u], r), !.todo = @ \ {r},
                                   !.failed = @ \union r]]
    /\ UNCHANGED <<now, upstream, stored, holes, disk, pruner, faults>>

\* Mutant: a point the answer lacks is stored as a value too.
StoreGaps(u) ==
    /\ job[u].pc = "storing"
    /\ stored' = [p \in Points |-> IF job[u].rows[p] # 0 THEN job[u].rows[p]
                                   ELSE IF p \in job[u].asked THEN 1
                                   ELSE stored[p]]
    /\ job' = [job EXCEPT ![u].pc = IF job[u].todo = {} THEN "recheck"
                                    ELSE "fetching",
                          ![u].rows = Nothing]
    /\ UNCHANGED <<now, upstream, holes, disk, pruner, faults>>

\* The rows are written over the stored ones, in one transaction.
Store(u) ==
    /\ job[u].pc = "storing"
    /\ stored' = [p \in Points |-> IF job[u].rows[p] # 0 THEN job[u].rows[p]
                                   ELSE stored[p]]
    /\ job' = [job EXCEPT ![u].pc = IF job[u].todo = {} THEN "recheck"
                                    ELSE "fetching",
                          ![u].rows = Nothing]
    /\ UNCHANGED <<now, upstream, holes, disk, pruner, faults>>

\* What is still missing is recorded, and the state is handed to the save.
Record(u) ==
    /\ job[u].pc = "recheck"
    /\ holes' = Recorded(u)
    /\ job' = [job EXCEPT ![u] = [pc |-> "saving", text |-> holes']]
    /\ UNCHANGED <<now, upstream, stored, disk, pruner, faults>>

Save(u) ==
    /\ job[u].pc = "saving"
    /\ disk' = job[u].text
    /\ job' = [job EXCEPT ![u] = Idle]
    /\ UNCHANGED <<now, upstream, stored, holes, pruner, faults>>

Fault == faults < MaxFaults /\ faults' = faults + 1

\* An exception: the caller logs it, the update is over.
Abort(u) ==
    /\ Fault
    /\ job[u] # Idle
    /\ job' = [job EXCEPT ![u] = Idle]
    /\ UNCHANGED <<now, upstream, stored, holes, disk, pruner>>
-----------------------------------------------------------------------------
(* Prune, reset, restart, and the world *)

\* The prune after midnight: the rows first, then the remembered holes.
PruneRows ==
    /\ pruner.pc = "due"
    /\ LET before == DayStart(Day(now) - Back - Margin)
       IN  /\ stored' = [p \in Points |-> IF p < before THEN 0 ELSE stored[p]]
           /\ job' = [u \in Updates |->
                 IF job[u].pc \in Running
                 THEN [job[u] EXCEPT !.erased = @ \union {p \in Points : p < before}]
                 ELSE job[u]]
           /\ pruner' = [pc |-> "forget", before |-> before]
    /\ UNCHANGED <<now, upstream, holes, disk, faults>>

PruneHoles ==
    /\ pruner.pc = "forget"
    /\ holes' = Forgotten(holes, pruner.before)
    /\ pruner' = [pc |-> "saving", text |-> holes']
    /\ UNCHANGED <<now, upstream, stored, disk, job, faults>>

PruneSave ==
    /\ pruner.pc = "saving"
    /\ disk' = pruner.text
    /\ pruner' = Idle
    /\ UNCHANGED <<now, upstream, stored, holes, job, faults>>

\* An exception ends the prune where it is.
PruneAbort ==
    /\ Fault
    /\ pruner # Idle
    /\ pruner' = Idle
    /\ UNCHANGED <<now, upstream, stored, holes, disk, job>>

\* reset_learning drops the saved state; the rows and the holes in memory
\* stay.
Reset ==
    /\ Fault
    /\ disk' = NoHoles
    /\ UNCHANGED <<now, upstream, stored, holes, job, pruner>>

\* The process starts again; the first update, which runs alone, loads the
\* saved state.
Restart ==
    /\ Fault
    /\ holes' = disk
    /\ job' = [u \in Updates |-> Idle]
    /\ pruner' = Idle
    /\ UNCHANGED <<now, upstream, stored, disk>>

\* Upstream publishes a day, or revises one, wholly or in part.
Publish ==
    /\ \E d \in {Day(p) : p \in Points} :
          \E S \in SUBSET {p \in Points : Day(p) = d} \ {{}} :
             /\ \A p \in S : upstream[p] < LastRev
             /\ upstream' = [p \in Points |-> IF p \in S THEN upstream[p] + 1
                                              ELSE upstream[p]]
    /\ UNCHANGED <<now, stored, holes, disk, job, pruner, faults>>

Sooner(w) == [p \in Points |-> IF w[p] = 0 THEN 0 ELSE w[p] - 1]
Ticked(h) == [closed |-> Sooner(h.closed), open |-> Sooner(h.open)]

\* Retry times come closer.
Tick ==
    /\ holes' = Ticked(holes)
    /\ disk' = Ticked(disk)
    /\ job' = [u \in Updates |->
          IF job[u].pc = "saving" THEN [job[u] EXCEPT !.text = Ticked(@)]
          ELSE IF job[u].pc \in Running
          THEN [job[u] EXCEPT !.since = IF @ < HistoryWait THEN @ + 1 ELSE @]
          ELSE job[u]]
    /\ pruner' = IF pruner.pc = "saving" THEN [pruner EXCEPT !.text = Ticked(@)]
                 ELSE pruner
    /\ UNCHANGED <<now, upstream, stored, faults>>

\* The current time moves to the next point of the grid; a new day starts a
\* prune, and the one before it is over.
Advance ==
    /\ now < LastPoint
    /\ now' = now + 1
    /\ IF Day(now') = Day(now) THEN UNCHANGED pruner
       ELSE pruner = Idle /\ pruner' = [pc |-> "due"]
    /\ UNCHANGED <<upstream, stored, holes, disk, job, faults>>

Next ==
    \/ \E u \in Updates : \/ \E S \in Windows : Start(u, S)
                          \/ Query(u) \/ Answer(u) \/ Fail(u) \/ Store(u)
                          \/ Record(u) \/ Save(u) \/ Abort(u)
    \/ PruneRows \/ PruneHoles \/ PruneSave \/ PruneAbort
    \/ Reset \/ Restart \/ Publish \/ Tick \/ Advance

Spec == Init /\ [][Next]_vars

\* The steps an update takes on its own, time passing, and the timers that
\* start updates of both windows again and again.  Upstream may fail a
\* request any number of times, but not every request for a point for ever.
Proceed(u) == Query(u) \/ Answer(u) \/ Fail(u) \/ Store(u) \/ Record(u) \/ Save(u)

\* A request for the day d is answered.
Answers(d) == \E u \in Updates : /\ job[u].pc = "fetching"
                                 /\ \E r \in NextRequests(u) : \E p \in r : Day(p) = d
                                 /\ Answer(u)

Fairness ==
    /\ \A u \in Updates : WF_vars(Proceed(u))
    /\ \A d \in 0..Day(LastPoint) : SF_vars(Answers(d))
    /\ SF_vars(\E u \in Updates : Start(u, ToCome))
    /\ SF_vars(\E u \in Updates : Start(u, Past))
    /\ WF_vars(Tick)

FairSpec == Spec /\ Fairness
-----------------------------------------------------------------------------
(* Properties *)

\* What an update puts off in its own right is what upstream lacked when this
\* very update asked, or rows the prune deleted while it ran: never a point
\* whose request failed, nor one another update is still to store
\* (SourceState.record keeps to the answered ranges).
OnlyLackingIsPutOff ==
    [][\A p \in Points :
         \/ holes'.closed[p] <= holes.closed[p] /\ holes'.open[p] <= holes.open[p]
         \/ faults' # faults
         \/ \E u \in Updates : /\ job[u].pc = "recheck"
                               /\ job'[u].pc = "saving"
                               /\ p \in job[u].lacking \union job[u].erased]_vars

\* What upstream has of the days asked for, tomorrow from the auction on, is
\* stored in the end, for all the holes, failed requests, faults and
\* overlapping updates.
StoredInTheEnd ==
    LET owed == {p \in ToCome \union Past :
                    /\ upstream[p] # 0
                    /\ Limited /\ Day(p) > Day(now) => AuctionRan}
        lost == {p \in ToCome \union Past : stored[p] = 0}
    IN  \A p \in Points : p \in owed ~> p \notin lost

\* A value upstream revised while its day is current is brought up to date
\* in the end, although a slower update may have put the old one back.
RevisedInTheEnd ==
    \A p \in Points : []<>(\/ stored[p] = upstream[p]
                           \/ ~Revised \/ p \notin ToCome)

\* The table is a copy of the upstream series.
Mirror == INSTANCE SeriesMirror WITH
    Points <- Points, LastRev <- LastRev, upstream <- upstream, stored <- stored
MirrorSpec == Mirror!Spec
=============================================================================
