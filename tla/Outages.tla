------------------------------ MODULE Outages ------------------------------
(***************************************************************************)
(* The archive of a region's outage messages, and what the model reads     *)
(* from it.                                                                *)
(*                                                                         *)
(* A message is published in numbered versions; the archive keeps every    *)
(* version, so that the model can tell what was known at any origin.  An   *)
(* update fetches all versions of the events in the part of its window     *)
(* that is not covered yet, and only what was published since the last     *)
(* update of the part that is.  Updates overlap (a forecast run, the       *)
(* history backfill), each suspends at every request and every storage     *)
(* call, and the daily prune runs beside them.                             *)
(*                                                                         *)
(* Time is a grid of points, PerDay to a day; a span <<a, b>> holds the    *)
(* points from a up to, but not including, b.  Nothing in the code relates *)
(* two messages, so there is one, whose versions are 1..Len(upstream).     *)
(***************************************************************************)
EXTENDS Integers, FiniteSets, Sequences

CONSTANTS
    PerDay,         \* points of a local day
    PerStep,        \* points of a UTC day, what a step function spans
    FirstDay,       \* the day the behaviour starts in
    LastDay,        \* and the one it ends in, a bound
    HistoryDays,    \* days of prices the model trains on
    MarginDays,     \* days of history kept beyond them
    AheadDays,      \* days from today to the forecast's end
    Contents,       \* what a version may say: its event, its periods of
                    \* unavailable capacity, and whether it dismisses
    MaxAge,         \* points an update lasts at most, a bound
    MaxVersions,    \* bound on the versions
    MaxFaults       \* bound on failed requests and restarts

ASSUME DaysAssumption ==
    /\ PerDay \in Nat \ {0} /\ PerStep \in Nat \ {0} /\ FirstDay \in Nat
    /\ LastDay \in Nat /\ FirstDay <= LastDay
    /\ HistoryDays \in Nat /\ MarginDays \in Nat /\ AheadDays \in Nat
\* A message's event spans the periods it tells of.
ASSUME ContentsAssumption == \A c \in Contents :
    /\ c.event \in Int \X Int /\ c.event[1] < c.event[2] /\ c.dismissed \in BOOLEAN
    /\ c.periods \subseteq Int \X Int /\ IsFiniteSet(c.periods)
    /\ \A q \in c.periods : c.event[1] <= q[1] /\ q[2] <= c.event[2]
ASSUME BoundAssumption == MaxAge \in Nat /\ MaxVersions \in Nat /\ MaxFaults \in Nat

VARIABLES
    now,        \* the current point
    kind,       \* the region's source: outage_source_kind
    upstream,   \* the versions published so far
    rows,       \* umm_messages: the versions stored
    periods,    \* umm_periods: their periods, as <<version, span>>
    mem,        \* _state: the coverage, or NoCoverage
    loaded,     \* _state_loaded
    disk,       \* the coverage as saved in meta
    job,        \* the updates under way
    cutoff,     \* what the prune deleted before
    erased,     \* the versions whose row it deleted
    faults      \* failed requests and restarts so far

source == <<now, kind, upstream>>
archive == <<rows, periods>>
coverage == <<mem, loaded, disk>>
pruning == <<cutoff, erased>>
vars == <<source, archive, coverage, job, pruning, faults>>

Updates == {"forecast", "backfill"}
NoCoverage == [from |-> 0, until |-> 0, published |-> -1]
Always == -1        \* no published_from: every version of the window
Idle == [pc |-> "idle", at |-> -1]

Today == now \div PerDay
End == (LastDay + 1) * PerDay - 1
Overlap(a, b) == a[1] < b[2] /\ b[1] < a[2]
Versions == 1..Len(upstream)
Covered(c) == <<c.from, c.until>>

\* What a day's prune deletes before, and the window that an update asks for:
\* prune_history, update_outages and _backfill_source
Before(day) == (day - HistoryDays - MarginDays) * PerDay
Window(u) == IF u = "forecast" THEN <<Today * PerDay, (Today + AheadDays) * PerDay>>
             ELSE <<(Today - HistoryDays) * PerDay, Today * PerDay>>
-----------------------------------------------------------------------------
(***************************************************************************)
(* What upstream returns.  Nord Pool returns every version published       *)
(* before `until`, and from `since` on; the ENTSO-E platform serves only   *)
(* the current one, whenever it was published unless `since` is given.     *)
(***************************************************************************)
Published(since, until) ==
    {v \in Versions : since <= upstream[v].at /\ upstream[v].at < until}
InEvents(V, window) == {v \in V : Overlap(upstream[v].event, window)}
Current == Versions \ 1..(Len(upstream) - 1)
FetchUmm(window, until, since) == InEvents(Published(since, until), window)
FetchEntsoe(window, until, since) ==
    InEvents(Current \intersect (IF since = Always THEN Versions ELSE Published(since, until)),
             window)
Fetch(window, until, since) ==
    IF kind = "umm" THEN FetchUmm(window, until, since)
    ELSE FetchEntsoe(window, until, since)

\* upsert_umm_rows: versions never change, so what is stored is left alone
Upsert(V) ==
    /\ rows' = rows \union V
    /\ periods' = periods \union UNION {{v} \X upstream[v].periods : v \in V}

\* One request of a span, none of an empty one
Asked(span, since) == IF span[1] < span[2] THEN << <<span, since>> >> ELSE << >>
\* Mutant: what is covered is not asked for again.
RequestsUncovered(c, window) ==
    IF c = NoCoverage THEN Asked(window, Always)
    ELSE Asked(<<window[1], c.from>>, Always) \o Asked(<<c.until, window[2]>>, Always)
\* The requests of an update: the parts of the window that are not covered,
\* and what is new in the part that is
Requests(c, window) ==
    IF c = NoCoverage THEN Asked(window, Always)
    ELSE Asked(<<window[1], c.from>>, Always) \o Asked(<<c.until, window[2]>>, Always)
         \o Asked(Covered(c), c.published)
Lesser(a, b) == IF a < b THEN a ELSE b
Greater(a, b) == IF a > b THEN a ELSE b
Widened(c, window, at) ==
    IF c = NoCoverage THEN [from |-> window[1], until |-> window[2], published |-> at]
    ELSE [from |-> Lesser(window[1], c.from), until |-> Greater(window[2], c.until),
          published |-> at]
-----------------------------------------------------------------------------
Version(c, at) ==
    [at |-> at, event |-> c.event, periods |-> c.periods, dismissed |-> c.dismissed]

\* The message was announced before the entry is set up
Init ==
    /\ now = FirstDay * PerDay
    /\ kind \in {"umm", "entsoe"}
    /\ \E c \in Contents : ~c.dismissed /\ upstream = <<Version(c, now - 1)>>
    /\ rows = {} /\ periods = {}
    /\ mem = NoCoverage /\ disk = NoCoverage /\ loaded = FALSE
    /\ job = [u \in Updates |-> Idle]
    /\ cutoff = Before(FirstDay) /\ erased = {}
    /\ faults = 0

\* An update from the coverage it starts from: what it has yet to request,
\* and what it will have covered
Underway(window, at, c) ==
    [pc |-> "request", at |-> at, todo |-> Requests(c, window),
     covered |-> Widened(c, window, at)]

\* async_update up to its first suspension: the first update after a start
\* reads the coverage from meta, one beside it sees none.  An update that
\* ended well has nothing more to do at the same point.
Begin(u) ==
    /\ job[u].pc = "idle" /\ job[u].at < now
    /\ loaded' = TRUE
    /\ job' = [job EXCEPT ![u] =
            IF loaded THEN Underway(Window(u), now, mem)
            ELSE [pc |-> "load", at |-> now, window |-> Window(u)]]
    /\ UNCHANGED <<source, archive, mem, disk, pruning, faults>>

\* _load_state returns: meta may hold none
Loaded == IF disk = NoCoverage THEN mem ELSE disk
Load(u) ==
    /\ job[u].pc = "load"
    /\ mem' = Loaded
    /\ job' = [job EXCEPT ![u] = Underway(@.window, @.at, Loaded)]
    /\ UNCHANGED <<source, archive, loaded, disk, pruning, faults>>

\* The answer to the next request, and its being stored
Request(u) ==
    /\ job[u].pc = "request" /\ job[u].todo # << >>
    /\ LET r == Head(job[u].todo) IN Upsert(Fetch(r[1], job[u].at, r[2]))
    /\ job' = [job EXCEPT ![u].todo = Tail(@)]
    /\ UNCHANGED <<source, coverage, pruning, faults>>

\* A request or the storing of its answer fails: nothing is covered by it
Fail(u) ==
    /\ job[u].pc = "request" /\ job[u].todo # << >>
    /\ faults < MaxFaults /\ faults' = faults + 1
    /\ job' = [job EXCEPT ![u] = Idle]
    /\ UNCHANGED <<source, archive, coverage, pruning>>

\* Mutant: covered up to when the last answer was stored.
CoverNow(u) ==
    /\ job[u].pc = "request" /\ job[u].todo = << >>
    /\ mem' = [job[u].covered EXCEPT !.published = now] /\ disk' = mem'
    /\ job' = [job EXCEPT ![u] = [pc |-> "idle", at |-> @.at]]
    /\ UNCHANGED <<source, archive, loaded, pruning, faults>>
\* _save_state, in memory and in meta
Cover(u) ==
    /\ job[u].pc = "request" /\ job[u].todo = << >>
    /\ mem' = job[u].covered /\ disk' = job[u].covered
    /\ job' = [job EXCEPT ![u] = [pc |-> "idle", at |-> @.at]]
    /\ UNCHANGED <<source, archive, loaded, pruning, faults>>
-----------------------------------------------------------------------------
\* Mutant: the versions published before, whatever periods they have left.
EmptiedAll(before) == {v \in rows : upstream[v].at < before}
\* prune_umm_rows: periods that ended before, and the versions published
\* before that have none left
Remaining(before) == {p \in periods : p[2][2] >= before}
Emptied(before) ==
    {v \in rows : /\ upstream[v].at < before
                  /\ \A p \in Remaining(before) : p[1] # v}
Erase(before) ==
    /\ periods' = Remaining(before)
    /\ rows' = rows \ Emptied(before)
    /\ erased' = erased \union Emptied(before)

\* async_prune, once a day: what it deletes is not covered any more
Prune ==
    /\ cutoff < Before(Today) /\ cutoff' = Before(Today)
    /\ Erase(cutoff')
    /\ loaded' = TRUE
    /\ LET c == IF loaded THEN mem ELSE Loaded
       IN  IF c.from < cutoff' /\ cutoff' < c.until
           THEN mem' = [c EXCEPT !.from = cutoff'] /\ disk' = mem'
           ELSE mem' = c /\ UNCHANGED disk
    /\ UNCHANGED <<source, job, faults>>
-----------------------------------------------------------------------------
\* The entry starts again, perhaps in the middle of the prune: the source is
\* a new object
Restart ==
    /\ faults < MaxFaults /\ faults' = faults + 1
    /\ mem' = NoCoverage /\ loaded' = FALSE
    /\ job' = [u \in Updates |-> Idle]
    /\ \/ UNCHANGED <<archive, pruning>>
       \/ /\ cutoff < Before(Today) /\ cutoff' = Before(Today)
          /\ Erase(cutoff')
    /\ UNCHANGED <<source, disk>>

\* At most one version at a point, a bound
Publish ==
    /\ Len(upstream) < MaxVersions
    /\ \A v \in Versions : upstream[v].at < now
    /\ \E c \in Contents :
          upstream' = Append(upstream, Version(c, now))
    /\ UNCHANGED <<now, kind, archive, coverage, job, pruning, faults>>
Tick ==
    /\ now < End /\ now' = now + 1
    /\ \A u \in Updates : job[u].pc # "idle" => now < job[u].at + MaxAge
    /\ UNCHANGED <<kind, upstream, archive, coverage, job, pruning, faults>>

Step(u) == Begin(u) \/ Load(u) \/ Request(u) \/ Cover(u)
Next ==
    \/ \E u \in Updates : Step(u) \/ Fail(u)
    \/ Prune \/ Restart \/ Publish \/ Tick
Spec == Init /\ [][Next]_vars

\* Home Assistant's timers go off, and what is awaited returns
FairSpec == Spec /\ WF_vars(Tick) /\ \A u \in Updates : WF_vars(Step(u))
-----------------------------------------------------------------------------
(***************************************************************************)
(* OutageIndex.  A version is its message's latest from its publication    *)
(* until the next one's; a slot is answered from a step function of its    *)
(* day, built from the periods in force at the origin.                     *)
(***************************************************************************)
Forever == End + 1
\* Mutant: a version stays known.
KnownForever(V, v) == Forever
KnownUntil(V, v) ==
    LET later == {w \in V : w > v}
    IN  IF later = {} THEN Forever
        ELSE upstream[CHOOSE w \in later : \A x \in later : w <= x].at
InForce(V, P, day, origin) ==
    {p \in P : /\ p[1] \in V /\ ~upstream[p[1]].dismissed
               /\ upstream[p[1]].at <= origin /\ origin < KnownUntil(V, p[1])
               /\ Overlap(p[2], <<day * PerStep, (day + 1) * PerStep>>)}
Breakpoints(F, day) ==
    {e \in {day * PerStep} \union {p[2][1] : p \in F} \union {p[2][2] : p \in F} :
        day * PerStep <= e /\ e < (day + 1) * PerStep}
ForSlot(V, P, slot, origin) ==
    LET day == slot \div PerStep
        F   == InForce(V, P, day, origin)
        B   == {b \in Breakpoints(F, day) : b <= slot}
        at  == CHOOSE b \in B : \A c \in B : c <= b
    IN  Cardinality({p \in F : p[2][1] <= at /\ at < p[2][2]})

\* Mutant: only the versions with a period in the window.
LoadedJoin(window) == {v \in rows : \E p \in periods : p[1] = v /\ Overlap(p[2], window)}
\* load_umm_rows: every version, and the periods in the window
LoadedRows(window) == rows
Within(window) == {p \in periods : Overlap(p[2], window)}
-----------------------------------------------------------------------------
Origins == (FirstDay * PerDay)..End
Coverages == [from : Int, until : Int, published : -1..End]

TypeOK ==
    /\ now \in Nat /\ now <= End /\ kind \in {"umm", "entsoe"}
    /\ rows \subseteq Versions /\ erased \subseteq Versions
    /\ \A p \in periods : p[1] \in rows /\ p[2] \in upstream[p[1]].periods
    /\ mem \in Coverages /\ disk \in Coverages /\ loaded \in BOOLEAN
    /\ \A u \in Updates : job[u].pc \in {"idle", "load", "request"}
    /\ cutoff \in Int /\ faults \in 0..MaxFaults

\* What is truly known at an origin: of the versions published by then the
\* last one, unless it dismisses the message.
InForceOf(origin) ==
    LET known == {v \in Versions : upstream[v].at <= origin}
    IN  {v \in known : /\ \A w \in known : w <= v
                       /\ ~upstream[v].dismissed}
Unavailable(slot, origin) ==
    Cardinality({p \in UNION {upstream[v].periods : v \in InForceOf(origin)} :
                    p[1] <= slot /\ slot < p[2]})

\* The origins at which upstream's answers allow to know it: the platform
\* forgets a document's earlier revisions.
Knowable(origin) == kind = "umm" \/ \A v \in Versions : upstream[v].at <= origin
Answerable(c) ==
    IF c = NoCoverage THEN {}
    ELSE {so \in (Greater(c.from, cutoff)..(c.until - 1)) \X ((FirstDay * PerDay)..(c.published - 1)) :
             Knowable(so[2])}

\* A capacity that the market knew to be unavailable is one to the model, for
\* every slot and up to the publication time that the coverage claims,
\* whichever updates overlapped, failed or were cut short by a restart
\* (async_update, _save_state).
NoneIsMissed ==
    \A c \in {mem, disk} : \A so \in Answerable(c) :
        Unavailable(so[1], so[2]) <= ForSlot(rows, periods, so[1], so[2])

\* A capacity counts as unavailable although the market knew better only when
\* the version that said so moved its event out of what is covered, or was
\* pruned for having no period itself (prune_umm_rows).
OnlyMovedOrPrunedOutlive ==
    \A c \in {mem, disk} : \A so \in Answerable(c) :
        Unavailable(so[1], so[2]) < ForSlot(rows, periods, so[1], so[2]) =>
            \E v \in Versions :
                /\ upstream[v].at <= so[2]
                /\ ~Overlap(upstream[v].event, Covered(c)) \/ v \in erased

\* The rows loaded of a window answer its slots as the whole archive does:
\* a version with no period in the window still supersedes (load_umm_rows).
WindowIsEnough ==
    \A u \in Updates : \A s \in Window(u)[1]..(Window(u)[2] - 1) : \A o \in Origins :
        ForSlot(LoadedRows(Window(u)), Within(Window(u)), s, o) = ForSlot(rows, periods, s, o)

\* Every version that reaches into the forecast is stored in the end, however
\* many requests failed before, in whatever order the updates ended.
ArriveInTheEnd ==
    <>[](\A v \in Versions \ erased :
            /\ upstream[v].at < End /\ Overlap(upstream[v].event, Window("forecast"))
            /\ kind = "umm" \/ v \in Current
            => v \in rows)
=============================================================================
