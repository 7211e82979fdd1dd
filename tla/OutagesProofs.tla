---------------------------- MODULE OutagesProofs ----------------------------
(***************************************************************************)
(* Proofs about Outages: for any contents, grid, window and number of      *)
(* versions, restarts and failures, a capacity counts as unavailable       *)
(* exactly when the market knew it was, where the coverage claims so.      *)
(***************************************************************************)
EXTENDS Outages, FiniteSetTheorems, WellFoundedInduction, TLAPS

Spans == Int \X Int
VersionSet == [at : Int, event : Spans, periods : SUBSET Spans, dismissed : BOOLEAN]
Covers == [from : Int, until : Int, published : Int]
Jobs == [pc : {"idle"}, at : Int]
        \union [pc : {"load"}, at : Int, window : Spans]
        \union [pc : {"request"}, at : Int, todo : Seq(Spans \X Int), covered : Covers]

\* What upstream published: versions of an event that spans their periods, in
\* the order of their publication.
Spanning(m) ==
    /\ m.event[1] < m.event[2] /\ IsFiniteSet(m.periods)
    /\ \A q \in m.periods : m.event[1] <= q[1] /\ q[2] <= m.event[2]
UpstreamInOrder ==
    /\ upstream \in Seq(VersionSet) /\ \A v \in Versions : Spanning(upstream[v])
    /\ \A v \in Versions : upstream[v].at \in -1..now
    /\ \A v, w \in Versions : v < w => upstream[v].at < upstream[w].at

CoverOK(c) == c = NoCoverage \/ (c.from <= c.until /\ c.published \in 0..now)
JobOK(j) ==
    /\ j.at \in -1..now
    /\ (j.pc = "load") => (j.at >= 0 /\ j.window[1] <= j.window[2])
    /\ (j.pc = "request") =>
          (j.covered # NoCoverage /\ CoverOK(j.covered) /\ j.covered.published = j.at)

Typed ==
    /\ TypeOK /\ UpstreamInOrder
    /\ mem \in Covers /\ disk \in Covers /\ CoverOK(mem) /\ CoverOK(disk)
    /\ job \in [Updates -> Jobs] /\ \A u \in Updates : JobOK(job[u])

\* What was stored and not erased since; what upstream's answers hold, and
\* whether they do for a span.
Kept == rows \union erased
Served(v) == kind = "umm" \/ v = Len(upstream)
Reaches(v, span) == span[1] < span[2] /\ Overlap(upstream[v].event, span)

\* A coverage is backed: what was published before and reaches into it is kept.
Backed(c) == \A v \in Versions :
    upstream[v].at < c.published /\ Served(v) /\ Reaches(v, Covered(c)) => v \in Kept
\* So is that of an update, by what it has yet to request.
Asks(todo, v) == \E i \in 1..Len(todo) : todo[i][2] <= upstream[v].at /\ Reaches(v, todo[i][1])
WillBeBacked(j) == \A v \in Versions :
    upstream[v].at < j.at /\ Served(v) /\ Reaches(v, Covered(j.covered))
        => v \in Kept \/ Asks(j.todo, v)
AllBacked ==
    /\ Backed(mem) /\ Backed(disk)
    /\ \A u \in Updates : (job[u].pc = "request") => WillBeBacked(job[u])

\* The prune leaves the periods that have not ended.
PeriodsKept ==
    /\ \A p \in periods : p = <<p[1], p[2]>>
    /\ \A v \in Kept : \A q \in upstream[v].periods : q[2] >= cutoff => <<v, q>> \in periods

\* The inductive invariant.
Inv == Typed /\ AllBacked /\ PeriodsKept
-----------------------------------------------------------------------------
(* Numbers *)

LEMMA Least == ASSUME NEW S \in SUBSET Nat, S # {}
               PROVE  \E m \in S : \A k \in S : m <= k
<1> DEFINE R == {ss \in Nat \X Nat : ss[1] < ss[2]}
<1>1. IsWellFoundedOn(R, Nat)
    BY NatLessThanWellFounded DEF OpToRel
<1>2. PICK m \in S : \A k \in S : ~ (<<k, m>> \in R)
    <2> HIDE DEF R
    <2> QED
        BY <1>1, WFMin
<1>3. ASSUME NEW k \in S PROVE m <= k
    <2>1. k \in Nat /\ m \in Nat /\ ~ (<<k, m>> \in R)
        BY <1>2
    <2> QED
        BY <2>1
<1> QED
    BY <1>3

LEMMA Greatest == ASSUME NEW S, NEW a \in Int, NEW b \in Int, S \subseteq a..b, S # {}
                  PROVE  \E m \in S : \A k \in S : k <= m
<1>1. {b - s : s \in S} \in SUBSET Nat /\ {b - s : s \in S} # {}
    <2>1. {b - s : s \in S} \in SUBSET Nat
        OBVIOUS
    <2>2. {b - s : s \in S} # {}
        OBVIOUS
    <2> QED
        BY <2>1, <2>2
<1>2. PICK m \in {b - s : s \in S} : \A k \in {b - s : s \in S} : m <= k
    BY <1>1, Least
<1>3. PICK s \in S : m = b - s
    BY <1>2
<1>4. ASSUME NEW k \in S PROVE k <= s
    <2>1. b - k >= m
        BY <1>2
    <2>2. k \in Int /\ s \in Int
        OBVIOUS
    <2> QED
        BY <2>1, <2>2, <1>3
<1> QED
    BY <1>4

LEMMA TimesMonotone == ASSUME NEW a \in Int, NEW b \in Int, NEW n \in Nat, a <= b
                       PROVE  a * n <= b * n /\ a * n \in Int
    OBVIOUS

LEMMA DayOf == ASSUME NEW t \in Nat, NEW n \in Nat \ {0}
               PROVE  LET d == t \div n IN d \in Nat /\ d * n <= t /\ t < (d + 1) * n
    OBVIOUS

\* The window of an update is one, if an empty one.
LEMMA WindowIsASpan == ASSUME Typed, NEW u \in Updates
                       PROVE  Window(u) \in Spans /\ Window(u)[1] <= Window(u)[2]
<1>1. now \in Nat /\ PerDay \in Nat \ {0} /\ HistoryDays \in Nat /\ AheadDays \in Nat
    BY DaysAssumption DEF Typed, TypeOK
<1>2. Today \in Nat
    BY <1>1, DayOf DEF Today
<1>3. /\ Today * PerDay \in Int /\ (Today + AheadDays) * PerDay \in Int
      /\ (Today - HistoryDays) * PerDay \in Int
      /\ Today * PerDay <= (Today + AheadDays) * PerDay
      /\ (Today - HistoryDays) * PerDay <= Today * PerDay
    BY <1>1, <1>2, TimesMonotone
<1> QED
    BY <1>3 DEF Window, Spans
\* What is known of a version.
LEMMA VersionIsOne ==
    ASSUME Typed, NEW v \in Versions
    PROVE  /\ v \in Nat /\ upstream[v].at \in Int /\ -1 <= upstream[v].at /\ upstream[v].at <= now
           /\ upstream[v].event \in Spans /\ upstream[v].event[1] < upstream[v].event[2]
           /\ upstream[v].periods \subseteq Spans /\ Spanning(upstream[v])
           /\ upstream[v].dismissed \in BOOLEAN
<1>1. upstream \in Seq(VersionSet) /\ now \in Nat
    BY DEF Typed, TypeOK, UpstreamInOrder
<1>2. upstream[v] \in VersionSet /\ v \in Nat
    BY <1>1 DEF Versions
<1>3. Spanning(upstream[v]) /\ upstream[v].at \in -1..now
    BY DEF Typed, UpstreamInOrder
<1> QED
    BY <1>1, <1>2, <1>3 DEF VersionSet, Spanning
-----------------------------------------------------------------------------
(* What an update requests *)

LEMMA AskedIsASequence ==
    ASSUME NEW span \in Spans, NEW since \in Int
    PROVE  Asked(span, since) \in Seq(Spans \X Int)
<1>1. <<span, since>> \in Spans \X Int
    OBVIOUS
<1>2. ASSUME NEW e \in Spans \X Int PROVE << e >> \in Seq(Spans \X Int)
    OBVIOUS
<1>3. << >> \in Seq(Spans \X Int)
    OBVIOUS
<1> QED
    BY <1>1, <1>2, <1>3 DEF Asked

LEMMA AskedAsks ==
    ASSUME Typed, NEW span \in Spans, NEW since \in Int, NEW v \in Versions,
           since <= upstream[v].at, Reaches(v, span)
    PROVE  Asks(Asked(span, since), v)
<1>1. Asked(span, since) = << <<span, since>> >>
    BY DEF Asked, Reaches
<1>2. 1 \in 1..Len(Asked(span, since)) /\ Asked(span, since)[1] = <<span, since>>
    BY <1>1
<1> QED
    BY <1>2 DEF Asks

LEMMA BothAsk ==
    ASSUME NEW s \in Seq(Spans \X Int), NEW t \in Seq(Spans \X Int), NEW v
    PROVE  /\ s \o t \in Seq(Spans \X Int)
           /\ Asks(s, v) \/ Asks(t, v) => Asks(s \o t, v)
<1>1. s \o t \in Seq(Spans \X Int)
    OBVIOUS
<1>2. ASSUME NEW i \in 1..Len(s)
      PROVE  i \in 1..Len(s \o t) /\ (s \o t)[i] = s[i]
    OBVIOUS
<1>3. ASSUME NEW i \in 1..Len(t)
      PROVE  Len(s) + i \in 1..Len(s \o t) /\ (s \o t)[Len(s) + i] = t[i]
    OBVIOUS
<1> QED
    BY <1>1, <1>2, <1>3 DEF Asks

\* An update that starts from a backed coverage will have a backed one: what
\* the window adds is asked for whole, and what is covered from the coverage's
\* publication time on.
LEMMA UnderwayWillBeBacked ==
    ASSUME Typed, NEW c \in Covers, CoverOK(c), Backed(c),
           NEW w \in Spans, w[1] <= w[2], NEW at \in 0..now
    PROVE  LET j == Underway(w, at, c) IN j \in Jobs /\ JobOK(j) /\ WillBeBacked(j)
<1> DEFINE j == Underway(w, at, c)
           before == Asked(<<w[1], c.from>>, Always)
           after == Asked(<<c.until, w[2]>>, Always)
           new == Asked(Covered(c), c.published)
<1>1. /\ w[1] \in Int /\ w[2] \in Int /\ now \in Nat /\ at \in Nat
      /\ c.from \in Int /\ c.until \in Int /\ c.published \in Int /\ Always \in Int
      /\ <<w[1], c.from>> \in Spans /\ <<c.until, w[2]>> \in Spans /\ Covered(c) \in Spans
    BY DEF Typed, TypeOK, Spans, Covers, Covered, Always
<1>2. /\ before \in Seq(Spans \X Int) /\ after \in Seq(Spans \X Int) /\ new \in Seq(Spans \X Int)
      /\ Asked(w, Always) \in Seq(Spans \X Int)
    BY <1>1, AskedIsASequence
<1>3. /\ (before \o after) \o new \in Seq(Spans \X Int)
      /\ \A v : Asks(before, v) \/ Asks(after, v) \/ Asks(new, v)
                    => Asks((before \o after) \o new, v)
    BY <1>2, BothAsk
<1>4. Requests(c, w) \in Seq(Spans \X Int)
    BY <1>2, <1>3 DEF Requests
<1>5. Widened(c, w, at) \in Covers /\ Widened(c, w, at).published = at
    BY <1>1 DEF Widened, Covers, Lesser, Greater
<1>6. j \in Jobs
    BY <1>1, <1>4, <1>5 DEF Underway, Jobs
<1>7. JobOK(j)
    <2>1. Widened(c, w, at).from <= Widened(c, w, at).until
        BY <1>1 DEF Widened, Lesser, Greater, CoverOK
    <2>2. Widened(c, w, at) # NoCoverage
        BY <1>1, <1>5 DEF NoCoverage
    <2>3. /\ j.pc = "request" /\ j.at = at /\ j.covered = Widened(c, w, at)
        BY DEF Underway
    <2> QED
        BY <1>1, <1>5, <2>1, <2>2, <2>3 DEF JobOK, CoverOK
<1>8. ASSUME NEW v \in Versions, upstream[v].at < at, Served(v),
             Reaches(v, Covered(Widened(c, w, at)))
      PROVE  v \in Kept \/ Asks(Requests(c, w), v)
    <2>1. /\ upstream[v].at \in Int /\ Always <= upstream[v].at
          /\ upstream[v].event \in Spans /\ upstream[v].event[1] < upstream[v].event[2]
        BY VersionIsOne DEF Always
    <2>2. CASE c = NoCoverage
        <3>1. Reaches(v, w)
            BY <1>8, <2>2 DEF Widened, Covered, Reaches, Overlap
        <3>2. Asks(Asked(w, Always), v)
            BY <1>1, <2>1, <3>1, AskedAsks
        <3> QED
            BY <2>2, <3>2 DEF Requests
    <2>3. CASE c # NoCoverage
        <3>1. \/ Reaches(v, <<w[1], c.from>>) \/ Reaches(v, <<c.until, w[2]>>)
              \/ Reaches(v, Covered(c))
            BY <1>1, <1>8, <2>1, <2>3
               DEF Widened, Covered, Reaches, Overlap, Lesser, Greater, CoverOK, Spans
        <3>2. CASE Reaches(v, <<w[1], c.from>>)
            BY <1>1, <1>3, <2>1, <2>3, <3>2, AskedAsks DEF Requests
        <3>3. CASE Reaches(v, <<c.until, w[2]>>)
            BY <1>1, <1>3, <2>1, <2>3, <3>3, AskedAsks DEF Requests
        <3>4. CASE Reaches(v, Covered(c))
            <4>1. CASE upstream[v].at < c.published
                BY <1>8, <3>4, <4>1 DEF Backed
            <4>2. CASE c.published <= upstream[v].at
                BY <1>1, <1>3, <2>1, <2>3, <3>4, <4>2, AskedAsks DEF Requests
            <4> QED
                BY <1>1, <2>1, <4>1, <4>2
        <3> QED
            BY <3>1, <3>2, <3>3, <3>4
    <2> QED
        BY <2>2, <2>3
<1>9. WillBeBacked(j)
    BY <1>8 DEF WillBeBacked, Underway
<1> QED
    BY <1>6, <1>7, <1>9
-----------------------------------------------------------------------------
(* What stays, as long as upstream does *)

\* A step that publishes nothing and forgets nothing that was kept backs what
\* was backed.
LEMMA StaysBacked ==
    ASSUME UNCHANGED <<kind, upstream>>, Kept \subseteq Kept'
    PROVE  /\ \A c : Backed(c) => Backed(c)'
           /\ \A j : WillBeBacked(j) => WillBeBacked(j)'
    BY DEF Backed, WillBeBacked, Kept, Asks, Served, Reaches, Versions

LEMMA StaysInOrder ==
    ASSUME Typed, upstream' = upstream, now' \in Nat, now <= now'
    PROVE  /\ UpstreamInOrder'
           /\ \A c \in Covers : CoverOK(c) => CoverOK(c)'
           /\ \A j \in Jobs : JobOK(j) => JobOK(j)'
<1>1. now \in Nat /\ UpstreamInOrder
    BY DEF Typed, TypeOK
<1>2. UpstreamInOrder'
    <2>1. \A v \in Versions : upstream[v].at \in -1..now'
        BY <1>1 DEF UpstreamInOrder
    <2> QED
        BY <1>1, <2>1 DEF UpstreamInOrder, Versions
<1>3. \A c \in Covers : CoverOK(c) => CoverOK(c)'
    BY <1>1 DEF CoverOK, Covers
<1>4. ASSUME NEW j \in Jobs, JobOK(j) PROVE JobOK(j)'
    <2>1. j.at \in -1..now'
        BY <1>1, <1>4 DEF JobOK
    <2>2. ASSUME j.pc = "request" PROVE CoverOK(j.covered)'
        <3>1. j.covered \in Covers
            BY <2>2 DEF Jobs
        <3> QED
            BY <1>3, <1>4, <2>2, <3>1 DEF JobOK
    <2> QED
        BY <1>4, <2>1, <2>2 DEF JobOK
<1> QED
    BY <1>2, <1>3, <1>4
-----------------------------------------------------------------------------
(* The steps of an update *)

\* A step of one update that leaves the archive alone: its next state must be
\* a proper one, and the coverages backed.
LEMMA UpdateKeepsInv ==
    ASSUME Inv, NEW u \in Updates, NEW j \in Jobs, JobOK(j),
           (j.pc = "request") => WillBeBacked(j),
           job' = [job EXCEPT ![u] = j],
           mem' \in Covers, CoverOK(mem'), Backed(mem'),
           disk' \in Covers, CoverOK(disk'), Backed(disk'),
           loaded' \in BOOLEAN, faults' \in 0..MaxFaults,
           UNCHANGED <<source, archive, pruning>>
    PROVE  Inv'
<1>1. /\ now \in Nat /\ now <= End /\ End \in Int
      /\ UNCHANGED <<now, kind, upstream, rows, periods, cutoff, erased>>
      /\ job \in [Updates -> Jobs]
      /\ \A w \in Updates : JobOK(job[w])
      /\ \A w \in Updates : (job[w].pc = "request") => WillBeBacked(job[w])
    BY DaysAssumption DEF Inv, Typed, AllBacked, TypeOK, source, archive, pruning, End
<1>2. job' \in [Updates -> Jobs] /\ \A w \in Updates : job'[w] = IF w = u THEN j ELSE job[w]
    BY <1>1
<1>3. UpstreamInOrder' /\ \A i \in Jobs : JobOK(i) => JobOK(i)'
    BY <1>1, StaysInOrder DEF Inv
<1>4. CoverOK(mem)' /\ CoverOK(disk)'
    BY <1>1 DEF CoverOK
<1>5. \A w \in Updates : JobOK(job[w])'
    BY <1>1, <1>2, <1>3
<1>6. TypeOK'
    <2>1. \A w \in Updates : job'[w].pc \in {"idle", "load", "request"}
        BY <1>2 DEF Jobs
    <2>2. mem' \in Coverages /\ disk' \in Coverages
        BY <1>1 DEF CoverOK, Covers, Coverages, NoCoverage
    <2> QED
        BY <1>1, <2>1, <2>2 DEF Inv, Typed, TypeOK, Versions, End, Coverages
<1>7. Typed'
    BY <1>2, <1>3, <1>4, <1>5, <1>6 DEF Typed
<1>8. (\A c : Backed(c) => Backed(c)') /\ (\A i : WillBeBacked(i) => WillBeBacked(i)')
    BY <1>1, StaysBacked DEF Kept
<1>9. Backed(mem)' /\ Backed(disk)'
    BY <1>1 DEF Backed, Kept, Served, Reaches, Versions
<1>10. AllBacked'
    BY <1>1, <1>2, <1>8, <1>9 DEF AllBacked
<1>11. PeriodsKept'
    BY <1>1 DEF Inv, PeriodsKept, Kept
<1> QED
    BY <1>7, <1>10, <1>11 DEF Inv

LEMMA BeginKeepsInv == ASSUME Inv, NEW u \in Updates, Begin(u) PROVE Inv'
<1>1. /\ now \in Nat /\ job \in [Updates -> Jobs] /\ mem \in Covers /\ CoverOK(mem) /\ Backed(mem)
      /\ disk \in Covers /\ CoverOK(disk) /\ Backed(disk) /\ faults \in 0..MaxFaults
      /\ now \in 0..now
    BY DEF Inv, Typed, AllBacked, TypeOK
<1>2. Window(u) \in Spans /\ Window(u)[1] <= Window(u)[2]
    BY WindowIsASpan DEF Inv
<1>3. /\ loaded' = TRUE /\ mem' = mem /\ disk' = disk /\ faults' = faults
      /\ UNCHANGED <<source, archive, pruning>>
    BY DEF Begin
<1>4. CASE loaded
    <2> DEFINE j == Underway(Window(u), now, mem)
    <2>1. job' = [job EXCEPT ![u] = j]
        BY <1>4 DEF Begin
    <2>2. j \in Jobs /\ JobOK(j) /\ WillBeBacked(j)
        BY <1>1, <1>2, UnderwayWillBeBacked DEF Inv
    <2> HIDE DEF j
    <2> QED
        BY <1>1, <1>3, <2>1, <2>2, UpdateKeepsInv
<1>5. CASE ~ loaded
    <2> DEFINE j == [pc |-> "load", at |-> now, window |-> Window(u)]
    <2>1. job' = [job EXCEPT ![u] = j]
        BY <1>5 DEF Begin
    <2>2. j \in Jobs /\ JobOK(j) /\ j.pc # "request"
        BY <1>1, <1>2 DEF Jobs, JobOK
    <2> HIDE DEF j
    <2> QED
        BY <1>1, <1>3, <2>1, <2>2, UpdateKeepsInv
<1> QED
    BY <1>4, <1>5

LEMMA LoadKeepsInv == ASSUME Inv, NEW u \in Updates, Load(u) PROVE Inv'
<1> DEFINE j == Underway(job[u].window, job[u].at, Loaded)
<1>1. /\ now \in Nat /\ job \in [Updates -> Jobs] /\ mem \in Covers /\ CoverOK(mem) /\ Backed(mem)
      /\ disk \in Covers /\ CoverOK(disk) /\ Backed(disk) /\ faults \in 0..MaxFaults
      /\ loaded \in BOOLEAN /\ JobOK(job[u]) /\ job[u] \in Jobs
    BY DEF Inv, Typed, AllBacked, TypeOK
<1>2. Loaded \in Covers /\ CoverOK(Loaded) /\ Backed(Loaded)
    BY <1>1 DEF Loaded
<1>3. job[u].window \in Spans /\ job[u].window[1] <= job[u].window[2] /\ job[u].at \in 0..now
    BY <1>1 DEF Load, JobOK, Jobs
<1>4. /\ mem' = Loaded /\ disk' = disk /\ loaded' = loaded /\ faults' = faults
      /\ job' = [job EXCEPT ![u] = j] /\ UNCHANGED <<source, archive, pruning>>
    BY DEF Load
<1>5. j \in Jobs /\ JobOK(j) /\ WillBeBacked(j)
    BY <1>2, <1>3, UnderwayWillBeBacked DEF Inv
<1>6. mem' \in Covers /\ CoverOK(mem') /\ Backed(mem')
    BY <1>2, <1>4
<1> HIDE DEF j
<1> QED
    BY <1>1, <1>4, <1>5, <1>6, UpdateKeepsInv

LEMMA FailKeepsInv == ASSUME Inv, NEW u \in Updates, Fail(u) PROVE Inv'
<1>1. /\ mem \in Covers /\ CoverOK(mem) /\ Backed(mem) /\ faults \in 0..MaxFaults
      /\ disk \in Covers /\ CoverOK(disk) /\ Backed(disk) /\ loaded \in BOOLEAN /\ now \in Nat
    BY DEF Inv, Typed, AllBacked, TypeOK
<1>2. Idle \in Jobs /\ JobOK(Idle) /\ Idle.pc # "request"
    BY <1>1 DEF Idle, Jobs, JobOK
<1>3. /\ mem' = mem /\ disk' = disk /\ loaded' = loaded /\ faults' \in 0..MaxFaults
      /\ job' = [job EXCEPT ![u] = Idle] /\ UNCHANGED <<source, archive, pruning>>
    BY <1>1, BoundAssumption DEF Fail, coverage
<1> QED
    BY <1>1, <1>2, <1>3, UpdateKeepsInv

\* What an update ends with is backed: nothing is left to request.
LEMMA CoverKeepsInv == ASSUME Inv, NEW u \in Updates, Cover(u) PROVE Inv'
<1> DEFINE c == job[u].covered
           j == [pc |-> "idle", at |-> job[u].at]
<1>1. /\ now \in Nat /\ job \in [Updates -> Jobs] /\ JobOK(job[u]) /\ job[u] \in Jobs
      /\ job[u].pc = "request" /\ job[u].todo = << >> /\ WillBeBacked(job[u])
      /\ loaded \in BOOLEAN /\ faults \in 0..MaxFaults
    BY DEF Inv, Typed, AllBacked, TypeOK, Cover
<1>2. c \in Covers /\ CoverOK(c) /\ c.published = job[u].at
    BY <1>1 DEF Jobs, JobOK
<1>3. Backed(c)
    BY <1>1, <1>2 DEF Backed, WillBeBacked, Asks
<1>4. j \in Jobs /\ JobOK(j) /\ j.pc # "request"
    BY <1>1 DEF Jobs, JobOK
<1>5. /\ mem' = c /\ disk' = c /\ loaded' = loaded /\ faults' = faults
      /\ job' = [job EXCEPT ![u] = j] /\ UNCHANGED <<source, archive, pruning>>
    BY DEF Cover
<1> HIDE DEF c, j
<1>6. mem' \in Covers /\ CoverOK(mem') /\ Backed(mem') /\ disk' \in Covers /\ CoverOK(disk')
      /\ Backed(disk')
    BY <1>2, <1>3, <1>5
<1> QED
    BY <1>1, <1>4, <1>5, <1>6, UpdateKeepsInv

\* The answer to a request holds what was asked for.
LEMMA AnswerHolds ==
    ASSUME Typed, NEW v \in Versions, Served(v), NEW r \in Spans \X Int, NEW until \in Int,
           r[2] <= upstream[v].at, upstream[v].at < until, Reaches(v, r[1])
    PROVE  v \in Fetch(r[1], until, r[2])
<1>1. kind \in {"umm", "entsoe"} /\ upstream \in Seq(VersionSet) /\ upstream[v].at \in Int
    BY VersionIsOne DEF Typed, TypeOK, UpstreamInOrder
<1>2. v \in Published(r[2], until)
    BY <1>1 DEF Published
<1>3. Overlap(upstream[v].event, r[1])
    BY DEF Reaches
<1>4. CASE kind = "umm"
    BY <1>2, <1>3, <1>4 DEF Fetch, FetchUmm, InEvents
<1>5. CASE kind = "entsoe"
    <2>1. v = Len(upstream)
        BY <1>5 DEF Served
    <2>2. v \in Current
        BY <1>1, <2>1 DEF Current, Versions
    <2> QED
        BY <1>2, <1>3, <1>5, <2>2 DEF Fetch, FetchEntsoe, InEvents
<1> QED
    BY <1>1, <1>4, <1>5

LEMMA FetchedAreVersions == ASSUME NEW w, NEW until, NEW since
                            PROVE  Fetch(w, until, since) \subseteq Versions
    BY DEF Fetch, FetchUmm, FetchEntsoe, InEvents, Published, Current

LEMMA RequestKeepsInv == ASSUME Inv, NEW u \in Updates, Request(u) PROVE Inv'
<1> DEFINE r == Head(job[u].todo)
           V == Fetch(r[1], job[u].at, r[2])
<1>0. PICK j : j = [job[u] EXCEPT !.todo = Tail(job[u].todo)]
    OBVIOUS
<1>1. /\ now \in Nat /\ job \in [Updates -> Jobs] /\ job[u] \in Jobs /\ JobOK(job[u])
      /\ job[u].pc = "request" /\ job[u].todo # << >> /\ WillBeBacked(job[u])
      /\ upstream \in Seq(VersionSet)
      /\ \A w \in Updates : JobOK(job[w])
      /\ rows \subseteq Versions
      /\ \A p \in periods : p[1] \in rows /\ p[2] \in upstream[p[1]].periods
    BY DEF Inv, Typed, AllBacked, TypeOK, Request, UpstreamInOrder
<1>2. job[u] \in [pc : {"request"}, at : Int, todo : Seq(Spans \X Int), covered : Covers]
    BY <1>1 DEF Jobs
<1>3. r \in Spans \X Int /\ Tail(job[u].todo) \in Seq(Spans \X Int)
    BY <1>1, <1>2
<1>4. /\ rows' = rows \union V
      /\ periods' = periods \union UNION {{v} \X upstream[v].periods : v \in V}
      /\ job' = [job EXCEPT ![u] = j]
      /\ UNCHANGED <<now, kind, upstream, mem, loaded, disk, cutoff, erased, faults>>
    BY <1>0, <1>1 DEF Request, Upsert, source, coverage, pruning
<1>5. V \subseteq Versions
    BY FetchedAreVersions
<1>6. /\ j \in Jobs /\ j.pc = "request" /\ j.at = job[u].at /\ j.covered = job[u].covered
      /\ j.todo = Tail(job[u].todo) /\ JobOK(j)
    BY <1>0, <1>1, <1>2, <1>3 DEF Jobs, JobOK
<1>7. \A v \in Versions : Asks(job[u].todo, v)
          => (r[2] <= upstream[v].at /\ Reaches(v, r[1])) \/ Asks(j.todo, v)
    <2>1. ASSUME NEW i \in 1..Len(job[u].todo)
          PROVE  job[u].todo[i] = r \/ (i - 1 \in 1..Len(j.todo) /\ j.todo[i - 1] = job[u].todo[i])
        BY <1>1, <1>2, <1>6
    <2> QED
        BY <2>1 DEF Asks
<1>8. Kept \subseteq Kept' /\ rows \subseteq rows' /\ V \subseteq rows'
    BY <1>4 DEF Kept
<1>9. ASSUME NEW v \in Versions, upstream[v].at < j.at, Served(v), Reaches(v, Covered(j.covered))
      PROVE  v \in Kept' \/ Asks(j.todo, v)
    <2>1. v \in Kept \/ Asks(job[u].todo, v)
        BY <1>1, <1>6, <1>9 DEF WillBeBacked
    <2>2. CASE r[2] <= upstream[v].at /\ Reaches(v, r[1])
        <3>1. v \in V
            BY <1>2, <1>3, <1>6, <1>9, <2>2, AnswerHolds DEF Inv
        <3> QED
            BY <1>8, <3>1 DEF Kept
    <2> QED
        BY <1>7, <1>8, <2>1, <2>2
<1> HIDE DEF V, r
<1>10. WillBeBacked(j)'
    BY <1>4, <1>9 DEF WillBeBacked, Served, Reaches, Versions, Asks
<1>11. job' \in [Updates -> Jobs] /\ \A w \in Updates : job'[w] = IF w = u THEN j ELSE job[w]
    BY <1>1, <1>4, <1>6
<1>12. (\A c : Backed(c) => Backed(c)') /\ (\A i : WillBeBacked(i) => WillBeBacked(i)')
    BY <1>4, <1>8, StaysBacked
<1>13. AllBacked'
    BY <1>4, <1>10, <1>11, <1>12 DEF Inv, AllBacked
<1>14. UpstreamInOrder' /\ \A i \in Jobs : JobOK(i) => JobOK(i)'
    BY <1>1, <1>4, StaysInOrder DEF Inv
<1>15. \A p \in periods' : p[1] \in rows' /\ p[2] \in upstream'[p[1]].periods
    BY <1>1, <1>4
<1>16. TypeOK'
    <2>1. \A w \in Updates : job'[w].pc \in {"idle", "load", "request"}
        BY <1>11 DEF Jobs
    <2>2. rows' \subseteq Versions'
        BY <1>1, <1>4, <1>5 DEF Versions
    <2> QED
        BY <1>4, <1>15, <2>1, <2>2 DEF Inv, Typed, TypeOK, Versions, Coverages, End
<1>17. Typed'
    <2>1. \A w \in Updates : JobOK(job[w])'
        BY <1>1, <1>6, <1>11, <1>14
    <2>2. CoverOK(mem)' /\ CoverOK(disk)'
        BY <1>4 DEF Inv, Typed, CoverOK
    <2> QED
        BY <1>4, <1>11, <1>14, <1>16, <2>1, <2>2 DEF Inv, Typed
<1>18. PeriodsKept'
    <2>1. ASSUME NEW v \in V, NEW q \in upstream[v].periods PROVE <<v, q>> \in periods'
        <3>1. <<v, q>> \in {v} \X upstream[v].periods
            OBVIOUS
        <3> QED
            BY <1>4, <3>1
    <2>2. Kept' = Kept \union V
        BY <1>4 DEF Kept
    <2>3. \A p \in periods' : p = <<p[1], p[2]>>
        BY <1>4 DEF Inv, PeriodsKept
    <2> QED
        BY <1>4, <2>1, <2>2, <2>3 DEF Inv, PeriodsKept
<1> QED
    BY <1>13, <1>17, <1>18 DEF Inv
-----------------------------------------------------------------------------
(* The prune, restarts and what goes on outside *)

\* What the prune erases has no period left that ends later.
LEMMA EraseKeepsPeriods ==
    ASSUME Inv, NEW before \in Int, cutoff <= before, cutoff' = before, Erase(before),
           UNCHANGED <<kind, upstream>>
    PROVE  /\ PeriodsKept' /\ Kept' = Kept
           /\ rows' \subseteq Versions' /\ erased' \subseteq Versions'
           /\ \A p \in periods' : p[1] \in rows' /\ p[2] \in upstream'[p[1]].periods
<1>1. /\ rows \subseteq Versions /\ erased \subseteq Versions /\ cutoff \in Int
      /\ \A p \in periods : p[1] \in rows /\ p[2] \in upstream[p[1]].periods
      /\ PeriodsKept
    BY DEF Inv, Typed, TypeOK
<1>2. /\ periods' = Remaining(before) /\ rows' = rows \ Emptied(before)
      /\ erased' = erased \union Emptied(before) /\ Emptied(before) \subseteq rows
      /\ upstream' = upstream
    BY DEF Erase, Emptied
<1>3. Kept' = Kept
    BY <1>2 DEF Kept
<1>4. \A p \in periods' : p \in periods /\ p[1] \notin Emptied(before)
    BY <1>2 DEF Remaining, Emptied
<1>5. \A p \in periods' : p[1] \in rows' /\ p[2] \in upstream'[p[1]].periods
    BY <1>1, <1>2, <1>4
<1>6. PeriodsKept'
    <2> SUFFICES ASSUME NEW v \in Kept, NEW q \in upstream[v].periods, q[2] >= before
                 PROVE  <<v, q>> \in periods'
        BY <1>1, <1>2, <1>3, <1>4 DEF PeriodsKept
    <2>1. v \in Versions
        BY <1>1 DEF Kept
    <2>2. q \in Spans
        BY <2>1, VersionIsOne DEF Inv
    <2>3. q[2] \in Int
        BY <2>2 DEF Spans
    <2>4. q[2] >= cutoff
        BY <1>1, <2>3
    <2>5. <<v, q>> \in periods
        BY <1>1, <2>4 DEF PeriodsKept
    <2> QED
        BY <1>2, <2>5 DEF Remaining
<1> QED
    BY <1>1, <1>2, <1>3, <1>5, <1>6 DEF Versions

LEMMA BeforeIsAPoint == ASSUME Typed PROVE Before(Today) \in Int /\ Before(FirstDay) \in Int
<1>1. Today \in Nat
    BY DaysAssumption, DayOf DEF Typed, TypeOK, Today
<1> QED
    BY <1>1, DaysAssumption, TimesMonotone DEF Before

LEMMA PruneKeepsInv == ASSUME Inv, Prune PROVE Inv'
<1>0. PICK c : c = IF loaded THEN mem ELSE Loaded
    OBVIOUS
<1>1. /\ now \in Nat /\ mem \in Covers /\ CoverOK(mem) /\ Backed(mem)
      /\ disk \in Covers /\ CoverOK(disk) /\ Backed(disk) /\ cutoff \in Int
      /\ job \in [Updates -> Jobs] /\ \A u \in Updates : JobOK(job[u])
      /\ \A u \in Updates : (job[u].pc = "request") => WillBeBacked(job[u])
    BY DEF Inv, Typed, AllBacked, TypeOK
<1>2. /\ cutoff' \in Int /\ cutoff <= cutoff' /\ Erase(cutoff') /\ loaded' = TRUE
      /\ UNCHANGED <<now, kind, upstream, job, faults>>
    BY <1>1, BeforeIsAPoint DEF Inv, Prune, source
<1>3. c \in Covers /\ CoverOK(c) /\ Backed(c)
    BY <1>0, <1>1 DEF Loaded
<1>4. \/ /\ c.from < cutoff' /\ cutoff' < c.until
         /\ mem' = [c EXCEPT !.from = cutoff'] /\ disk' = mem'
      \/ mem' = c /\ disk' = disk
    BY <1>0 DEF Prune
<1>5. /\ PeriodsKept' /\ Kept' = Kept
      /\ rows' \subseteq Versions' /\ erased' \subseteq Versions'
      /\ \A p \in periods' : p[1] \in rows' /\ p[2] \in upstream'[p[1]].periods
    BY <1>1, <1>2, EraseKeepsPeriods
<1>6. PICK d \in Covers : d = [c EXCEPT !.from = cutoff']
    BY <1>2, <1>3 DEF Covers
<1>7. ASSUME c.from < cutoff', cutoff' < c.until PROVE CoverOK(d) /\ Backed(d)
    <2>1. /\ d.from = cutoff' /\ d.until = c.until /\ d.published = c.published
          /\ c.from \in Int /\ c.until \in Int /\ c.published \in Int
        BY <1>3, <1>6 DEF Covers
    <2>2. c # NoCoverage \/ (c.from = 0 /\ c.until = 0)
        BY DEF NoCoverage
    <2>3. CoverOK(d)
        BY <1>2, <1>3, <1>7, <2>1, <2>2 DEF CoverOK
    <2>4. ASSUME NEW v \in Versions, Reaches(v, Covered(d)) PROVE Reaches(v, Covered(c))
        <3>1. upstream[v].event[1] \in Int /\ upstream[v].event[2] \in Int
            BY VersionIsOne DEF Inv, Spans
        <3> QED
            BY <1>2, <1>7, <2>1, <2>4, <3>1 DEF Reaches, Covered, Overlap
    <2>5. Backed(d)
        BY <1>3, <2>1, <2>4 DEF Backed
    <2> QED
        BY <2>3, <2>5
<1>8. mem' \in {c, d} /\ disk' \in {d, disk} /\ (mem' = d \/ disk' = d => Backed(d) /\ CoverOK(d))
    BY <1>4, <1>6, <1>7, <1>1, <1>3
<1>9. /\ mem' \in Covers /\ disk' \in Covers /\ CoverOK(mem)' /\ CoverOK(disk)'
      /\ Backed(mem)' /\ Backed(disk)'
    <2>1. \A e : Backed(e) => Backed(e)'
        BY <1>2, <1>5, StaysBacked
    <2>2. \A e : CoverOK(e) => CoverOK(e)'
        BY <1>2 DEF CoverOK
    <2> QED
        BY <1>1, <1>3, <1>8, <2>1, <2>2
<1>10. UpstreamInOrder' /\ \A j \in Jobs : JobOK(j) => JobOK(j)'
    BY <1>1, <1>2, StaysInOrder DEF Inv
<1>11. TypeOK'
    <2>1. mem' \in Coverages /\ disk' \in Coverages
        BY <1>1, <1>2, <1>9, DaysAssumption DEF CoverOK, Covers, Coverages, NoCoverage, Inv, Typed, TypeOK, End
    <2> QED
        BY <1>2, <1>5, <2>1 DEF Inv, Typed, TypeOK, Coverages, End
<1>12. Typed'
    BY <1>1, <1>2, <1>9, <1>10, <1>11 DEF Typed
<1>13. AllBacked'
    <2>1. \A j : WillBeBacked(j) => WillBeBacked(j)'
        BY <1>2, <1>5, StaysBacked
    <2> QED
        BY <1>1, <1>2, <1>9, <2>1 DEF AllBacked
<1> QED
    BY <1>5, <1>12, <1>13 DEF Inv

LEMMA RestartKeepsInv == ASSUME Inv, Restart PROVE Inv'
<1>1. /\ now \in Nat /\ now <= End /\ End \in Int /\ disk \in Covers /\ CoverOK(disk) /\ Backed(disk)
      /\ cutoff \in Int /\ faults \in 0..MaxFaults /\ MaxFaults \in Nat
    BY DaysAssumption, BoundAssumption DEF Inv, Typed, AllBacked, TypeOK, End
<1>2. /\ mem' = NoCoverage /\ loaded' = FALSE /\ job' = [u \in Updates |-> Idle] /\ disk' = disk
      /\ UNCHANGED <<now, kind, upstream>> /\ faults' \in 0..MaxFaults
    BY <1>1 DEF Restart, source
<1>3. /\ PeriodsKept' /\ Kept' = Kept /\ cutoff' \in Int
      /\ rows' \subseteq Versions' /\ erased' \subseteq Versions'
      /\ \A p \in periods' : p[1] \in rows' /\ p[2] \in upstream'[p[1]].periods
    <2>1. CASE UNCHANGED <<archive, pruning>>
        BY <1>2, <2>1 DEF Inv, Typed, TypeOK, PeriodsKept, Kept, archive, pruning, Versions
    <2>2. CASE cutoff < Before(Today) /\ cutoff' = Before(Today) /\ Erase(cutoff')
        <3>1. cutoff' \in Int /\ cutoff <= cutoff'
            BY <1>1, <2>2, BeforeIsAPoint DEF Inv
        <3> QED
            BY <1>2, <2>2, <3>1, EraseKeepsPeriods
    <2> QED
        BY <2>1, <2>2 DEF Restart
<1>4. NoCoverage \in Covers /\ CoverOK(NoCoverage) /\ Idle \in Jobs /\ JobOK(Idle) /\ Idle.pc = "idle"
    BY <1>1 DEF NoCoverage, Covers, CoverOK, Idle, Jobs, JobOK
<1>5. Backed(NoCoverage)
    BY DEF Backed, Reaches, Covered, NoCoverage
<1>6. (\A e : Backed(e) => Backed(e)') /\ UpstreamInOrder' /\ (\A e : CoverOK(e) => CoverOK(e)')
      /\ \A j \in Jobs : JobOK(j) => JobOK(j)'
    <2>1. \A e : Backed(e) => Backed(e)'
        BY <1>2, <1>3, StaysBacked
    <2>2. UpstreamInOrder' /\ \A j \in Jobs : JobOK(j) => JobOK(j)'
        BY <1>1, <1>2, StaysInOrder DEF Inv
    <2>3. \A e : CoverOK(e) => CoverOK(e)'
        BY <1>2 DEF CoverOK
    <2> QED
        BY <2>1, <2>2, <2>3
<1>7. job' \in [Updates -> Jobs] /\ \A u \in Updates : job'[u] = Idle
    BY <1>2, <1>4
<1>8. AllBacked'
    BY <1>1, <1>2, <1>4, <1>5, <1>6, <1>7 DEF AllBacked
<1>9. TypeOK'
    <2>1. mem' \in Coverages /\ disk' \in Coverages
        BY <1>1, <1>2 DEF Coverages, NoCoverage, Inv, Typed, TypeOK
    <2> QED
        BY <1>2, <1>3, <1>4, <1>7, <2>1 DEF Inv, Typed, TypeOK, Coverages, End
<1>10. Typed'
    BY <1>1, <1>2, <1>4, <1>6, <1>7, <1>9 DEF Typed
<1> QED
    BY <1>3, <1>8, <1>10 DEF Inv

\* What is published now is not published before what any coverage claims.
LEMMA PublishKeepsInv == ASSUME Inv, Publish PROVE Inv'
<1> DEFINE n == Len(upstream) + 1
<1>1. /\ now \in Nat /\ upstream \in Seq(VersionSet) /\ rows \subseteq Versions
      /\ erased \subseteq Versions /\ Len(upstream) \in Nat
      /\ \A v \in Versions : upstream[v].at < now
    BY DEF Inv, Typed, TypeOK, UpstreamInOrder, Publish
<1>2. PICK c \in Contents : upstream' = Append(upstream, Version(c, now))
    BY DEF Publish
<1>3. Version(c, now) \in VersionSet /\ Spanning(Version(c, now)) /\ Version(c, now).at = now
    BY <1>1, ContentsAssumption DEF Version, VersionSet, Spanning, Spans
<1>4. UNCHANGED <<now, kind, rows, periods, mem, loaded, disk, job, cutoff, erased, faults>>
    BY DEF Publish, archive, coverage, pruning
<1>5. /\ upstream' \in Seq(VersionSet) /\ Len(upstream') = n /\ Versions' = Versions \union {n}
      /\ upstream'[n] = Version(c, now) /\ n \notin Versions
      /\ \A v \in Versions : upstream'[v] = upstream[v]
    BY <1>1, <1>2, <1>3 DEF Versions
<1>6. UpstreamInOrder'
    <2>1. \A v \in Versions' : Spanning(upstream'[v]) /\ upstream'[v].at \in -1..now
        BY <1>1, <1>3, <1>5 DEF Inv, Typed, UpstreamInOrder
    <2>2. \A v, w \in Versions' : v < w => upstream'[v].at < upstream'[w].at
        <3>1. \A v \in Versions : ~ (n < v)
            BY <1>1 DEF Versions
        <3> QED
            BY <1>1, <1>3, <1>5, <3>1 DEF Inv, Typed, UpstreamInOrder
    <2> QED
        BY <1>4, <1>5, <2>1, <2>2 DEF UpstreamInOrder
<1>7. Typed'
    <2>1. TypeOK'
        BY <1>1, <1>4, <1>5 DEF Inv, Typed, TypeOK, Coverages, End
    <2> QED
        BY <1>4, <1>6, <2>1 DEF Inv, Typed, CoverOK, JobOK
<1>8. ASSUME NEW v \in Versions', Served(v)', v \in Versions PROVE Served(v)
    BY <1>1, <1>4, <1>5, <1>8 DEF Served
<1>9. Kept' = Kept /\ Kept \subseteq Versions
    BY <1>1, <1>4 DEF Kept
<1>10. ASSUME NEW d, CoverOK(d), Backed(d) PROVE Backed(d)'
    <2>1. ~ (now < d.published)
        BY <1>1, <1>10 DEF CoverOK, NoCoverage
    <2> SUFFICES ASSUME NEW v \in Versions', upstream'[v].at < d.published, Served(v)',
                        Reaches(v, Covered(d))'
                 PROVE  v \in Kept'
        BY DEF Backed
    <2>2. v \in Versions
        BY <1>3, <1>5, <2>1
    <2>3. Reaches(v, Covered(d)) /\ upstream[v].at < d.published
        BY <1>5, <2>2 DEF Reaches, Covered
    <2> QED
        BY <1>8, <1>9, <1>10, <2>2, <2>3 DEF Backed
<1>11. ASSUME NEW j, j.at \in -1..now, WillBeBacked(j) PROVE WillBeBacked(j)'
    <2>1. ~ (now < j.at)
        BY <1>1, <1>11
    <2> SUFFICES ASSUME NEW v \in Versions', upstream'[v].at < j.at, Served(v)',
                        Reaches(v, Covered(j.covered))'
                 PROVE  v \in Kept' \/ Asks(j.todo, v)'
        BY DEF WillBeBacked
    <2>2. v \in Versions
        BY <1>3, <1>5, <2>1
    <2>3. Reaches(v, Covered(j.covered)) /\ upstream[v].at < j.at
        BY <1>5, <2>2 DEF Reaches, Covered
    <2>4. v \in Kept \/ Asks(j.todo, v)
        BY <1>8, <1>11, <2>2, <2>3 DEF WillBeBacked
    <2>5. Asks(j.todo, v) => Asks(j.todo, v)'
        BY <1>5, <2>2 DEF Asks, Reaches
    <2> QED
        BY <1>9, <2>4, <2>5
<1>12. AllBacked'
    <2>1. /\ CoverOK(mem) /\ CoverOK(disk) /\ Backed(mem) /\ Backed(disk)
          /\ \A u \in Updates : job[u].at \in -1..now
          /\ \A u \in Updates : (job[u].pc = "request") => WillBeBacked(job[u])
        BY DEF Inv, Typed, AllBacked, JobOK
    <2>2. Backed(mem)' /\ Backed(disk)'
        BY <1>4, <1>10, <2>1
    <2>3. \A u \in Updates : (job[u].pc = "request") => WillBeBacked(job[u])'
        BY <1>4, <1>11, <2>1
    <2> QED
        BY <1>4, <2>2, <2>3 DEF AllBacked
<1>13. PeriodsKept'
    BY <1>4, <1>5, <1>9 DEF Inv, PeriodsKept
<1> QED
    BY <1>7, <1>12, <1>13 DEF Inv

LEMMA TickKeepsInv == ASSUME Inv, Tick PROVE Inv'
<1>1. /\ now \in Nat /\ now' = now + 1 /\ now' <= End /\ End \in Int /\ now' \in Nat
      /\ UNCHANGED <<kind, upstream, rows, periods, mem, loaded, disk, job, cutoff, erased, faults>>
    BY DaysAssumption DEF Tick, Inv, Typed, TypeOK, archive, coverage, pruning, End
<1>2. UpstreamInOrder' /\ (\A c \in Covers : CoverOK(c) => CoverOK(c)')
      /\ \A j \in Jobs : JobOK(j) => JobOK(j)'
    BY <1>1, StaysInOrder DEF Inv
<1>3. Typed'
    <2>1. TypeOK'
        BY <1>1 DEF Inv, Typed, TypeOK, Versions, Coverages, End
    <2> QED
        BY <1>1, <1>2, <2>1 DEF Inv, Typed
<1>4. (\A c : Backed(c) => Backed(c)') /\ \A j : WillBeBacked(j) => WillBeBacked(j)'
    BY <1>1, StaysBacked DEF Kept
<1>5. AllBacked'
    BY <1>1, <1>4 DEF Inv, AllBacked
<1>6. PeriodsKept'
    BY <1>1 DEF Inv, PeriodsKept, Kept
<1> QED
    BY <1>3, <1>5, <1>6 DEF Inv
-----------------------------------------------------------------------------
(* The inductive invariant *)

LEMMA InitInv == Init => Inv
<1> SUFFICES ASSUME Init PROVE Inv
    OBVIOUS
<1>1. now \in Nat /\ now <= End
    <2>1. FirstDay * PerDay <= LastDay * PerDay /\ LastDay * PerDay + PerDay = (LastDay + 1) * PerDay
        BY DaysAssumption, TimesMonotone
    <2>2. FirstDay * PerDay \in Nat /\ LastDay * PerDay \in Nat
        BY DaysAssumption
    <2> QED
        BY <2>1, <2>2, DaysAssumption DEF Init, End
<1>2. PICK c \in Contents : upstream = <<Version(c, now - 1)>>
    BY DEF Init
<1>3. /\ Version(c, now - 1) \in VersionSet /\ Spanning(Version(c, now - 1))
      /\ Version(c, now - 1).at = now - 1
    BY <1>1, ContentsAssumption DEF Version, VersionSet, Spanning, Spans
<1>4. upstream \in Seq(VersionSet) /\ Versions = {1} /\ upstream[1] = Version(c, now - 1)
    BY <1>2, <1>3 DEF Versions
<1>5. UpstreamInOrder
    BY <1>1, <1>3, <1>4 DEF UpstreamInOrder
<1>6. /\ NoCoverage \in Covers /\ NoCoverage \in Coverages /\ CoverOK(NoCoverage)
      /\ Idle \in Jobs /\ JobOK(Idle) /\ Idle.pc = "idle" /\ Backed(NoCoverage)
    BY <1>1, DaysAssumption
       DEF NoCoverage, Covers, Coverages, CoverOK, Idle, Jobs, JobOK, Backed, Reaches, Covered, End
<1>7. /\ rows = {} /\ erased = {} /\ periods = {} /\ mem = NoCoverage /\ disk = NoCoverage
      /\ loaded = FALSE /\ faults \in 0..MaxFaults /\ kind \in {"umm", "entsoe"}
      /\ job \in [Updates -> Jobs] /\ \A u \in Updates : job[u] = Idle
    BY <1>6, BoundAssumption DEF Init
<1>8. cutoff \in Int
    <2>1. (FirstDay - HistoryDays - MarginDays) * PerDay \in Int
        BY DaysAssumption
    <2> QED
        BY <2>1 DEF Init, Before
<1>9. TypeOK
    BY <1>1, <1>6, <1>7, <1>8 DEF TypeOK
<1>10. Typed
    BY <1>5, <1>6, <1>7, <1>9 DEF Typed
<1>11. AllBacked /\ PeriodsKept
    BY <1>6, <1>7 DEF AllBacked, PeriodsKept, Kept
<1> QED
    BY <1>10, <1>11 DEF Inv

LEMMA NextInv == Inv /\ [Next]_vars => Inv'
<1> SUFFICES ASSUME Inv, [Next]_vars PROVE Inv'
    OBVIOUS
<1>1. CASE UNCHANGED vars
    <2>1. UNCHANGED <<now, kind, upstream, rows, periods, mem, loaded, disk, job, cutoff, erased, faults>>
        BY <1>1 DEF vars, source, archive, coverage, pruning
    <2>2. Typed'
        BY <2>1 DEF Inv, Typed, TypeOK, UpstreamInOrder, CoverOK, JobOK, Versions, End, Coverages
    <2>3. AllBacked'
        <3>1. (\A c : Backed(c) => Backed(c)') /\ \A j : WillBeBacked(j) => WillBeBacked(j)'
            BY <2>1, StaysBacked DEF Kept
        <3> QED
            BY <2>1, <3>1 DEF Inv, AllBacked
    <2>4. PeriodsKept'
        BY <2>1 DEF Inv, PeriodsKept, Kept
    <2> QED
        BY <2>2, <2>3, <2>4 DEF Inv
<1>2. CASE Next
    BY <1>2, BeginKeepsInv, LoadKeepsInv, RequestKeepsInv, CoverKeepsInv, FailKeepsInv,
       PruneKeepsInv, RestartKeepsInv, PublishKeepsInv, TickKeepsInv DEF Next, Step
<1> QED
    BY <1>1, <1>2
-----------------------------------------------------------------------------
(* What the model reads *)

\* The periods in force that hold a slot.
Counted(V, P, s, o) == {p \in InForce(V, P, s \div PerStep, o) : p[2][1] <= s /\ s < p[2][2]}

LEMMA StepOf == ASSUME NEW t \in Int, NEW n \in Nat \ {0}
                PROVE  LET d == t \div n IN d \in Int /\ d * n <= t /\ t < (d + 1) * n
    OBVIOUS

\* Between the last breakpoint and the slot no period begins or ends.
LEMMA BreakpointsSuffice ==
    ASSUME NEW lo \in Int, NEW s \in Int, NEW at \in lo..s, NEW a \in Int, NEW e \in Int,
           lo <= a /\ a <= s => a <= at, lo <= e /\ e <= s => e <= at
    PROVE  (a <= at /\ at < e) <=> (a <= s /\ s < e)
<1>1. at \in Int /\ lo <= at /\ at <= s
    OBVIOUS
<1> QED
    BY <1>1

\* The step function is right at every slot (_profile, for_slot).
LEMMA StepsAreExact ==
    ASSUME NEW V, NEW P, NEW s \in Int, NEW o, \A p \in P : p[2] \in Spans
    PROVE  ForSlot(V, P, s, o) = Cardinality(Counted(V, P, s, o))
<1> DEFINE day == s \div PerStep
           F == InForce(V, P, day, o)
           B == {b \in Breakpoints(F, day) : b <= s}
           at == CHOOSE b \in B : \A c \in B : c <= b
<1>1. day * PerStep \in Int /\ (day + 1) * PerStep \in Int /\ day * PerStep <= s /\ s < (day + 1) * PerStep
    <2>1. PerStep \in Nat \ {0}
        BY DaysAssumption
    <2>2. day \in Int /\ day * PerStep <= s /\ s < (day + 1) * PerStep
        BY <2>1, StepOf
    <2> HIDE DEF day
    <2> QED
        BY <2>1, <2>2
<1>2. \A p \in F : p[2][1] \in Int /\ p[2][2] \in Int
    BY DEF InForce, Spans
<1>3. PICK lo \in Int : lo = day * PerStep
    BY <1>1
<1>4. PICK hi \in Int : hi = (day + 1) * PerStep
    BY <1>1
<1>5. B = {b \in {e \in {lo} \union {p[2][1] : p \in F} \union {p[2][2] : p \in F} :
                      lo <= e /\ e < hi} : b <= s}
    BY <1>3, <1>4 DEF Breakpoints
<1>6. \A p \in F : (p[2][1] <= at /\ at < p[2][2]) <=> (p[2][1] <= s /\ s < p[2][2])
    <2>1. lo <= s /\ s < hi
        BY <1>1, <1>3, <1>4
    <2> HIDE DEF day, F, B
    <2>2. B \subseteq lo..s /\ lo \in B
        BY <1>2, <1>5, <2>1
    <2>3. \A p \in F : /\ lo <= p[2][1] /\ p[2][1] <= s => p[2][1] \in B
                       /\ lo <= p[2][2] /\ p[2][2] <= s => p[2][2] \in B
        BY <1>2, <1>5, <2>1
    <2>4. at \in B /\ \A c \in B : c <= at
        <3>1. \E m \in B : \A c \in B : c <= m
            BY <2>2, Greatest
        <3> QED
            BY <3>1
    <2> HIDE DEF at
    <2>5. at \in lo..s
        BY <2>2, <2>4
    <2>6. ASSUME NEW p \in F
          PROVE  (p[2][1] <= at /\ at < p[2][2]) <=> (p[2][1] <= s /\ s < p[2][2])
        <3>1. p[2][1] \in Int /\ p[2][2] \in Int
            BY <1>2
        <3>2. /\ lo <= p[2][1] /\ p[2][1] <= s => p[2][1] <= at
              /\ lo <= p[2][2] /\ p[2][2] <= s => p[2][2] <= at
            BY <2>3, <2>4
        <3> QED
            BY <2>5, <3>1, <3>2, BreakpointsSuffice
    <2> QED
        BY <2>6
<1>7. {p \in F : p[2][1] <= at /\ at < p[2][2]} = Counted(V, P, s, o)
    <2>1. Counted(V, P, s, o) = {p \in F : p[2][1] <= s /\ s < p[2][2]}
        BY DEF Counted
    <2> HIDE DEF day, F, B, at
    <2> QED
        BY <1>6, <2>1
<1>8. ForSlot(V, P, s, o) = Cardinality({p \in F : p[2][1] <= at /\ at < p[2][2]})
    BY DEF ForSlot
<1> QED
    BY <1>7, <1>8

LEMMA First == ASSUME NEW S \in SUBSET Nat, S # {}
               PROVE  LET m == CHOOSE w \in S : \A x \in S : w <= x
                      IN  m \in S /\ \A x \in S : m <= x
<1>1. \E w \in S : \A x \in S : w <= x
    BY Least
<1> QED
    BY <1>1

\* A version is known until the next one.
LEMMA KnownUntilNext ==
    ASSUME Typed, NEW V \in SUBSET Versions, NEW v \in V, {w \in V : w > v} # {}
    PROVE  \E n \in {w \in V : w > v} : /\ KnownUntil(V, v) = upstream[n].at
                                        /\ \A w \in V : w > v => upstream[n].at <= upstream[w].at
<1> DEFINE later == {w \in V : w > v}
           n == CHOOSE w \in later : \A x \in later : w <= x
<1>1. \A x \in Versions : x \in Nat /\ upstream[x].at \in Int
    BY VersionIsOne
<1>2. later \in SUBSET Nat /\ later # {}
    BY <1>1
<1>3. n \in later /\ \A x \in later : n <= x
    <2> HIDE DEF later
    <2> QED
        BY <1>2, First
<1>4. KnownUntil(V, v) = upstream[n].at
    BY DEF KnownUntil
<1> HIDE DEF n
<1>5. ASSUME NEW w \in V, w > v PROVE upstream[n].at <= upstream[w].at
    <2>1. n \in Versions /\ w \in Versions /\ n <= w /\ n \in Nat /\ w \in Nat
        BY <1>1, <1>3, <1>5
    <2>2. n = w \/ n < w
        BY <2>1
    <2> QED
        BY <1>1, <2>1, <2>2 DEF Typed, UpstreamInOrder
<1> QED
    BY <1>3, <1>4, <1>5

\* While all that follow it are later than an origin, it is known at it.
LEMMA KnownWhile ==
    ASSUME Typed, NEW V \in SUBSET Versions, NEW v \in V, NEW o \in Int, o < Forever,
           \A w \in V : w > v => o < upstream[w].at
    PROVE  o < KnownUntil(V, v)
<1>1. CASE {w \in V : w > v} = {}
    BY <1>1 DEF KnownUntil
<1>2. CASE {w \in V : w > v} # {}
    BY <1>2, KnownUntilNext
<1> QED
    BY <1>1, <1>2

\* The last version known at an origin.
Latest(v, o) ==
    v \in Versions /\ upstream[v].at <= o /\ \A w \in Versions : upstream[w].at <= o => w <= v

\* Only one version is in force at an origin: the latest, if it is there.
LEMMA OneInForce ==
    ASSUME Typed, NEW V \in SUBSET Versions, NEW P, NEW day, NEW o \in Int,
           NEW p \in InForce(V, P, day, o)
    PROVE  /\ \A q \in InForce(V, P, day, o) : q[1] = p[1]
           /\ \A v \in V : Latest(v, o) => p[1] = v
<1>1. \A x \in Versions : x \in Nat /\ upstream[x].at \in Int
    BY VersionIsOne
<1>2. ASSUME NEW q \in InForce(V, P, day, o), NEW w \in V, upstream[w].at <= o
      PROVE  ~ (q[1] < w)
    <2>1. q[1] \in V /\ o < KnownUntil(V, q[1])
        BY DEF InForce
    <2>2. ASSUME q[1] < w PROVE FALSE
        <3>1. q[1] \in Nat /\ w \in Nat /\ w > q[1]
            BY <1>1, <2>1, <2>2
        <3>2. PICK n \in V : KnownUntil(V, q[1]) = upstream[n].at /\ upstream[n].at <= upstream[w].at
            BY <2>1, <3>1, KnownUntilNext
        <3>3. n \in Versions /\ w \in Versions
            OBVIOUS
        <3> QED
            BY <1>1, <1>2, <2>1, <3>2, <3>3
    <2> QED
        BY <2>2
<1>3. \A q \in InForce(V, P, day, o) : q[1] \in V /\ upstream[q[1]].at <= o
    BY DEF InForce
<1>4. \A q \in InForce(V, P, day, o) : q[1] = p[1]
    BY <1>1, <1>2, <1>3
<1>5. ASSUME NEW v \in V, Latest(v, o) PROVE p[1] = v
    BY <1>1, <1>2, <1>3, <1>5 DEF Latest
<1> QED
    BY <1>4, <1>5

LEMMA AtMostOneLatest == ASSUME Typed, NEW v, NEW w, NEW o, Latest(v, o), Latest(w, o)
                         PROVE  v = w
<1>1. v \in Nat /\ w \in Nat
    BY VersionIsOne DEF Latest
<1> QED
    BY <1>1 DEF Latest

LEMMA SomeIsLatest ==
    ASSUME Typed, NEW v \in Versions, NEW o, upstream[v].at <= o
    PROVE  \E w \in Versions : Latest(w, o)
<1> DEFINE known == {w \in Versions : upstream[w].at <= o}
<1>1. upstream \in Seq(VersionSet)
    BY DEF Typed, UpstreamInOrder
<1>2. PICK n \in Int : n = Len(upstream)
    BY <1>1
<1>3. known \subseteq 1..n /\ known # {}
    BY <1>2 DEF Versions
<1>4. \E m \in known : \A k \in known : k <= m
    <2> HIDE DEF known
    <2> QED
        BY <1>3, 1 \in Int, Greatest, Zenon
<1> QED
    BY <1>4 DEF Latest

\* The periods that the market knows of at an origin, at a slot.
True(s, o) == {q \in UNION {upstream[v].periods : v \in InForceOf(o)} : q[1] <= s /\ s < q[2]}

LEMMA InForceIsLatest == ASSUME NEW v, NEW o
                         PROVE  v \in InForceOf(o) <=> Latest(v, o) /\ ~ upstream[v].dismissed
    BY DEF InForceOf, Latest

LEMMA TrueAreOf ==
    ASSUME Typed, NEW o, NEW v, Latest(v, o), NEW s
    PROVE  True(s, o) = {q \in upstream[v].periods : ~ upstream[v].dismissed /\ q[1] <= s /\ s < q[2]}
<1>1. \A w \in InForceOf(o) : w = v
    BY InForceIsLatest, AtMostOneLatest
<1>2. ~ upstream[v].dismissed <=> v \in InForceOf(o)
    BY InForceIsLatest
<1> QED
    BY <1>1, <1>2 DEF True

LEMMA TrueAreFinite == ASSUME Typed, NEW s, NEW o PROVE IsFiniteSet(True(s, o))
<1>1. CASE InForceOf(o) = {}
    <2>1. True(s, o) = {}
        BY <1>1 DEF True
    <2> QED
        BY <2>1, FS_EmptySet
<1>2. CASE InForceOf(o) # {}
    <2>1. PICK v \in InForceOf(o) : Latest(v, o)
        BY <1>2, InForceIsLatest
    <2>2. True(s, o) \subseteq upstream[v].periods
        BY <2>1, TrueAreOf
    <2>3. IsFiniteSet(upstream[v].periods)
        BY <2>1, VersionIsOne DEF Spanning, Latest
    <2> QED
        BY <2>2, <2>3, FS_Subset
<1> QED
    BY <1>1, <1>2

\* A counted period is one of a stored version, the same for all.
LEMMA CountedIsAPeriod ==
    ASSUME Inv, NEW s, NEW o, NEW p \in Counted(rows, periods, s, o)
    PROVE  /\ p = <<p[1], p[2]>> /\ p[1] \in rows /\ p[1] \in Versions
           /\ p[2] \in upstream[p[1]].periods /\ p[2] \in Spans
           /\ p[2][1] <= s /\ s < p[2][2]
           /\ upstream[p[1]].at <= o /\ ~ upstream[p[1]].dismissed
           /\ p \in InForce(rows, periods, s \div PerStep, o)
<1>1. /\ p \in InForce(rows, periods, s \div PerStep, o) /\ p \in periods
      /\ p[2][1] <= s /\ s < p[2][2]
      /\ upstream[p[1]].at <= o /\ ~ upstream[p[1]].dismissed
    BY DEF Counted, InForce
<1>2. /\ p = <<p[1], p[2]>> /\ p[1] \in rows /\ p[1] \in Versions
      /\ p[2] \in upstream[p[1]].periods
    BY <1>1 DEF Inv, PeriodsKept, Typed, TypeOK
<1>3. p[2] \in Spans
    BY <1>2, VersionIsOne DEF Inv
<1> QED
    BY <1>1, <1>2, <1>3

LEMMA CountedAreFinite ==
    ASSUME Inv, NEW s, NEW o \in Int PROVE IsFiniteSet(Counted(rows, periods, s, o))
<1> DEFINE C == Counted(rows, periods, s, o)
<1>1. CASE C = {}
    BY <1>1, FS_EmptySet
<1>2. CASE C # {}
    <2>1. PICK p \in C : TRUE
        BY <1>2
    <2>2. \A q \in C : q[1] = p[1]
        <3>1. Typed /\ rows \in SUBSET Versions
            BY DEF Inv, Typed, TypeOK
        <3>2. \A q \in C : q \in InForce(rows, periods, s \div PerStep, o)
            BY DEF Counted
        <3> QED
            BY <2>1, <3>1, <3>2, OneInForce
    <2>3. IsFiniteSet(upstream[p[1]].periods)
        BY <2>1, CountedIsAPeriod, VersionIsOne DEF Spanning, Inv
    <2>4. \A q \in C : q = <<p[1], q[2]>> /\ q[2] \in upstream[p[1]].periods
        BY <2>2, CountedIsAPeriod
    <2> DEFINE T == upstream[p[1]].periods
               f == [q \in C |-> q[2]]
    <2>5. f \in Injection(C, T)
        <3> HIDE DEF C
        <3> QED
            BY <2>4 DEF Injection, IsInjective
    <2> HIDE DEF C, T, f
    <2>6. IsFiniteSet(C)
        BY <2>3, <2>5, FS_Injection DEF T
    <2> QED
        BY <2>6 DEF C
<1> QED
    BY <1>1, <1>2
-----------------------------------------------------------------------------
(* What the coverage claims *)

LEMMA AnswerableIs ==
    ASSUME Inv, NEW c \in {mem, disk}, NEW so \in Answerable(c)
    PROVE  /\ so[1] \in Int /\ so[2] \in Int /\ cutoff <= so[1]
           /\ c.from \in Int /\ c.until \in Int /\ c.published \in Int
           /\ c.from <= so[1] /\ so[1] < c.until
           /\ so[2] < c.published /\ so[2] < Forever /\ Knowable(so[2]) /\ Backed(c)
<1>1. /\ c \in Covers /\ CoverOK(c) /\ Backed(c) /\ cutoff \in Int /\ now \in Nat /\ now <= End
      /\ c # NoCoverage /\ End \in Int
    BY DaysAssumption DEF Inv, Typed, AllBacked, TypeOK, Answerable, End
<1>2. /\ so \in (Greater(c.from, cutoff)..(c.until - 1)) \X ((FirstDay * PerDay)..(c.published - 1))
      /\ Knowable(so[2])
    BY <1>1 DEF Answerable
<1>3. c.from \in Int /\ c.until \in Int /\ c.published \in Int /\ c.published <= now
    BY <1>1 DEF Covers, CoverOK
<1>4. FirstDay * PerDay \in Int /\ Greater(c.from, cutoff) \in Int
    BY <1>1, <1>3, DaysAssumption DEF Greater
<1>5. so[1] \in Int /\ so[2] \in Int /\ Greater(c.from, cutoff) <= so[1] /\ so[1] < c.until /\ so[2] < c.published
    BY <1>2, <1>3, <1>4
<1>6. c.from <= so[1] /\ cutoff <= so[1]
    BY <1>1, <1>3, <1>5 DEF Greater
<1> QED
    BY <1>1, <1>2, <1>3, <1>5, <1>6 DEF Forever

\* The latest version at such an origin is kept, if it reaches into what is
\* covered.
LEMMA LatestIsKept ==
    ASSUME Inv, NEW c \in {mem, disk}, NEW so \in Answerable(c),
           NEW v, Latest(v, so[2]), Overlap(upstream[v].event, Covered(c))
    PROVE  v \in Kept
<1>1. /\ so[1] \in Int /\ so[2] \in Int /\ c.from \in Int /\ c.until \in Int /\ c.published \in Int
      /\ c.from <= so[1] /\ so[1] < c.until /\ so[2] < c.published
      /\ Knowable(so[2]) /\ Backed(c)
    BY AnswerableIs
<1>2. v \in Versions /\ upstream[v].at <= so[2] /\ upstream[v].at \in Int /\ v \in Nat
    BY VersionIsOne DEF Latest, Inv
<1>3. Served(v)
    <2>1. CASE kind = "umm"
        BY <2>1 DEF Served
    <2>2. CASE kind # "umm"
        <3>1. \A w \in Versions : w <= v
            BY <1>1, <2>2 DEF Knowable, Latest
        <3>2. upstream \in Seq(VersionSet)
            BY DEF Inv, Typed, UpstreamInOrder
        <3>3. PICK n \in Nat : n = Len(upstream)
            BY <3>2
        <3>4. n = v
            BY <1>2, <3>1, <3>3 DEF Versions
        <3> QED
            BY <3>3, <3>4 DEF Served
    <2> QED
        BY <2>1, <2>2
<1>4. Reaches(v, Covered(c))
    BY <1>1 DEF Reaches, Covered
<1>5. upstream[v].at < c.published
    BY <1>1, <1>2
<1> QED
    BY <1>1, <1>2, <1>3, <1>4, <1>5 DEF Backed

\* While it is stored it is in force, with the periods left at a slot.
LEMMA StoredIsInForce ==
    ASSUME Inv, NEW s \in Int, NEW o \in Int, o < Forever, cutoff <= s,
           NEW v \in Kept, Latest(v, o), ~ upstream[v].dismissed,
           NEW q \in upstream[v].periods, q[1] <= s, s < q[2]
    PROVE  <<v, q>> \in Counted(rows, periods, s, o)
<1>1. v \in Versions /\ q \in Spans /\ q[1] \in Int /\ q[2] \in Int /\ cutoff \in Int
    BY VersionIsOne DEF Latest, Inv, Typed, TypeOK, Spans
<1>2. q[2] >= cutoff
    BY <1>1
<1>3. <<v, q>> \in periods
    BY <1>2 DEF Inv, PeriodsKept
<1>4. v \in rows
    <2>1. \A p \in periods : p[1] \in rows
        BY DEF Inv, Typed, TypeOK
    <2>2. <<v, q>>[1] = v
        OBVIOUS
    <2> QED
        BY <1>3, <2>1, <2>2
<1>5. o < KnownUntil(rows, v)
    <2>1. rows \in SUBSET Versions
        BY DEF Inv, Typed, TypeOK
    <2>2. ASSUME NEW w \in rows, w > v PROVE o < upstream[w].at
        <3>1. w \in Versions /\ w \in Nat /\ v \in Nat /\ upstream[w].at \in Int
            BY <1>1, <2>1, VersionIsOne DEF Inv
        <3>2. ~ (upstream[w].at <= o)
            BY <2>2, <3>1 DEF Latest
        <3> QED
            BY <3>1, <3>2
    <2> QED
        BY <1>4, <2>1, <2>2, KnownWhile DEF Inv
<1>6. Overlap(q, <<(s \div PerStep) * PerStep, (s \div PerStep + 1) * PerStep>>)
    <2>1. PICK lo \in Int, hi \in Int : /\ lo = (s \div PerStep) * PerStep
                                        /\ hi = (s \div PerStep + 1) * PerStep
                                        /\ lo <= s /\ s < hi
        <3>1. PerStep \in Nat \ {0}
            BY DaysAssumption
        <3>2. s \div PerStep \in Int /\ (s \div PerStep) * PerStep <= s /\ s < (s \div PerStep + 1) * PerStep
            BY <3>1, StepOf
        <3>3. (s \div PerStep) * PerStep \in Int /\ (s \div PerStep + 1) * PerStep \in Int
            BY <3>1, <3>2
        <3> QED
            BY <3>2, <3>3
    <2> QED
        BY <1>1, <2>1 DEF Overlap
<1>7. <<v, q>> \in InForce(rows, periods, s \div PerStep, o)
    BY <1>3, <1>4, <1>5, <1>6 DEF InForce, Latest
<1> QED
    BY <1>7 DEF Counted

\* The step functions that the model reads are the periods counted.
LEMMA ForSlotCounts ==
    ASSUME Inv, NEW s \in Int, NEW o
    PROVE  ForSlot(rows, periods, s, o) = Cardinality(Counted(rows, periods, s, o))
<1>1. \A p \in periods : p[2] \in Spans
    BY VersionIsOne DEF Inv, Typed, TypeOK
<1> QED
    BY <1>1, StepsAreExact

\* A capacity that was known is counted: the latest version was kept, and its
\* periods that hold the slot were not pruned.
LEMMA InvNoneIsMissed == Inv => NoneIsMissed
<1> SUFFICES ASSUME Inv, NEW c \in {mem, disk}, NEW so \in Answerable(c)
             PROVE  Unavailable(so[1], so[2]) <= ForSlot(rows, periods, so[1], so[2])
    BY DEF NoneIsMissed
<1>1. PICK s \in Int, o \in Int : s = so[1] /\ o = so[2]
    BY AnswerableIs
<1>2. /\ cutoff <= s /\ c.from \in Int /\ c.until \in Int /\ c.from <= s /\ s < c.until
      /\ o < Forever
    BY <1>1, AnswerableIs
<1> DEFINE T == True(s, o)
           C == Counted(rows, periods, s, o)
           f == [q \in T |-> <<CHOOSE v : Latest(v, o), q>>]
<1>3. Unavailable(s, o) = Cardinality(T) /\ ForSlot(rows, periods, s, o) = Cardinality(C)
    BY ForSlotCounts DEF Unavailable, True
<1>4. ASSUME NEW q \in T PROVE f[q] \in C
    <2>1. PICK v \in InForceOf(o) : q \in upstream[v].periods /\ q[1] <= s /\ s < q[2]
        BY DEF True
    <2>2. Latest(v, o) /\ ~ upstream[v].dismissed
        BY InForceIsLatest
    <2>3. f[q] = <<v, q>>
        BY <2>2, AtMostOneLatest DEF Inv
    <2>4. v \in Versions /\ upstream[v].event \in Spans /\ Spanning(upstream[v]) /\ q \in Spans
        BY <2>1, <2>2, VersionIsOne DEF Inv, Latest
    <2>5. Overlap(upstream[v].event, Covered(c))
        BY <1>2, <2>1, <2>4 DEF Overlap, Covered, Spanning, Spans
    <2>6. v \in Kept
        BY <1>1, <2>2, <2>5, LatestIsKept
    <2> HIDE DEF f
    <2> QED
        BY <1>2, <2>1, <2>2, <2>3, <2>6, StoredIsInForce
<1>5. IsFiniteSet(C)
    BY CountedAreFinite
<1>6. f \in Injection(T, C)
    <2>1. \A q \in T : f[q] = <<CHOOSE v : Latest(v, o), q>>
        OBVIOUS
    <2>2. f \in [T -> C]
        BY <1>4
    <2>3. IsInjective(f)
        BY <2>1 DEF IsInjective
    <2> QED
        BY <2>2, <2>3 DEF Injection
<1> HIDE DEF T, C, f
<1>7. Cardinality(T) <= Cardinality(C)
    BY <1>5, <1>6, FS_Injection
<1> QED
    BY <1>1, <1>3, <1>7

\* One counted although it is not true: were every version known at the origin
\* in what is covered and not pruned, the latest would be stored, so only its
\* periods counted, and they are true.
LEMMA InvOnlyMovedOrPrunedOutlive == Inv => OnlyMovedOrPrunedOutlive
<1> SUFFICES ASSUME Inv, NEW c \in {mem, disk}, NEW so \in Answerable(c),
                    \A v \in Versions : upstream[v].at <= so[2]
                        => Overlap(upstream[v].event, Covered(c)) /\ v \notin erased
             PROVE  ~ (Unavailable(so[1], so[2]) < ForSlot(rows, periods, so[1], so[2]))
    BY DEF OnlyMovedOrPrunedOutlive
<1>1. PICK s \in Int, o \in Int : s = so[1] /\ o = so[2]
    BY AnswerableIs
<1> DEFINE T == True(s, o)
           C == Counted(rows, periods, s, o)
           f == [p \in C |-> p[2]]
<1>2. Unavailable(s, o) = Cardinality(T) /\ ForSlot(rows, periods, s, o) = Cardinality(C)
    BY ForSlotCounts DEF Unavailable, True
<1>3. ASSUME NEW p \in C
      PROVE  /\ p = <<p[1], p[2]>> /\ p[2] \in T /\ Latest(p[1], o)
    <2>1. /\ p = <<p[1], p[2]>> /\ p[1] \in rows /\ p[1] \in Versions
          /\ p[2] \in upstream[p[1]].periods /\ p[2][1] <= s /\ s < p[2][2]
          /\ upstream[p[1]].at <= o /\ ~ upstream[p[1]].dismissed
          /\ p \in InForce(rows, periods, s \div PerStep, o)
        BY CountedIsAPeriod
    <2>2. PICK v \in Versions : Latest(v, o)
        BY <2>1, SomeIsLatest DEF Inv
    <2>3. upstream[v].at <= o
        BY <2>2 DEF Latest
    <2>4. v \in Kept /\ v \notin erased
        BY <1>1, <2>2, <2>3, LatestIsKept
    <2>5. v \in rows
        BY <2>4 DEF Kept
    <2>6. p[1] = v
        <3>1. Typed /\ rows \in SUBSET Versions
            BY DEF Inv, Typed, TypeOK
        <3> QED
            BY <2>1, <2>2, <2>5, <3>1, OneInForce
    <2>7. p[1] \in InForceOf(o)
        BY <2>1, <2>2, <2>6, InForceIsLatest
    <2> QED
        BY <2>1, <2>2, <2>6, <2>7 DEF True
<1>4. f \in Injection(C, T)
    <2>1. \A p \in C : f[p] = p[2] /\ p[2] \in T
        BY <1>3
    <2>2. \A p, q \in C : p[1] = q[1]
        BY <1>3, AtMostOneLatest DEF Inv
    <2>3. \A p \in C : p = <<p[1], p[2]>>
        BY <1>3
    <2>4. f \in [C -> T]
        BY <2>1
    <2> HIDE DEF C, T
    <2>5. IsInjective(f)
        BY <2>2, <2>3 DEF IsInjective
    <2> QED
        BY <2>4, <2>5 DEF Injection
<1>5. IsFiniteSet(T)
    BY TrueAreFinite DEF Inv
<1> HIDE DEF T, C, f
<1>6. /\ Cardinality(C) <= Cardinality(T) /\ IsFiniteSet(C)
      /\ Cardinality(C) \in Nat /\ Cardinality(T) \in Nat
    BY <1>4, <1>5, FS_Injection, FS_CardinalityType
<1> QED
    BY <1>1, <1>2, <1>6

\* A period that holds a slot of a window overlaps it.
LEMMA InvWindowIsEnough == Inv => WindowIsEnough
<1> SUFFICES ASSUME Inv, NEW u \in Updates, NEW o \in Origins,
                    NEW s \in Window(u)[1]..(Window(u)[2] - 1)
             PROVE  ForSlot(LoadedRows(Window(u)), Within(Window(u)), s, o)
                        = ForSlot(rows, periods, s, o)
    BY DEF WindowIsEnough
<1> DEFINE w == Window(u)
<1>1. w[1] \in Int /\ w[2] \in Int /\ s \in Int /\ w[1] <= s /\ s < w[2]
    <2>1. w \in Spans
        BY WindowIsASpan DEF Inv
    <2>2. w[1] \in Int /\ w[2] \in Int
        BY <2>1 DEF Spans
    <2> QED
        BY <2>2
<1> HIDE DEF w
<1>2. \A p \in periods : p[2] \in Spans
    BY VersionIsOne DEF Inv, Typed, TypeOK
<1>3. \A p \in periods : p[2][1] <= s /\ s < p[2][2] => p \in Within(w)
    BY <1>1, <1>2 DEF Within, Overlap, Spans
<1>4. Within(w) \subseteq periods
    BY DEF Within
<1>5. Counted(rows, Within(w), s, o) = Counted(rows, periods, s, o)
    BY <1>3, <1>4 DEF Counted, InForce
<1>6. ForSlot(rows, Within(w), s, o) = Cardinality(Counted(rows, Within(w), s, o))
    BY <1>1, <1>2, <1>4, StepsAreExact
<1>7. ForSlot(rows, periods, s, o) = Cardinality(Counted(rows, periods, s, o))
    BY <1>1, ForSlotCounts
<1> QED
    BY <1>5, <1>6, <1>7 DEF LoadedRows, w
-----------------------------------------------------------------------------
(* The theorems *)

\* What is stored is what upstream published, the coverages are spans of points
\* with a publication time, and every update is at one of its suspensions.
THEOREM TypeCorrect == Spec => []TypeOK
<1>1. Inv => TypeOK
    BY DEF Inv, Typed
<1> QED
    BY InitInv, NextInv, <1>1, PTL DEF Spec

\* Whatever updates overlap (async_update), fail or are cut short by a restart,
\* and however often the prune runs beside them (async_prune), a capacity that
\* the market knew to be unavailable counts as unavailable to the model, at
\* every slot and origin that the coverage in memory or in meta claims.
THEOREM ArchiveMissesNone == Spec => []NoneIsMissed
<1> QED
    BY InitInv, NextInv, InvNoneIsMissed, PTL DEF Spec

\* And the other way: one that counts without being unavailable takes a version
\* that moved out of what is covered or was pruned (prune_umm_rows).
THEOREM ArchiveOutlivesNone == Spec => []OnlyMovedOrPrunedOutlive
<1> QED
    BY InitInv, NextInv, InvOnlyMovedOrPrunedOutlive, PTL DEF Spec

\* What load_umm_rows reads of a window answers its slots as all that is stored.
THEOREM WindowSuffices == Spec => []WindowIsEnough
<1> QED
    BY InitInv, NextInv, InvWindowIsEnough, PTL DEF Spec
=============================================================================
