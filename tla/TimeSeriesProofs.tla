--------------------------- MODULE TimeSeriesProofs ---------------------------
(***************************************************************************)
(* Proofs about TimeSeriesSource: its types, and that it implements        *)
(* SeriesMirror.                                                           *)
(***************************************************************************)
EXTENDS TimeSeriesSource, TLAPS

\* What an answer in hand and the table hold are values upstream published.
NothingMadeUp ==
    /\ \A p \in Points : stored[p] <= upstream[p]
    /\ \A u \in Updates : job[u].pc \in Running =>
          \A p \in Points : job[u].rows[p] <= upstream[p]

\* The waits a record leaves, and the holes a prune or a tick leaves, are waits.
LEMMA HoleTypes ==
    ASSUME TypeOK
    PROVE  /\ NoHoles \in Holes
           /\ \A h \in Holes : Ticked(h) \in Holes
           /\ \A h \in Holes, b \in Int : Forgotten(h, b) \in Holes
           /\ \A u \in Updates : job[u] \in RunningJobs => Recorded(u) \in Holes
<1>1. NoHoles \in Holes
  BY WaitAssumption DEF NoHoles, Holes, Nothing, Waits
<1>2. \A w \in Waits : Sooner(w) \in Waits
  BY WaitAssumption DEF Sooner, Waits
<1>3. \A h \in Holes : Ticked(h) \in Holes
  BY <1>2 DEF Ticked, Holes
<1>4. ASSUME NEW h \in Holes, NEW b \in Int
      PROVE  Forgotten(h, b) \in Holes
  BY WaitAssumption DEF Forgotten, Holes, Waits
<1>5. ASSUME NEW u \in Updates, job[u] \in RunningJobs
      PROVE  Recorded(u) \in Holes
  <2>1. \A last, at : RetryWait(last, at) \in 0..HistoryWait
    BY WaitAssumption DEF RetryWait
  <2>2. \A w \in 0..HistoryWait : Left(u, w) \in 0..HistoryWait
    BY <1>5, WaitAssumption DEF Left, RunningJobs
  <2>3. holes.closed \in Waits /\ holes.open \in Waits
    BY DEF TypeOK, Holes
  <2>4. \A p \in Points : holes.closed[p] \in 0..HistoryWait
                          /\ holes.open[p] \in 0..HistoryWait
    BY <2>3 DEF Waits
  <2>5. 0 \in 0..HistoryWait
    BY WaitAssumption
  <2> DEFINE asked   == job[u].asked
             gaps    == Missing(job[u].win) \intersect asked
             starts  == Horizon(job[u].win, job[u].now) \intersect gaps
             wait(p) == Left(u, RetryWait(Greatest(RunOf(gaps, p)), job[u].now))
             beyond  == UNION {RunOf(gaps, q) : q \in starts}
             closed  == [p \in Points |->
                 IF p \in gaps \ beyond THEN wait(p)
                 ELSE IF p \in asked THEN 0 ELSE holes.closed[p]]
             open    == [p \in Points |->
                 IF p \in starts THEN wait(p)
                 ELSE IF \E q \in asked : p <= q THEN 0 ELSE holes.open[p]]
  <2>6. \A p : wait(p) \in 0..HistoryWait
    BY <2>1, <2>2
  <2>7. Recorded(u) = [closed |-> closed, open |-> open]
    BY DEF Recorded
  <2> HIDE DEF wait, starts, beyond, gaps, asked
  <2>8. closed \in Waits
    BY <2>4, <2>5, <2>6 DEF Waits
  <2>9. open \in Waits
    BY <2>4, <2>5, <2>6 DEF Waits
  <2> QED  BY <2>7, <2>8, <2>9 DEF Holes
<1> QED  BY <1>1, <1>3, <1>4, <1>5

\* The requests an update plans, whichever days they cover, are sets of points.
LEMMA JobTypes ==
    ASSUME TypeOK, NEW u \in Updates
    PROVE  /\ Requests(Wanted(job[u].win, job[u].now)) \in SUBSET SUBSET Points
           /\ job[u].pc \in Running => job[u] \in RunningJobs
           /\ job[u].pc = "query" => job[u] \in QueryJobs
           /\ job[u].pc = "saving" => job[u] \in SavingJobs
<1>1. Requests(Wanted(job[u].win, job[u].now)) \in SUBSET SUBSET Points
  BY DEF Requests
<1>2. job[u] \in Jobs
  BY DEF TypeOK
<1> QED
  BY <1>1, <1>2 DEF Jobs, Idle, QueryJobs, RunningJobs, SavingJobs, Running

\* The steps of one update keep the types of the jobs.
LEMMA UpdateTypes ==
    ASSUME TypeOK, NEW u \in Updates,
           \/ \E S \in Windows : Start(u, S)
           \/ Query(u) \/ Answer(u) \/ Fail(u) \/ Store(u)
           \/ Record(u) \/ Save(u) \/ Abort(u)
    PROVE  job' \in [Updates -> Jobs]
<1>1. ASSUME NEW j \in Jobs, job' = [job EXCEPT ![u] = j]
      PROVE  job' \in [Updates -> Jobs]
  BY <1>1 DEF TypeOK
<1>2. Idle \in Jobs
  BY DEF Jobs
<1>3. RunningJobs \subseteq Jobs /\ SavingJobs \subseteq Jobs
  BY DEF Jobs
<1>4. Nothing \in Values
  BY GridAssumption DEF Nothing, Values
<1>5. CASE \E S \in Windows : Start(u, S)
  <2>1. PICK S \in Windows : Start(u, S)
    BY <1>5
  <2>2. [pc |-> "query", win |-> S \intersect Available, now |-> now] \in Jobs
    BY DEF Jobs, QueryJobs, Available, TypeOK
  <2> QED  BY <1>1, <2>1, <2>2 DEF Start
<1>6. CASE Query(u)
  <2> DEFINE wanted == Wanted(job[u].win, job[u].now)
             j == [pc |-> "fetching", win |-> job[u].win, now |-> job[u].now, since |-> 0,
                   todo |-> Requests(wanted), rows |-> Nothing, asked |-> {},
                   failed |-> {}, lacking |-> {}, erased |-> {}]
  <2>1. Requests(wanted) \in SUBSET SUBSET Points /\ job[u].win \in SUBSET Points
                                    /\ job[u].now \in Points
    BY <1>6, JobTypes DEF Query, QueryJobs
  <2>2. j \in RunningJobs
    BY <2>1, <1>4, WaitAssumption DEF RunningJobs, Running, TypeOK
  <2>3. job' = [job EXCEPT ![u] = IF wanted = {} THEN Idle ELSE j]
    BY <1>6 DEF Query
  <2> HIDE DEF j, wanted
  <2> QED  BY <1>1, <1>2, <1>3, <2>2, <2>3
<1>7. CASE Answer(u)
  <2>1. PICK r \in NextRequests(u) :
           job' = [job EXCEPT ![u].pc = IF \A p \in r : upstream[p] = 0
                                        THEN After(job[u], r) ELSE "storing",
                              ![u].rows = [p \in Points |->
                                  IF p \in r THEN upstream[p] ELSE 0],
                              ![u].todo = @ \ {r},
                              ![u].asked = @ \union r,
                              ![u].lacking = @ \union {p \in r : upstream[p] = 0}]
    BY <1>7 DEF Answer
  <2>2. job[u] \in RunningJobs
    BY <1>7, JobTypes DEF Answer, Running
  <2>3. r \in SUBSET Points
    BY <2>2 DEF NextRequests, RunningJobs
  <2> DEFINE rows == [p \in Points |-> IF p \in r THEN upstream[p] ELSE 0]
             pc == IF \A p \in r : upstream[p] = 0
                   THEN After(job[u], r) ELSE "storing"
             lacking == {p \in r : upstream[p] = 0}
             j == [job[u] EXCEPT !.pc = pc, !.rows = rows, !.todo = @ \ {r},
                                 !.asked = @ \union r, !.lacking = @ \union lacking]
  <2>4. rows \in Values
    BY GridAssumption DEF Values, TypeOK
  <2>5. pc \in Running
    BY DEF After, Running
  <2>6. job' = [job EXCEPT ![u] = j]
    BY <2>1
  <2>7. lacking \in SUBSET Points
    BY <2>3
  <2> HIDE DEF rows, pc, lacking
  <2>8. j \in RunningJobs
    BY <2>2, <2>3, <2>4, <2>5, <2>7 DEF RunningJobs
  <2> QED  BY <1>1, <1>3, <2>6, <2>8
<1>8. CASE Fail(u)
  <2>1. PICK r \in NextRequests(u) :
           job' = [job EXCEPT ![u] =
               IF job[u].todo = {r} /\ job[u].asked = {} THEN Idle
               ELSE [job[u] EXCEPT !.pc = After(job[u], r), !.todo = @ \ {r},
                                   !.failed = @ \union r]]
    BY <1>8 DEF Fail
  <2>2. job[u] \in RunningJobs
    BY <1>8, JobTypes DEF Fail, Running
  <2>3. r \in SUBSET Points
    BY <2>2 DEF NextRequests, RunningJobs
  <2> DEFINE j == [job[u] EXCEPT !.pc = After(job[u], r), !.todo = @ \ {r},
                                 !.failed = @ \union r]
  <2>4. After(job[u], r) \in Running
    BY DEF After, Running
  <2>5. j \in RunningJobs
    BY <2>2, <2>3, <2>4 DEF RunningJobs
  <2>6. job' = [job EXCEPT ![u] =
                   IF job[u].todo = {r} /\ job[u].asked = {} THEN Idle ELSE j]
    BY <2>1 DEF TypeOK
  <2> HIDE DEF j
  <2> QED  BY <1>1, <1>2, <1>3, <2>5, <2>6
<1>9. CASE Store(u)
  <2> DEFINE pc == IF job[u].todo = {} THEN "recheck" ELSE "fetching"
             j == [job[u] EXCEPT !.pc = pc, !.rows = Nothing]
  <2>1. job[u] \in RunningJobs
    BY <1>9, JobTypes DEF Store, Running
  <2>2. pc \in Running
    BY DEF Running
  <2>3. job' = [job EXCEPT ![u] = j]
    BY <1>9 DEF Store
  <2> HIDE DEF pc
  <2>4. j \in RunningJobs
    BY <2>1, <2>2, <1>4 DEF RunningJobs
  <2> QED  BY <1>1, <1>3, <2>3, <2>4
<1>10. CASE Record(u)
  <2>1. job[u] \in RunningJobs
    BY <1>10, JobTypes DEF Record, Running
  <2>2. [pc |-> "saving", text |-> holes'] \in SavingJobs
    BY <1>10, <2>1, HoleTypes DEF Record, SavingJobs
  <2> QED  BY <1>1, <1>3, <1>10, <2>2 DEF Record
<1>11. CASE Save(u)
  BY <1>1, <1>2, <1>11 DEF Save
<1>12. CASE Abort(u)
  BY <1>1, <1>2, <1>12 DEF Abort
<1> QED
  BY <1>5, <1>6, <1>7, <1>8, <1>9, <1>10, <1>11, <1>12

\* Publishing only adds revisions.
LEMMA PublishGrows ==
    ASSUME TypeOK, Publish
    PROVE  /\ upstream' \in Values
           /\ \A p \in Points : upstream[p] <= upstream'[p]
<1>1. PICK S \in SUBSET Points :
         /\ \A p \in S : upstream[p] < LastRev
         /\ upstream' = [p \in Points |-> IF p \in S THEN upstream[p] + 1
                                          ELSE upstream[p]]
  BY DEF Publish
<1>2. \A p \in Points : upstream[p] \in 0..LastRev
  BY DEF TypeOK, Values
<1>3. \A p \in Points : upstream'[p] \in 0..LastRev /\ upstream[p] <= upstream'[p]
  BY <1>1, <1>2, GridAssumption
<1> QED
  BY <1>1, <1>3 DEF Values

\* Every step keeps the types.
LEMMA TypesKept == TypeOK /\ [Next]_vars => TypeOK'
<1> SUFFICES ASSUME TypeOK, [Next]_vars PROVE TypeOK'
  OBVIOUS
<1>1. ASSUME NEW u \in Updates,
             \/ \E S \in Windows : Start(u, S)
             \/ Query(u) \/ Answer(u) \/ Fail(u) \/ Store(u)
             \/ Record(u) \/ Save(u) \/ Abort(u)
      PROVE  TypeOK'
  <2>1. job' \in [Updates -> Jobs]
    BY <1>1, UpdateTypes
  <2>2. CASE \/ \E S \in Windows : Start(u, S)
             \/ Query(u) \/ Answer(u) \/ Fail(u)
    BY <2>1, <2>2 DEF TypeOK, Start, Query, Answer, Fail
  <2>3. CASE Store(u)
    <3>1. job[u] \in RunningJobs
      BY <2>3, JobTypes DEF Store, Running
    <3>2. stored' \in Values
      BY <2>3, <3>1 DEF Store, RunningJobs, Values, TypeOK
    <3> QED  BY <2>1, <2>3, <3>2 DEF TypeOK, Store
  <2>4. CASE Record(u)
    <3>1. job[u] \in RunningJobs
      BY <2>4, JobTypes DEF Record, Running
    <3>2. holes' \in Holes
      BY <2>4, <3>1, HoleTypes DEF Record
    <3> QED  BY <2>1, <2>4, <3>2 DEF TypeOK, Record
  <2>5. CASE Save(u)
    <3>1. disk' \in Holes
      BY <2>5, JobTypes DEF Save, SavingJobs
    <3> QED  BY <2>1, <2>5, <3>1 DEF TypeOK, Save
  <2>6. CASE Abort(u)
    BY <2>1, <2>6, GridAssumption DEF TypeOK, Abort, Fault
  <2> QED  BY <1>1, <2>2, <2>3, <2>4, <2>5, <2>6
<1>2. CASE PruneRows
  <2>1. PICK before \in Int :
           /\ stored' = [p \in Points |-> IF p < before THEN 0 ELSE stored[p]]
           /\ job' = [u \in Updates |->
                 IF job[u].pc \in Running
                 THEN [job[u] EXCEPT !.erased = @ \union {p \in Points : p < before}]
                 ELSE job[u]]
           /\ pruner' = [pc |-> "forget", before |-> before]
    <3>1. DayStart(Day(now) - Back - Margin) \in Int
      BY GridAssumption DEF DayStart, Day, TypeOK, Points
    <3> QED  BY <1>2, <3>1 DEF PruneRows
  <2>2. stored' \in Values
    BY <2>1, GridAssumption DEF TypeOK, Values
  <2>3. ASSUME NEW u \in Updates
        PROVE  (IF job[u].pc \in Running
                THEN [job[u] EXCEPT !.erased = @ \union {p \in Points : p < before}]
                ELSE job[u]) \in Jobs
    <3>1. CASE job[u].pc \in Running
      <4>1. job[u] \in RunningJobs
        BY <3>1, JobTypes
      <4>2. [job[u] EXCEPT !.erased = @ \union {p \in Points : p < before}] \in RunningJobs
        BY <4>1 DEF RunningJobs
      <4> QED  BY <3>1, <4>2 DEF Jobs
    <3>2. CASE job[u].pc \notin Running
      BY <3>2 DEF TypeOK
    <3> QED  BY <3>1, <3>2
  <2>4. job' \in [Updates -> Jobs]
    BY <2>1, <2>3
  <2>5. pruner' \in [pc : {"forget"}, before : Int]
    BY <2>1
  <2> QED  BY <1>2, <2>2, <2>4, <2>5 DEF TypeOK, PruneRows
<1>3. CASE PruneHoles
  <2>1. pruner.before \in Int
    BY <1>3 DEF TypeOK, PruneHoles, SavingJobs
  <2>2. holes' \in Holes
    BY <1>3, <2>1, HoleTypes DEF PruneHoles, TypeOK
  <2>3. pruner' \in SavingJobs
    BY <1>3, <2>2 DEF PruneHoles, SavingJobs
  <2> QED  BY <1>3, <2>2, <2>3 DEF TypeOK, PruneHoles
<1>4. CASE PruneSave
  <2>1. disk' \in Holes
    BY <1>4 DEF TypeOK, PruneSave, SavingJobs
  <2>2. pruner' \in [pc : {"idle", "due"}]
    BY <1>4 DEF PruneSave, Idle
  <2> QED  BY <1>4, <2>1, <2>2 DEF TypeOK, PruneSave
<1>11. CASE PruneAbort
  BY <1>11, GridAssumption DEF TypeOK, PruneAbort, Fault, Idle
<1>5. CASE Reset
  BY <1>5, HoleTypes, GridAssumption DEF TypeOK, Reset, Fault
<1>6. CASE Restart
  <2>1. Idle \in Jobs /\ Idle \in [pc : {"idle", "due"}]
    BY DEF Jobs, Idle
  <2> QED  BY <1>6, <2>1, GridAssumption DEF TypeOK, Restart, Fault
<1>7. CASE Publish
  BY <1>7, PublishGrows DEF TypeOK, Publish
<1>8. CASE Tick
  <2>1. ASSUME NEW u \in Updates
        PROVE  job'[u] \in Jobs
    <3>1. CASE job[u].pc = "saving"
      <4>1. job[u] \in SavingJobs /\ Ticked(job[u].text) \in Holes
        BY <3>1, JobTypes, HoleTypes DEF SavingJobs
      <4>2. [job[u] EXCEPT !.text = Ticked(@)] \in SavingJobs
        BY <4>1 DEF SavingJobs
      <4> QED  BY <1>8, <3>1, <4>2 DEF Tick, Jobs
    <3>2. CASE job[u].pc \in Running
      <4>1. job[u] \in RunningJobs
        BY <3>2, JobTypes
      <4> DEFINE since == IF job[u].since < HistoryWait THEN job[u].since + 1
                          ELSE job[u].since
      <4>2. since \in 0..HistoryWait
        BY <4>1, WaitAssumption DEF RunningJobs
      <4> HIDE DEF since
      <4>3. [job[u] EXCEPT !.since = since] \in RunningJobs
        BY <4>1, <4>2 DEF RunningJobs
      <4>4. job'[u] = [job[u] EXCEPT !.since = since]
        BY <1>8, <3>2 DEF Tick, Running, since
      <4> QED  BY <4>3, <4>4 DEF Jobs
    <3>3. CASE job[u].pc # "saving" /\ job[u].pc \notin Running
      BY <1>8, <3>3 DEF Tick, TypeOK
    <3> QED  BY <3>1, <3>2, <3>3
  <2>2. job' \in [Updates -> Jobs]
    BY <1>8, <2>1 DEF Tick
  <2>3. pruner' \in [pc : {"idle", "due"}] \union [pc : {"forget"}, before : Int]
                     \union SavingJobs
    <3>1. CASE pruner.pc = "saving"
      <4>1. pruner \in SavingJobs /\ Ticked(pruner.text) \in Holes
        BY <3>1, HoleTypes DEF TypeOK, SavingJobs
      <4>2. [pruner EXCEPT !.text = Ticked(@)] \in SavingJobs
        BY <4>1 DEF SavingJobs
      <4> QED  BY <1>8, <3>1, <4>2 DEF Tick
    <3>2. CASE pruner.pc # "saving"
      BY <1>8, <3>2 DEF Tick, TypeOK
    <3> QED  BY <3>1, <3>2
  <2>4. holes' \in Holes /\ disk' \in Holes
    BY <1>8, HoleTypes DEF Tick, TypeOK
  <2> QED  BY <1>8, <2>2, <2>3, <2>4 DEF TypeOK, Tick
<1>9. CASE Advance
  <2>1. now' \in Points
    BY <1>9, GridAssumption DEF TypeOK, Advance, Points
  <2>2. pruner' \in [pc : {"idle", "due"}] \/ pruner' = pruner
    BY <1>9 DEF Advance
  <2> QED  BY <1>9, <2>1, <2>2 DEF TypeOK, Advance
<1>10. CASE UNCHANGED vars
  BY <1>10 DEF TypeOK, vars
<1> QED
  BY <1>1, <1>2, <1>3, <1>4, <1>5, <1>6, <1>7, <1>8, <1>9, <1>10, <1>11 DEF Next

\* The types hold in a new installation.
LEMMA TypesAtStart == Init => TypeOK
<1> SUFFICES ASSUME Init PROVE TypeOK
  OBVIOUS
<1>1. Nothing \in Values /\ Nothing \in Waits
  BY GridAssumption, WaitAssumption DEF Nothing, Values, Waits
<1>2. Idle \in Jobs /\ Idle \in [pc : {"idle", "due"}]
  BY DEF Jobs, Idle
<1>3. 0 \in Points /\ 0 \in 0..MaxFaults
  BY GridAssumption DEF Points
<1> QED  BY <1>1, <1>2, <1>3 DEF TypeOK, Init, NoHoles, Holes

\* The types hold in every state, for any grid, subclass, number of updates
\* and number of faults.
THEOREM TypeCorrect == Spec => []TypeOK
  BY TypesAtStart, TypesKept, PTL DEF Spec

\* No step lets the table, or an answer in hand, run ahead of upstream.
LEMMA NothingIsMadeUp ==
    TypeOK /\ NothingMadeUp /\ [Next]_vars => NothingMadeUp'
<1> SUFFICES ASSUME TypeOK, NothingMadeUp, [Next]_vars PROVE NothingMadeUp'
  OBVIOUS
<1>1. \A p \in Points : stored[p] \in Int /\ upstream[p] \in 0..LastRev
  BY GridAssumption DEF TypeOK, Values
<1>2. \A u \in Updates : job[u].pc \in Running =>
         \A p \in Points : job[u].rows[p] \in Int
  BY JobTypes, GridAssumption DEF RunningJobs, Values
<1>3. ASSUME UNCHANGED <<upstream, stored>>,
             NEW u \in Updates, NEW j, job' = [job EXCEPT ![u] = j],
             j.pc \in Running => \A p \in Points : j.rows[p] <= upstream[p]
      PROVE  NothingMadeUp'
  BY <1>3 DEF NothingMadeUp, TypeOK
<1>4. ASSUME NEW u \in Updates, NEW S \in Windows, Start(u, S)
      PROVE  NothingMadeUp'
  <2>1. "query" \notin Running
    BY DEF Running
  <2> QED  BY <1>3, <1>4, <2>1 DEF Start
<1>5. ASSUME NEW u \in Updates, Query(u)
      PROVE  NothingMadeUp'
  <2> DEFINE wanted == Wanted(job[u].win, job[u].now)
             j == IF wanted = {} THEN Idle
                  ELSE [pc |-> "fetching", win |-> job[u].win,
                        now |-> job[u].now, since |-> 0,
                        todo |-> Requests(wanted), rows |-> Nothing, asked |-> {},
                        failed |-> {}, lacking |-> {}, erased |-> {}]
  <2>1. Idle.pc \notin Running
    BY DEF Idle, Running
  <2>2. \A p \in Points : Nothing[p] <= upstream[p]
    BY <1>1, GridAssumption DEF Nothing
  <2>3. j.pc \in Running => \A p \in Points : j.rows[p] <= upstream[p]
    BY <2>1, <2>2
  <2>4. job' = [job EXCEPT ![u] = j] /\ UNCHANGED <<upstream, stored>>
    BY <1>5 DEF Query
  <2> HIDE DEF j
  <2> QED  BY <1>3, <2>3, <2>4
<1>6. ASSUME NEW u \in Updates, Answer(u)
      PROVE  NothingMadeUp'
  <2>1. PICK r \in NextRequests(u) :
           job' = [job EXCEPT ![u].pc = IF \A p \in r : upstream[p] = 0
                                        THEN After(job[u], r) ELSE "storing",
                              ![u].rows = [p \in Points |->
                                  IF p \in r THEN upstream[p] ELSE 0],
                              ![u].todo = @ \ {r},
                              ![u].asked = @ \union r,
                              ![u].lacking = @ \union {p \in r : upstream[p] = 0}]
    BY <1>6 DEF Answer
  <2>2. job[u] \in RunningJobs
    BY <1>6, JobTypes DEF Answer, Running
  <2> DEFINE rows == [p \in Points |-> IF p \in r THEN upstream[p] ELSE 0]
             pc == IF \A p \in r : upstream[p] = 0
                   THEN After(job[u], r) ELSE "storing"
             j == [job[u] EXCEPT !.pc = pc, !.rows = rows, !.todo = @ \ {r},
                                 !.asked = @ \union r,
                                 !.lacking = @ \union {p \in r : upstream[p] = 0}]
  <2>3. \A p \in Points : rows[p] <= upstream[p]
    BY <1>1, GridAssumption
  <2>4. job' = [job EXCEPT ![u] = j]
    BY <2>1
  <2> HIDE DEF rows, pc
  <2>5. j.rows = rows
    BY <2>2 DEF RunningJobs
  <2> QED  BY <1>3, <1>6, <2>3, <2>4, <2>5 DEF Answer
<1>7. ASSUME NEW u \in Updates, Fail(u)
      PROVE  NothingMadeUp'
  <2>1. PICK r \in NextRequests(u) :
           job' = [job EXCEPT ![u] =
               IF job[u].todo = {r} /\ job[u].asked = {} THEN Idle
               ELSE [job[u] EXCEPT !.pc = After(job[u], r), !.todo = @ \ {r},
                                   !.failed = @ \union r]]
    BY <1>7 DEF Fail
  <2>2. job[u] \in RunningJobs /\ job[u].pc \in Running
    BY <1>7, JobTypes DEF Fail, Running
  <2> DEFINE k == [job[u] EXCEPT !.pc = After(job[u], r), !.todo = @ \ {r},
                                 !.failed = @ \union r]
             j == IF job[u].todo = {r} /\ job[u].asked = {} THEN Idle ELSE k
  <2>3. k.rows = job[u].rows
    BY <2>2 DEF RunningJobs
  <2>4. Idle.pc \notin Running
    BY DEF Idle, Running
  <2>5. job' = [job EXCEPT ![u] = j]
    BY <2>1 DEF TypeOK
  <2> HIDE DEF k
  <2>6. j.pc \in Running => \A p \in Points : j.rows[p] <= upstream[p]
    BY <2>2, <2>3, <2>4 DEF NothingMadeUp
  <2> HIDE DEF j
  <2> QED  BY <1>3, <1>7, <2>5, <2>6 DEF Fail
<1>8. ASSUME NEW u \in Updates, Store(u)
      PROVE  NothingMadeUp'
  <2> DEFINE pc == IF job[u].todo = {} THEN "recheck" ELSE "fetching"
             j == [job[u] EXCEPT !.pc = pc, !.rows = Nothing]
  <2>1. job[u] \in RunningJobs /\ job[u].pc \in Running
    BY <1>8, JobTypes DEF Store, Running
  <2>2. job' = [job EXCEPT ![u] = j] /\ upstream' = upstream
    BY <1>8 DEF Store
  <2>3. \A p \in Points : stored'[p] <= upstream'[p]
    BY <1>8, <2>1 DEF Store, NothingMadeUp
  <2>4. j.rows = Nothing
    BY <2>1 DEF RunningJobs
  <2>5. \A p \in Points : Nothing[p] <= upstream[p]
    BY <1>1, GridAssumption DEF Nothing
  <2> HIDE DEF j
  <2> QED  BY <2>2, <2>3, <2>4, <2>5 DEF NothingMadeUp, TypeOK
<1>9. ASSUME NEW u \in Updates, Record(u) \/ Save(u) \/ Abort(u)
      PROVE  NothingMadeUp'
  <2>1. "saving" \notin Running /\ Idle.pc \notin Running
    BY DEF Idle, Running
  <2> DEFINE j == [pc |-> "saving", text |-> holes']
  <2>2. j.pc \notin Running
    BY <2>1
  <2>3. \/ job' = [job EXCEPT ![u] = j]
        \/ job' = [job EXCEPT ![u] = Idle]
    BY <1>9 DEF Record, Save, Abort
  <2>4. UNCHANGED <<upstream, stored>>
    BY <1>9 DEF Record, Save, Abort
  <2> HIDE DEF j
  <2> QED  BY <1>3, <2>1, <2>2, <2>3, <2>4
<1>10. CASE PruneRows
  <2>1. PICK before \in Int :
           /\ stored' = [p \in Points |-> IF p < before THEN 0 ELSE stored[p]]
           /\ job' = [u \in Updates |->
                 IF job[u].pc \in Running
                 THEN [job[u] EXCEPT !.erased = @ \union {p \in Points : p < before}]
                 ELSE job[u]]
    <3>1. DayStart(Day(now) - Back - Margin) \in Int
      BY GridAssumption DEF DayStart, Day, TypeOK, Points
    <3> QED  BY <1>10, <3>1 DEF PruneRows
  <2>2. \A p \in Points : stored'[p] <= upstream'[p]
    BY <1>1, <1>10, <2>1, GridAssumption DEF PruneRows, NothingMadeUp
  <2>3. ASSUME NEW u \in Updates, job'[u].pc \in Running
        PROVE  job[u].pc \in Running /\ job'[u].rows = job[u].rows
    <3>1. job[u].pc \in Running
      BY <2>1, <2>3
    <3>2. job[u] \in RunningJobs
      BY <3>1, JobTypes
    <3> QED  BY <2>1, <3>1, <3>2 DEF RunningJobs
  <2> QED  BY <1>10, <2>2, <2>3 DEF PruneRows, NothingMadeUp
<1>11. CASE PruneHoles \/ PruneSave \/ PruneAbort \/ Reset \/ Advance
            \/ UNCHANGED vars
  <2>1. UNCHANGED <<upstream, stored, job>>
    BY <1>11 DEF PruneHoles, PruneSave, PruneAbort, Reset, Advance, vars
  <2> QED  BY <2>1 DEF NothingMadeUp
<1>12. CASE Restart
  <2>1. Idle.pc \notin Running
    BY DEF Idle, Running
  <2> QED  BY <1>12, <2>1 DEF Restart, NothingMadeUp
<1>13. CASE Publish
  <2>1. /\ \A p \in Points : upstream[p] <= upstream'[p]
        /\ \A p \in Points : upstream'[p] \in Int
        /\ UNCHANGED <<stored, job>>
    BY <1>13, PublishGrows, GridAssumption DEF Publish, Values
  <2> QED  BY <1>1, <1>2, <2>1 DEF NothingMadeUp
<1>14. CASE Tick
  <2>1. UNCHANGED <<upstream, stored>>
    BY <1>14 DEF Tick
  <2>2. ASSUME NEW u \in Updates, job'[u].pc \in Running
        PROVE  job[u].pc \in Running /\ job'[u].rows = job[u].rows
    <3>1. CASE job[u].pc = "saving"
      <4>1. job[u] \in SavingJobs
        BY <3>1, JobTypes
      <4>2. job'[u] = [job[u] EXCEPT !.text = Ticked(@)]
        BY <1>14, <3>1 DEF Tick
      <4>3. job'[u].pc = "saving"
        BY <4>1, <4>2 DEF SavingJobs
      <4> QED  BY <2>2, <4>3 DEF Running
    <3>2. CASE job[u].pc \in Running
      <4>1. job[u] \in RunningJobs
        BY <3>2, JobTypes
      <4> QED  BY <1>14, <3>2, <4>1 DEF Tick, RunningJobs, Running
    <3>3. CASE job[u].pc # "saving" /\ job[u].pc \notin Running
      BY <1>14, <2>2, <3>3 DEF Tick
    <3> QED  BY <3>1, <3>2, <3>3
  <2> QED  BY <2>1, <2>2 DEF NothingMadeUp
<1> QED
  BY <1>4, <1>5, <1>6, <1>7, <1>8, <1>9, <1>10, <1>11, <1>12, <1>13, <1>14
  DEF Next

\* Every step is one the promise of a source allows, or changes neither the
\* table nor upstream.
LEMMA MirrorStep ==
    TypeOK /\ NothingMadeUp /\ [Next]_vars => [Mirror!Next]_Mirror!mirror
<1> SUFFICES ASSUME TypeOK, NothingMadeUp, [Next]_vars
             PROVE  Mirror!Next \/ UNCHANGED <<upstream, stored>>
  BY DEF Mirror!mirror
<1>1. stored \in Values /\ upstream \in Values
  BY DEF TypeOK
<1>2. CASE \E u \in Updates : Store(u)
  <2>1. PICK u \in Updates : Store(u)
    BY <1>2
  <2>2. job[u] \in RunningJobs /\ job[u].pc \in Running
    BY <2>1, JobTypes DEF Store, Running
  <2>3. job[u].rows \in Values
    BY <2>2 DEF RunningJobs
  <2>4. \A p \in Points : job[u].rows[p] <= upstream[p]
    BY <2>2 DEF NothingMadeUp
  <2>5. stored' = [p \in Points |-> IF job[u].rows[p] # 0 THEN job[u].rows[p]
                                    ELSE stored[p]]
    BY <2>1 DEF Store
  <2>6. stored' \in [Points -> 0..LastRev]
    BY <1>1, <2>3, <2>5 DEF Values
  <2>7. \A p \in Points :
           stored'[p] = stored[p] \/ stored'[p] \in 1..upstream[p]
    BY <1>1, <2>3, <2>4, <2>5, GridAssumption DEF Values
  <2>8. upstream' = upstream
    BY <2>1 DEF Store
  <2>9. Mirror!Receive
    BY <2>6, <2>7, <2>8 DEF Mirror!Receive
  <2> QED  BY <2>9 DEF Mirror!Next
<1>3. CASE PruneRows
  <2> DEFINE before == DayStart(Day(now) - Back - Margin)
             old == {p \in Points : p < before}
  <2>1. before \in Int
    BY GridAssumption DEF DayStart, Day, TypeOK, Points
  <2>2. stored' = [p \in Points |-> IF p < before THEN 0 ELSE stored[p]]
        /\ upstream' = upstream
    BY <1>3 DEF PruneRows
  <2> HIDE DEF before
  <2>3. \A p \in old, q \in Points : q < p => q \in old
    BY <2>1 DEF Points
  <2>4. stored' = [p \in Points |-> IF p \in old THEN 0 ELSE stored[p]]
    BY <2>2
  <2>5. old \in SUBSET Points
    OBVIOUS
  <2> HIDE DEF old
  <2>6. Mirror!Delete
    BY <2>2, <2>3, <2>4, <2>5 DEF Mirror!Delete
  <2> QED  BY <2>6 DEF Mirror!Next
<1>4. CASE Publish
  <2>1. Mirror!Publish
    BY <1>4, PublishGrows DEF Mirror!Publish, Publish, Values
  <2> QED  BY <2>1 DEF Mirror!Next
<1>5. CASE \E u \in Updates : \/ \E S \in Windows : Start(u, S)
                             \/ Query(u) \/ Answer(u) \/ Fail(u)
                             \/ Record(u) \/ Save(u) \/ Abort(u)
  BY <1>5 DEF Start, Query, Answer, Fail, Record, Save, Abort
<1>6. CASE PruneHoles \/ PruneSave \/ PruneAbort \/ Reset \/ Restart \/ Tick
           \/ Advance \/ UNCHANGED vars
  BY <1>6 DEF PruneHoles, PruneSave, PruneAbort, Reset, Restart, Tick, Advance, vars
<1> QED
  BY <1>2, <1>3, <1>4, <1>5, <1>6 DEF Next

\* However its updates, its prune, failures and restarts interleave, a source
\* keeps its promise: the table holds values upstream published, and loses
\* only its oldest rows.
THEOREM MirrorImplemented == Spec => MirrorSpec
<1>1. Init => TypeOK /\ NothingMadeUp
  <2> SUFFICES ASSUME Init PROVE NothingMadeUp
    BY TypesAtStart
  <2>1. \A p \in Points : Nothing[p] <= Nothing[p]
    BY GridAssumption DEF Nothing
  <2>2. Idle.pc \notin Running
    BY DEF Idle, Running
  <2> QED  BY <2>1, <2>2 DEF Init, NothingMadeUp
<1>2. Init => Mirror!Init
  BY GridAssumption DEF Init, Mirror!Init, Nothing
<1>3. TypeOK /\ NothingMadeUp /\ [Next]_vars => TypeOK' /\ NothingMadeUp'
  BY TypesKept, NothingIsMadeUp
<1>4. Spec => Mirror!Init /\ [][Mirror!Next]_Mirror!mirror
  BY <1>1, <1>2, <1>3, MirrorStep, PTL DEF Spec
<1> QED  BY <1>4 DEF MirrorSpec, Mirror!Spec

\* What an update was answered about is stored, about to be, lacking upstream,
\* or pruned since.
AskedIsSettled ==
    \A u \in Updates : job[u].pc \in Running =>
       /\ \A p \in job[u].asked : \/ stored[p] # 0
                                  \/ job[u].rows[p] # 0
                                  \/ p \in job[u].lacking \union job[u].erased
       /\ job[u].pc # "storing" => \A p \in Points : job[u].rows[p] = 0

LEMMA SettledAtStart == Init => AskedIsSettled
<1>1. Idle.pc \notin Running
  BY DEF Idle, Running
<1> QED  BY <1>1 DEF Init, AskedIsSettled

\* No step unsettles what was answered: rows go from the answer to the table,
\* and what the prune takes from the table it notes in every running update.
LEMMA SettledKept ==
    TypeOK /\ AskedIsSettled /\ [Next]_vars => AskedIsSettled'
<1> SUFFICES ASSUME TypeOK, AskedIsSettled, [Next]_vars PROVE AskedIsSettled'
  OBVIOUS
<1> DEFINE Settled(j, s) ==
      /\ \A p \in j.asked : \/ s[p] # 0
                           \/ j.rows[p] # 0
                           \/ p \in j.lacking \union j.erased
      /\ j.pc # "storing" => \A p \in Points : j.rows[p] = 0
<1>1. ASSUME UNCHANGED stored, NEW u \in Updates, NEW j,
             job' = [job EXCEPT ![u] = j],
             j.pc \in Running => Settled(j, stored)
      PROVE  AskedIsSettled'
  <2>1. \A v \in Updates : job'[v] = IF v = u THEN j ELSE job[v]
    BY <1>1 DEF TypeOK
  <2> QED  BY <1>1, <2>1 DEF AskedIsSettled
<1>2. ASSUME NEW u \in Updates, job[u].pc \in Running
      PROVE  /\ job[u] \in RunningJobs
             /\ Settled(job[u], stored)
             /\ job[u].asked \subseteq Points
  <2>1. job[u] \in RunningJobs
    BY <1>2, JobTypes
  <2> QED  BY <1>2, <2>1 DEF RunningJobs, AskedIsSettled
<1>3. ASSUME NEW u \in Updates, NEW S \in Windows, Start(u, S)
      PROVE  AskedIsSettled'
  <2>1. "query" \notin Running
    BY DEF Running
  <2> QED  BY <1>1, <1>3, <2>1 DEF Start
<1>4. ASSUME NEW u \in Updates, Query(u)
      PROVE  AskedIsSettled'
  <2> DEFINE wanted == Wanted(job[u].win, job[u].now)
             j == IF wanted = {} THEN Idle
                  ELSE [pc |-> "fetching", win |-> job[u].win,
                        now |-> job[u].now, since |-> 0,
                        todo |-> Requests(wanted), rows |-> Nothing, asked |-> {},
                        failed |-> {}, lacking |-> {}, erased |-> {}]
  <2>1. Idle.pc \notin Running
    BY DEF Idle, Running
  <2>2. \A p \in Points : Nothing[p] = 0
    BY DEF Nothing
  <2>3. j.pc \in Running => Settled(j, stored)
    BY <2>1, <2>2
  <2>4. job' = [job EXCEPT ![u] = j] /\ UNCHANGED stored
    BY <1>4 DEF Query
  <2> HIDE DEF j, Settled
  <2> QED  BY <1>1, <2>3, <2>4
<1>5. ASSUME NEW u \in Updates, Answer(u)
      PROVE  AskedIsSettled'
  <2>1. PICK r \in NextRequests(u) :
           job' = [job EXCEPT ![u].pc = IF \A p \in r : upstream[p] = 0
                                        THEN After(job[u], r) ELSE "storing",
                              ![u].rows = [p \in Points |->
                                  IF p \in r THEN upstream[p] ELSE 0],
                              ![u].todo = @ \ {r},
                              ![u].asked = @ \union r,
                              ![u].lacking = @ \union {p \in r : upstream[p] = 0}]
    BY <1>5 DEF Answer
  <2>2. /\ job[u] \in RunningJobs /\ job[u].pc = "fetching"
        /\ Settled(job[u], stored) /\ job[u].asked \subseteq Points
    BY <1>2, <1>5 DEF Answer, Running
  <2>3. r \in SUBSET Points
    BY <2>2 DEF NextRequests, RunningJobs
  <2> DEFINE rows == [p \in Points |-> IF p \in r THEN upstream[p] ELSE 0]
             pc == IF \A p \in r : upstream[p] = 0
                   THEN After(job[u], r) ELSE "storing"
             lacking == {p \in r : upstream[p] = 0}
             j == [job[u] EXCEPT !.pc = pc, !.rows = rows, !.todo = @ \ {r},
                                 !.asked = @ \union r, !.lacking = @ \union lacking]
  <2>4. job' = [job EXCEPT ![u] = j]
    BY <2>1
  <2>5. pc # "storing" => \A p \in Points : rows[p] = 0
    OBVIOUS
  <2>6. \A p \in r : rows[p] # 0 \/ p \in lacking
    BY <2>3
  <2> HIDE DEF rows, pc, lacking
  <2>7. /\ j.pc = pc /\ j.rows = rows /\ j.asked = job[u].asked \union r
        /\ j.lacking = job[u].lacking \union lacking /\ j.erased = job[u].erased
    BY <2>2 DEF RunningJobs
  <2> HIDE DEF j
  <2>8. Settled(j, stored)
    BY <2>2, <2>5, <2>6, <2>7
  <2>9. UNCHANGED stored
    BY <1>5 DEF Answer
  <2> HIDE DEF Settled
  <2> QED  BY <1>1, <2>4, <2>8, <2>9
<1>6. ASSUME NEW u \in Updates, Fail(u)
      PROVE  AskedIsSettled'
  <2>1. PICK r \in NextRequests(u) :
           job' = [job EXCEPT ![u] =
               IF job[u].todo = {r} /\ job[u].asked = {} THEN Idle
               ELSE [job[u] EXCEPT !.pc = After(job[u], r), !.todo = @ \ {r},
                                   !.failed = @ \union r]]
    BY <1>6 DEF Fail
  <2>2. /\ job[u] \in RunningJobs /\ job[u].pc = "fetching"
        /\ Settled(job[u], stored)
    BY <1>2, <1>6 DEF Fail, Running
  <2> DEFINE k == [job[u] EXCEPT !.pc = After(job[u], r), !.todo = @ \ {r},
                                 !.failed = @ \union r]
             j == IF job[u].todo = {r} /\ job[u].asked = {} THEN Idle ELSE k
  <2>3. /\ k.rows = job[u].rows /\ k.asked = job[u].asked
        /\ k.lacking = job[u].lacking /\ k.erased = job[u].erased
    BY <2>2 DEF RunningJobs
  <2>4. Idle.pc \notin Running
    BY DEF Idle, Running
  <2>5. job' = [job EXCEPT ![u] = j] /\ UNCHANGED stored
    BY <1>6, <2>1 DEF TypeOK, Fail
  <2> HIDE DEF k
  <2>6. j.pc \in Running => Settled(j, stored)
    BY <2>2, <2>3, <2>4
  <2> HIDE DEF j, Settled
  <2> QED  BY <1>1, <2>5, <2>6
<1>7. ASSUME NEW u \in Updates, Store(u)
      PROVE  AskedIsSettled'
  <2> DEFINE pc == IF job[u].todo = {} THEN "recheck" ELSE "fetching"
             j == [job[u] EXCEPT !.pc = pc, !.rows = Nothing]
  <2>1. /\ job[u] \in RunningJobs /\ job[u].pc \in Running
        /\ Settled(job[u], stored) /\ job[u].asked \subseteq Points
    BY <1>2, <1>7 DEF Store, Running
  <2>2. job' = [job EXCEPT ![u] = j]
    BY <1>7 DEF Store
  <2>3. stored' = [p \in Points |-> IF job[u].rows[p] # 0 THEN job[u].rows[p]
                                    ELSE stored[p]]
    BY <1>7 DEF Store
  <2>4. /\ j.pc = pc /\ j.rows = Nothing /\ j.asked = job[u].asked
        /\ j.lacking = job[u].lacking /\ j.erased = job[u].erased
    BY <2>1 DEF RunningJobs
  <2>5. \A p \in Points : Nothing[p] = 0
    BY DEF Nothing
  <2> HIDE DEF j
  <2>6. Settled(j, stored')
    BY <2>1, <2>3, <2>4, <2>5
  <2>7. \A v \in Updates : job[v].pc \in Running => Settled(job[v], stored')
    <3>1. \A p \in Points : stored[p] # 0 => stored'[p] # 0
      BY <2>3
    <3> QED  BY <1>2, <3>1
  <2>8. \A v \in Updates : job'[v] = IF v = u THEN j ELSE job[v]
    BY <2>2 DEF TypeOK
  <2> QED  BY <2>6, <2>7, <2>8 DEF AskedIsSettled
<1>8. ASSUME NEW u \in Updates, Record(u) \/ Save(u) \/ Abort(u)
      PROVE  AskedIsSettled'
  <2>1. "saving" \notin Running /\ Idle.pc \notin Running
    BY DEF Idle, Running
  <2> DEFINE j == [pc |-> "saving", text |-> holes']
  <2>2. j.pc \notin Running
    BY <2>1
  <2>3. \/ job' = [job EXCEPT ![u] = j]
        \/ job' = [job EXCEPT ![u] = Idle]
    BY <1>8 DEF Record, Save, Abort
  <2>4. UNCHANGED stored
    BY <1>8 DEF Record, Save, Abort
  <2> HIDE DEF j, Settled
  <2> QED  BY <1>1, <2>1, <2>2, <2>3, <2>4
<1>9. CASE PruneRows
  <2>1. PICK before \in Int :
           /\ stored' = [p \in Points |-> IF p < before THEN 0 ELSE stored[p]]
           /\ job' = [u \in Updates |->
                 IF job[u].pc \in Running
                 THEN [job[u] EXCEPT !.erased =
                          @ \union {p \in Points : p < before}]
                 ELSE job[u]]
    <3>1. DayStart(Day(now) - Back - Margin) \in Int
      BY GridAssumption DEF DayStart, Day, TypeOK, Points
    <3> QED  BY <1>9, <3>1 DEF PruneRows
  <2>2. ASSUME NEW u \in Updates, job'[u].pc \in Running
        PROVE  Settled(job'[u], stored')
    <3>1. job[u].pc \in Running
      BY <2>1, <2>2
    <3>2. /\ job[u] \in RunningJobs /\ Settled(job[u], stored)
          /\ job[u].asked \subseteq Points
      BY <1>2, <3>1
    <3> DEFINE old == {p \in Points : p < before}
    <3>3. job'[u] = [job[u] EXCEPT !.erased = @ \union old]
      BY <2>1, <3>1
    <3>4. \A p \in Points : stored'[p] = stored[p] \/ p \in old
      BY <2>1
    <3> HIDE DEF old
    <3>5. /\ job'[u].pc = job[u].pc /\ job'[u].rows = job[u].rows
          /\ job'[u].asked = job[u].asked /\ job'[u].lacking = job[u].lacking
          /\ job'[u].erased = job[u].erased \union old
      BY <3>2, <3>3 DEF RunningJobs
    <3> QED  BY <3>2, <3>4, <3>5
  <2> QED  BY <2>2 DEF AskedIsSettled
<1>10. CASE PruneHoles \/ PruneSave \/ PruneAbort \/ Reset \/ Publish \/ Advance
            \/ UNCHANGED vars
  <2>1. UNCHANGED <<stored, job>>
    BY <1>10 DEF PruneHoles, PruneSave, PruneAbort, Reset, Publish, Advance, vars
  <2> QED  BY <2>1 DEF AskedIsSettled
<1>11. CASE Restart
  <2>1. Idle.pc \notin Running
    BY DEF Idle, Running
  <2> QED  BY <1>11, <2>1 DEF Restart, AskedIsSettled
<1>12. CASE Tick
  <2>1. UNCHANGED stored
    BY <1>12 DEF Tick
  <2>2. ASSUME NEW u \in Updates, job'[u].pc \in Running
        PROVE  Settled(job'[u], stored)
    <3>1. CASE job[u].pc = "saving"
      <4>1. job[u] \in SavingJobs
        BY <3>1, JobTypes
      <4>2. job'[u] = [job[u] EXCEPT !.text = Ticked(@)]
        BY <1>12, <3>1 DEF Tick
      <4>3. job'[u].pc = "saving"
        BY <4>1, <4>2 DEF SavingJobs
      <4> QED  BY <2>2, <4>3 DEF Running
    <3>2. CASE job[u].pc \in Running
      <4>1. job[u] \in RunningJobs /\ Settled(job[u], stored)
        BY <1>2, <3>2
      <4> DEFINE since == IF job[u].since < HistoryWait THEN job[u].since + 1
                          ELSE job[u].since
      <4>2. job'[u] = [job[u] EXCEPT !.since = since]
        BY <1>12, <3>2 DEF Tick, Running
      <4> HIDE DEF since
      <4>3. /\ job'[u].pc = job[u].pc /\ job'[u].rows = job[u].rows
            /\ job'[u].asked = job[u].asked /\ job'[u].lacking = job[u].lacking
            /\ job'[u].erased = job[u].erased
        BY <4>1, <4>2 DEF RunningJobs
      <4> QED  BY <4>1, <4>3
    <3>3. CASE job[u].pc # "saving" /\ job[u].pc \notin Running
      BY <1>12, <2>2, <3>3 DEF Tick
    <3> QED  BY <3>1, <3>2, <3>3
  <2> QED  BY <2>1, <2>2 DEF AskedIsSettled
<1> QED
  BY <1>3, <1>4, <1>5, <1>6, <1>7, <1>8, <1>9, <1>10, <1>11, <1>12 DEF Next

\* A record puts off only what it found missing in the answered requests.
LEMMA RecordPutsOffGaps ==
    ASSUME TypeOK, NEW u \in Updates, job[u] \in RunningJobs, NEW p \in Points,
           p \notin Missing(job[u].win) \intersect job[u].asked
    PROVE  /\ Recorded(u).closed[p] <= holes.closed[p]
           /\ Recorded(u).open[p] <= holes.open[p]
<1> DEFINE asked   == job[u].asked
           gaps    == Missing(job[u].win) \intersect asked
           starts  == Horizon(job[u].win, job[u].now) \intersect gaps
           wait(q) == Left(u, RetryWait(Greatest(RunOf(gaps, q)), job[u].now))
           beyond  == UNION {RunOf(gaps, q) : q \in starts}
           closed  == [q \in Points |->
               IF q \in gaps \ beyond THEN wait(q)
               ELSE IF q \in asked THEN 0 ELSE holes.closed[q]]
           open    == [q \in Points |->
               IF q \in starts THEN wait(q)
               ELSE IF \E r \in asked : q <= r THEN 0 ELSE holes.open[q]]
<1>1. Recorded(u) = [closed |-> closed, open |-> open]
  BY DEF Recorded
<1>2. holes.closed[p] \in Nat /\ holes.open[p] \in Nat
  <2>1. holes.closed \in Waits /\ holes.open \in Waits
    BY DEF TypeOK, Holes
  <2> QED  BY <2>1, WaitAssumption DEF Waits
<1>3. p \notin gaps /\ p \notin starts
  OBVIOUS
<1> HIDE DEF wait, starts, beyond, gaps, asked
<1>4. closed[p] <= holes.closed[p] /\ open[p] <= holes.open[p]
  BY <1>2, <1>3
<1> QED  BY <1>1, <1>4

\* An update puts nothing off but what upstream lacked when it asked, or what
\* was pruned meanwhile, whatever the other updates and the prune do.
THEOREM NothingElseIsPutOff == Spec => OnlyLackingIsPutOff
<1> DEFINE PutOff == \A p \in Points :
               \/ holes'.closed[p] <= holes.closed[p]
                  /\ holes'.open[p] <= holes.open[p]
               \/ faults' # faults
               \/ \E u \in Updates : /\ job[u].pc = "recheck"
                                     /\ job'[u].pc = "saving"
                                     /\ p \in job[u].lacking \union job[u].erased
<1>1. ASSUME TypeOK, AskedIsSettled, [Next]_vars
      PROVE  PutOff
  <2>1. \A p \in Points : holes.closed[p] \in Nat /\ holes.open[p] \in Nat
    <3>1. holes.closed \in Waits /\ holes.open \in Waits
      BY <1>1 DEF TypeOK, Holes
    <3> QED  BY <3>1, WaitAssumption DEF Waits
  <2>2. ASSUME holes' = holes
        PROVE  PutOff
    BY <2>1, <2>2
  <2>3. ASSUME faults' # faults
        PROVE  PutOff
    BY <2>3
  <2>4. CASE \E u \in Updates : Record(u)
    <3>1. PICK u \in Updates : Record(u)
      BY <2>4
    <3>2. job[u] \in RunningJobs /\ job[u].pc = "recheck" /\ job[u].pc \in Running
      BY <1>1, <3>1, JobTypes DEF Record, Running
    <3>3. holes' = Recorded(u) /\ job'[u].pc = "saving"
      BY <1>1, <3>1 DEF Record, TypeOK
    <3>4. ASSUME NEW p \in Points,
                 p \in Missing(job[u].win) \intersect job[u].asked
          PROVE  p \in job[u].lacking \union job[u].erased
      <4>1. stored[p] = 0 /\ p \in job[u].asked
        BY <3>4 DEF Missing
      <4>2. job[u].rows[p] = 0
        BY <1>1, <3>2 DEF AskedIsSettled
      <4> QED  BY <1>1, <3>2, <4>1, <4>2 DEF AskedIsSettled
    <3>5. ASSUME NEW p \in Points,
                 p \notin Missing(job[u].win) \intersect job[u].asked
          PROVE  holes'.closed[p] <= holes.closed[p] /\ holes'.open[p] <= holes.open[p]
      BY <1>1, <3>2, <3>3, <3>5, RecordPutsOffGaps
    <3> QED  BY <3>2, <3>3, <3>4, <3>5
  <2>5. CASE PruneHoles
    <3>1. holes.closed \in Waits
      BY <1>1 DEF TypeOK, Holes
    <3>2. holes' = [holes EXCEPT !.closed = [p \in Points |->
                        IF p < pruner.before THEN 0 ELSE holes.closed[p]]]
      BY <2>5 DEF PruneHoles, Forgotten
    <3>3. /\ holes'.closed = [p \in Points |->
                        IF p < pruner.before THEN 0 ELSE holes.closed[p]]
          /\ holes'.open = holes.open
      BY <1>1, <3>2 DEF TypeOK, Holes
    <3> QED  BY <2>1, <3>3
  <2>6. CASE Tick
    <3>1. /\ holes'.closed = Sooner(holes.closed)
          /\ holes'.open = Sooner(holes.open)
      BY <2>6 DEF Tick, Ticked
    <3> QED  BY <2>1, <3>1 DEF Sooner
  <2>7. CASE \/ Reset \/ Restart \/ PruneAbort
             \/ \E u \in Updates : Abort(u)
    <3>1. faults \in Nat /\ faults' = faults + 1
      BY <1>1, <2>7, GridAssumption
      DEF Reset, Restart, PruneAbort, Abort, Fault, TypeOK
    <3> QED  BY <2>3, <3>1
  <2>8. CASE \/ \E u \in Updates : \/ \E S \in Windows : Start(u, S)
                                   \/ Query(u) \/ Answer(u) \/ Fail(u)
                                   \/ Store(u) \/ Save(u)
             \/ PruneRows \/ PruneSave \/ Publish \/ Advance \/ UNCHANGED vars
    <3>1. holes' = holes
      BY <2>8 DEF Start, Query, Answer, Fail, Store, Save, PruneRows, PruneSave,
                  Publish, Advance, vars
    <3> QED  BY <2>2, <3>1
  <2> HIDE DEF PutOff
  <2> QED  BY <1>1, <2>4, <2>5, <2>6, <2>7, <2>8 DEF Next
<1>2. TypeOK /\ AskedIsSettled /\ [Next]_vars => TypeOK' /\ AskedIsSettled'
  BY TypesKept, SettledKept
<1>3. TypeOK /\ AskedIsSettled /\ [Next]_vars => [PutOff]_vars
  BY <1>1
<1> HIDE DEF PutOff
<1>4. Spec => [][PutOff]_vars
  BY <1>2, <1>3, TypesAtStart, SettledAtStart, PTL DEF Spec
<1> QED  BY <1>4 DEF OnlyLackingIsPutOff, PutOff
=============================================================================
