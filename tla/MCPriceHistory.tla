--------------------------- MODULE MCPriceHistory ---------------------------
(***************************************************************************)
(* PriceHistory with a record of what the backfills of this process have   *)
(* stored, to tell a repeated request from a first one.                    *)
(***************************************************************************)
EXTENDS PriceHistory

VARIABLE filled     \* days a backfill stored since the process started

bvars == <<vars, filled>>

BInit == Init /\ filled = {}

BNext ==
    \/ \E b \in Backfills :
          BackfillAdd(b) /\ filled' = filled \union NextDays(b)
    \/ Restart /\ filled' = {}
    \/ /\ \/ \E f \in Forecasts : ForecastRead(f) \/ ForecastRecord(f)
          \/ \E b \in Backfills :
                BackfillStart(b) \/ BackfillFilter(b) \/ BackfillEnd(b)
          \/ SaveWrite \/ SaveMark \/ SaveCommit \/ SaveFail
          \/ PruneDelete \/ PruneForget \/ ResetLearning \/ NewDay
       /\ UNCHANGED filled

BSpec == BInit /\ [][BNext]_bvars

\* A backfill fills gaps: the day it stores was not in the history, although
\* it looked that up several executor jobs ago, or a backfill stored it.
\* Forecast runs store today and tomorrow, the backfilled window ends
\* yesterday, and midnight only widens the gap.  A day a backfill already
\* stored is only requested and stored again when the window has cut it, that
\* is when it is older than every day kept.
BackfillFillsGaps ==
    [][\A b \in Backfills :
         /\ \A d \in Days \ filled :
               history[d] # NoPrice =>
                  ~ (BackfillAdd(b) /\ backfill[b].todo[d] # backfill'[b].todo[d])
         /\ BackfillFilter(b) =>
               \A d \in Stored(backfill'[b].todo) \cap filled, e \in Stored(history) : e > d]_bvars
=============================================================================
