----------------------------- MODULE MCOutages -----------------------------
(***************************************************************************)
(* An instance of Outages for TLC: three days, in each of which a version  *)
(* may be published, the forecast and the backfill may run.                *)
(***************************************************************************)
EXTENDS Outages

\* An outage of two overlapping periods, the same moved behind the forecast's
\* end, and its dismissal, whose own period ends before it.
OutageContents == {
    [event |-> <<2, 5>>, periods |-> {<<2, 5>>, <<3, 4>>}, dismissed |-> FALSE],
    [event |-> <<5, 7>>, periods |-> {<<5, 7>>}, dismissed |-> FALSE],
    [event |-> <<1, 4>>, periods |-> {<<1, 2>>}, dismissed |-> TRUE]}
=============================================================================
