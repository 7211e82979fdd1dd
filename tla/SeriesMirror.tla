----------------------------- MODULE SeriesMirror -----------------------------
(***************************************************************************)
(* What a time-series source promises (ml/series_storage.py,               *)
(* api/time_series_source.py): its table is a copy of the upstream series. *)
(* A stored value is one upstream has published, rows disappear only from  *)
(* the old end of the table, and no value is made up.                      *)
(***************************************************************************)
EXTENDS Integers

CONSTANTS
    Points,     \* the grid points of the series
    LastRev     \* revisions of a value are 1..LastRev, 0 is no value

VARIABLES
    upstream,   \* the revision upstream has of each point
    stored      \* the revision the table has of it

mirror == <<upstream, stored>>

Init ==
    /\ upstream \in [Points -> 0..LastRev]
    /\ stored \in [Points -> 0..LastRev]
    /\ \A p \in Points : stored[p] <= upstream[p]

\* Upstream publishes or revises points; it takes none back.
Publish ==
    /\ upstream' \in [Points -> 0..LastRev]
    /\ \A p \in Points : upstream[p] <= upstream'[p]
    /\ UNCHANGED stored

\* Values upstream has, or had when it was asked, are written.
Receive ==
    /\ stored' \in [Points -> 0..LastRev]
    /\ \A p \in Points :
          stored'[p] = stored[p] \/ stored'[p] \in 1..upstream[p]
    /\ UNCHANGED upstream

\* The oldest rows are deleted.
Delete ==
    /\ \E S \in SUBSET Points :
          /\ \A p \in S, q \in Points : q < p => q \in S
          /\ stored' = [p \in Points |-> IF p \in S THEN 0 ELSE stored[p]]
    /\ UNCHANGED upstream

Next == Publish \/ Receive \/ Delete

Spec == Init /\ [][Next]_mirror
=============================================================================
