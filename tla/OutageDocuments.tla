-------------------------- MODULE OutageDocuments --------------------------
(***************************************************************************)
(* What an outage source makes of its answers: the rows of a Nord Pool     *)
(* message (nordpool_umm.py) and of an ENTSO-E document                    *)
(* (entsoe_outages.py), and how the pages of an answer are collected.      *)
(*                                                                         *)
(* A document's series describes a unit by curves of what is available: a  *)
(* point holds until the next one, the last until the curve's end.  Only   *)
(* the numbers of what an answer holds matter to the paging, so there the  *)
(* documents are 1, 2, ...                                                 *)
(***************************************************************************)
EXTENDS Integers, Sequences, FiniteSets, TLC

CONSTANTS
    PageSize,       \* UMM_PAGE_SIZE, ENTSOE_DOCUMENT_LIMIT
    MaxPages,       \* _MAX_PAGES, and the pages up to ENTSOE_OFFSET_LIMIT
    MinWindow       \* _MIN_WINDOW: a window that is not halved

ASSUME PageAssumption ==
    PageSize \in Nat \ {0} /\ MaxPages \in Nat \ {0} /\ MinWindow \in Nat \ {0}

Absent == 0 - 1
Failed == {0}                       \* no document is 0
Least(S) == CHOOSE x \in S : \A y \in S : x <= y
Largest(S) == CHOOSE x \in S : \A y \in S : x >= y
Meets(a, b) == a[1] < b[2] /\ b[1] < a[2]
-----------------------------------------------------------------------------
(* entsoe_outages.py: a curve is its start, step and end and its points *)

\* Mutant: a point holds for one step.
SegmentsOfStep(curve) ==
    LET at(n) == curve.start + (n - 1) * curve.step
    IN  {[start |-> at(n), stop |-> at(n + 1), available |-> curve.points[n]] :
            n \in DOMAIN curve.points}
Segments(curve) ==
    LET at(n) == curve.start + (n - 1) * curve.step
        next(n) == {m \in DOMAIN curve.points : m > n}
        stop(n) == IF next(n) = {} THEN curve.end ELSE at(Least(next(n)))
    IN  {s \in {[start |-> at(n), stop |-> stop(n), available |-> curve.points[n]] :
                    n \in DOMAIN curve.points} :
            curve.end # Absent /\ s.start < s.stop}
SeriesSegments(series) == UNION {Segments(c) : c \in series.curves}

Period(s, mw) == [start |-> s.start, stop |-> s.stop, mw |-> mw]
ProductionPeriods(series) ==
    IF series.nominal = Absent THEN {}
    ELSE {Period(s, series.nominal - s.available) :
             s \in {s \in SeriesSegments(series) : series.nominal > s.available}}
TransmissionPeriods(series) ==
    LET S == SeriesSegments(series)
        values == {s.available : s \in S}
    IN  {Period(s, 1) : s \in {s \in S : Cardinality(values) = 1 \/ s.available < Largest(values)}}

Header(x, dismissed) == [id |-> x.id, version |-> x.version, dismissed |-> dismissed]
NoPeriod == [start |-> 0, stop |-> 0, mw |-> 0]
Row(header, period) == header @@ period
\* A version without a usable period still supersedes the earlier ones.
RowsOrNone(header, P) ==
    {Row(header, p) : p \in IF P = {} THEN {NoPeriod} ELSE P}

\* Mutant: only versions with a period are kept.
DocumentPeriods(doc) ==
    {Row(Header(doc, doc.status \in {"A09", "A13"}), p) :
        p \in UNION {IF doc.type = "A78" THEN TransmissionPeriods(s) ELSE ProductionPeriods(s) :
                        s \in doc.series}}
DocumentRows(doc) ==
    IF doc.type \notin {"A77", "A80", "A78"} \/ Absent \in {doc.id, doc.version, doc.published}
    THEN {}
    ELSE RowsOrNone(Header(doc, doc.status \in {"A09", "A13"}),
            UNION {IF doc.type = "A78" THEN TransmissionPeriods(s) ELSE ProductionPeriods(s) :
                      s \in doc.series})
-----------------------------------------------------------------------------
(* nordpool_umm.py *)

InArea(unit, area) ==
    IF unit.field = "transmission" THEN area \in {unit.in, unit.out} ELSE unit.in = area
MessageRows(msg, area) ==
    IF msg.type \notin {1, 3} \/ Absent \in {msg.id, msg.version, msg.published} THEN {}
    ELSE RowsOrNone(Header(msg, msg.status = 3),
            UNION {{p \in u.periods : Absent \notin {p.start, p.stop, p.mw}} :
                      u \in {u \in msg.units : InArea(u, area)}})

\* Every page until there is no more: a broken total ends after one
NordpoolPages(count, total, failing) ==
    LET got(page) == IF page * PageSize < count THEN page * PageSize ELSE count
        ends == {p \in 1..MaxPages : \/ p = MaxPages
                                     \/ got(p) = got(p - 1)
                                     \/ total = Absent \/ got(p) >= total}
    IN  IF failing <= Least(ends) THEN Failed ELSE 1..got(Least(ends))

\* The documents of a window, events[d] being d's: a window with more than
\* the pages hold is halved until it is short
InWindowOf(events, w) == {d \in DOMAIN events : Meets(events[d], w)}
First(D, n) == {d \in D : Cardinality({e \in D : e < d}) < n}
Spans(w) == {s \in (w[1]..w[2]) \X (w[1]..w[2]) : s[1] < s[2]}

\* Mutant: a half that failed is left out.
EntsoeDocumentsOfHalves(events, window, failing) ==
    LET docs[w \in Spans(window)] ==
            LET D == InWindowOf(events, w)
                middle == w[1] + (w[2] - w[1]) \div 2
            IN  IF w \in failing THEN {}
                ELSE IF Cardinality(D) < PageSize * MaxPages THEN D
                ELSE IF w[2] - w[1] <= MinWindow THEN First(D, PageSize * MaxPages)
                ELSE docs[<<w[1], middle>>] \union docs[<<middle, w[2]>>]
    IN  docs[window]
EntsoeDocuments(events, window, failing) ==
    LET docs[w \in Spans(window)] ==
            LET D == InWindowOf(events, w)
                middle == w[1] + (w[2] - w[1]) \div 2
                halves == {docs[<<w[1], middle>>], docs[<<middle, w[2]>>]}
            IN  IF w \in failing THEN Failed
                ELSE IF Cardinality(D) < PageSize * MaxPages THEN D
                ELSE IF w[2] - w[1] <= MinWindow THEN First(D, PageSize * MaxPages)
                ELSE IF \E h \in halves : h = Failed THEN Failed
                ELSE UNION halves
    IN  docs[window]
=============================================================================
