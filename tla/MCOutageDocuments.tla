------------------------- MODULE MCOutageDocuments -------------------------
(***************************************************************************)
(* OutageDocuments for TLC, added to MCScoring: an input is a document, a  *)
(* message or the content of an answer, the one step reads it.             *)
(***************************************************************************)
EXTENDS MCScoring, OutageDocuments

\* A curve's points are within it.
Curves ==
    {c \in [start : {0}, step : {1, 2}, end : {Absent, 3, 4},
            points : UNION {[P -> 0..2] : P \in SUBSET {1, 2, 3}}] :
        c.end # Absent => \A n \in DOMAIN c.points : (n - 1) * c.step < c.end}
LaterCurve == [start |-> 4, step |-> 1, end |-> 6, points |-> <<1>>]
DocumentInputs ==
    [op : {"document"}, type : {"A80", "A78", "A26"}, id : {1}, version : {2},
     published : {Absent, 3}, status : {"A09"},
     series : {{[nominal |-> n, curves |-> {c} \union l]} :
                  n \in {Absent, 2}, c \in Curves, l \in {{}, {LaterCurve}}}]

Unit(field, in, out, P) == [field |-> field, in |-> in, out |-> out, periods |-> P]
UnitPeriods == {{}, {[start |-> 0, stop |-> 2, mw |-> 1]}, {[start |-> 0, stop |-> 2, mw |-> Absent]}}
MessageInputs ==
    [op : {"message"}, type : {1, 2, 3}, id : {1}, version : {2}, published : {3}, status : {1, 3},
     units : {{Unit(f, i, o, P), Unit("production", "there", "there", Q)} :
                 f \in {"production", "transmission"}, i \in {"here", "there"},
                 o \in {"here", "there"}, P \in UnitPeriods, Q \in UnitPeriods}]

\* Up to five documents, a page holds one and an answer two pages
Events == << <<0, 1>>, <<0, 8>>, <<3, 5>>, <<4, 6>>, <<4, 5>> >>
PageInputs ==
    [op : {"pages"}, count : 0..4, total : {Absent} \union 0..4, failing : 1..4]
WindowInputs ==
    [op : {"window"}, events : {[d \in D |-> Events[d]] : D \in SUBSET DOMAIN Events},
     window : {<<0, 8>>, <<3, 6>>, <<4, 5>>},
     failing : {{}} \union {{w} : w \in {<<0, 8>>, <<0, 4>>, <<4, 8>>, <<4, 6>>, <<4, 5>>}}]

DocumentsInit ==
    /\ \/ input \in DocumentInputs
       \/ input \in MessageInputs
       \/ input \in PageInputs
       \/ input \in WindowInputs
    /\ result = NoResult
ReadDocument == Compute("document", [op |-> "document", rows |-> DocumentRows(input)])
ReadMessage == Compute("message", [op |-> "message", rows |-> MessageRows(input, "here")])
ReadPages == Compute("pages",
    [op |-> "pages", got |-> NordpoolPages(input.count, input.total, input.failing)])
ReadWindow == Compute("window",
    [op |-> "window", got |-> EntsoeDocuments(input.events, input.window, input.failing)])
DocumentsNext == ReadDocument \/ ReadMessage \/ ReadPages \/ ReadWindow
-----------------------------------------------------------------------------
\* What a plant lacks at any time is its capacity less the last available
\* quantity its curve gave by then; an asset of the grid counts as limited
\* whenever its curve is below its highest, or says nothing else.
Available(t) ==
    LET at(c, n) == c.start + (n - 1) * c.step
        given(c) == {n \in DOMAIN c.points : at(c, n) <= t}
        open == {c \in UNION {s.curves : s \in input.series} : t < c.end /\ given(c) # {}}
    IN  {c.points[Largest(given(c))] : c \in open}
CurveIsFollowed ==
    result.op = "document" /\ result.rows # {} =>
        LET seen == UNION {Available(t) : t \in 0..6}
            nominal == {s.nominal : s \in input.series} \ {Absent}
        IN  \A t \in 0..6 :
              {r.mw : r \in {r \in result.rows : r.start <= t /\ t < r.stop}} =
                  IF input.type = "A78"
                  THEN {1 : q \in {q \in Available(t) : seen = {q} \/ q < Largest(seen)}}
                  ELSE {n - q : n \in nominal, q \in {q \in Available(t) : \A n \in nominal : n > q}}

\* Every version of a message or document that names itself is stored, with
\* whatever of it cannot be used left out, so that it supersedes the earlier
\* ones; the units of other areas count for nothing.
EveryVersionCounts ==
    /\ result.op = "document" =>
          (result.rows # {} <=> input.type # "A26" /\ input.published # Absent)
    /\ result.op = "message" =>
          /\ result.rows # {} <=> input.type # 2
          /\ (\E r \in result.rows : r.mw > 0) <=>
                \E u \in input.units : input.type # 2 /\ "here" \in {u.in, u.out}
                    /\ (u.field = "production" => u.in = "here")
                    /\ \E p \in u.periods : p.mw > 0

\* An answer is whole or the request has failed: only a window that is not
\* halved further, or a total that is not right, may hide a part.
AnswerIsWhole ==
    /\ result.op = "pages" /\ result.got # Failed =>
          \/ result.got = 1..input.count
          \/ input.total < input.count \/ input.count > PageSize * MaxPages
    /\ result.op = "window" /\ result.got # Failed =>
          \A d \in InWindowOf(input.events, input.window) \ result.got :
             \E w \in Spans(input.window) :
                /\ w[2] - w[1] <= MinWindow
                /\ Cardinality(InWindowOf(input.events, w)) >= PageSize * MaxPages
=============================================================================
