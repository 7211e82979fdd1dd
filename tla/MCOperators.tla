---------------------------- MODULE MCOperators ----------------------------
(***************************************************************************)
(* The operator modules in one run: an initial state is the input of one   *)
(* operation of PriceSlots, Scoring, OutageDocuments, ModelInputs or       *)
(* SeriesDocuments, and its one step computes the result.                  *)
(***************************************************************************)
EXTENDS MCSeriesDocuments

Init == SlotsInit \/ ScoringInit \/ DocumentsInit \/ InputsInit \/ SeriesInit
Next == SlotsNext \/ ScoringNext \/ DocumentsNext \/ InputsNext \/ SeriesNext
Spec == Init /\ [][Next]_<<input, result>>
=============================================================================
