--------------------------- MODULE MCSelfLearning ---------------------------
(***************************************************************************)
(* SelfLearning for TLC, with what is interchangeable in it.               *)
(***************************************************************************)
EXTENDS SelfLearning, TLC

\* Runs and handlers are interchangeable.
Symmetry == Permutations(Runs) \union Permutations(Handlers)
=============================================================================
