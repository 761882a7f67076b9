------------------------- MODULE MCProductionRuns ---------------------------
(***************************************************************************)
(* Small instances of ProductionRuns for TLC.                              *)
(***************************************************************************)
EXTENDS ProductionRuns, TLC

Symmetry == Permutations(Handlers) \cup Permutations(Nodes)

=============================================================================
