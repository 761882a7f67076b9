---------------------------- MODULE MCSchedules -----------------------------
(***************************************************************************)
(* Small instances of Schedules for TLC.                                   *)
(***************************************************************************)
EXTENDS Schedules, TLC

Symmetry == Permutations(Ids) \cup Permutations(Tickers)

=============================================================================
