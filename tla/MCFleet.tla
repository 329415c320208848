------------------------------- MODULE MCFleet -------------------------------
(***************************************************************************)
(* Instances of Fleet for TLC.                                             *)
(***************************************************************************)
EXTENDS Fleet, TLC

\* The application's goroutines are interchangeable in the safety runs.
Symmetry == Permutations(Callers)

=============================================================================
