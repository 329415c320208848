-------------------------- MODULE MCCachedProvider --------------------------
(* Instances of CachedProvider for TLC. *)
EXTENDS CachedProvider, TLC

\* Callers and addresses are interchangeable.
Symmetry == Permutations(Callers) \cup Permutations(States)
=============================================================================
