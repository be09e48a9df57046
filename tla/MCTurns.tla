------------------------------- MODULE MCTurns -------------------------------
(* An instance of Turns. *)
EXTENDS Turns, TLC
Symmetry == Permutations(Turn) \union Permutations(Procs)
=============================================================================
