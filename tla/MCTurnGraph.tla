---------------------------- MODULE MCTurnGraph ----------------------------
(* TurnGraph for TLC: runs are interchangeable. *)
EXTENDS TurnGraph, TLC

Symmetry == Permutations(Runs)
=============================================================================
