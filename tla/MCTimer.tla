------------------------------- MODULE MCTimer -------------------------------
(* Small instances of Timer.                                               *)
EXTENDS Timer, TLC

Symmetry == Permutations(Callers)
=============================================================================
