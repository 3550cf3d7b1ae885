------------------------------- MODULE MCAction -------------------------------
(* Small instances of Action.                                              *)
EXTENDS Action, TLC

Symmetry == Permutations(Goals) \cup Permutations(Workers)
              \cup Permutations(Receivers) \cup Permutations(Callbacks)
              \cup Permutations(Statuses)
=============================================================================
