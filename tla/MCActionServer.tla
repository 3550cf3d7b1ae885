---------------------------- MODULE MCActionServer ----------------------------
(* Small instances of ActionServer.                                        *)
EXTENDS ActionServer, TLC

Symmetry == Permutations(Goals) \cup Permutations(Workers)
              \cup Permutations(Receivers) \cup Permutations(Statuses)
=============================================================================
