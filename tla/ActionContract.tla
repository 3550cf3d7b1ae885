---------------------------- MODULE ActionContract ----------------------------
(***************************************************************************)
(* What an action promises, whatever the transport does to its messages:   *)
(* only goals that were sent are executed, one execution of a goal at a    *)
(* time, and a goal is resolved at most once, with the result of one of    *)
(* its own executions that had returned.                                   *)
(***************************************************************************)
CONSTANTS Goals, Workers, Statuses, None

VARIABLES
  asked,      \* goals that were sent
  execution,  \* worker -> its goal, the status it returned, and whether it
              \* still keeps other executions of the goal out
  outcome     \* goal -> the execution that resolved it, and its status

contractVars == <<asked, execution, outcome>>

Init == /\ asked = {}
        /\ execution = [w \in Workers |-> None]
        /\ outcome = [g \in Goals |-> None]

Started(w) == execution[w] # None

Ask(g) == /\ asked' = asked \cup {g}
          /\ UNCHANGED <<execution, outcome>>

Begin(w, g) ==
  /\ g \in asked
  /\ ~Started(w)
  /\ \A v \in Workers : Started(v) /\ execution[v].goal = g => ~execution[v].open
  /\ execution' = [execution EXCEPT ![w] = [goal |-> g, status |-> None, open |-> TRUE]]
  /\ UNCHANGED <<asked, outcome>>

End(w, st) ==
  /\ Started(w)
  /\ execution[w].open
  /\ execution[w].status = None
  /\ execution' = [execution EXCEPT ![w].status = st]
  /\ UNCHANGED <<asked, outcome>>

Close(w) ==
  /\ Started(w)
  /\ execution[w].status # None
  /\ execution' = [execution EXCEPT ![w].open = FALSE]
  /\ UNCHANGED <<asked, outcome>>

Resolve(g, w) ==
  /\ outcome[g] = None
  /\ Started(w)
  /\ execution[w].goal = g
  /\ execution[w].status # None
  /\ outcome' = [outcome EXCEPT ![g] = [by |-> w, status |-> execution[w].status]]
  /\ UNCHANGED <<asked, execution>>

Next == \/ \E g \in Goals : Ask(g)
        \/ \E w \in Workers, g \in Goals : Begin(w, g) \/ Resolve(g, w)
        \/ \E w \in Workers, st \in Statuses : End(w, st)
        \/ \E w \in Workers : Close(w)

Spec == Init /\ [][Next]_contractVars
=============================================================================
