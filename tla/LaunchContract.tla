---------------------------- MODULE LaunchContract ----------------------------
(***************************************************************************)
(* What `talos launch` promises, however it polls, loops and waits: it     *)
(* brings its children down only when it was told to, when all have ended  *)
(* or when one could not be started; it takes the next step against a      *)
(* child that is up only when every other one that is up was asked as      *)
(* insistently; it leaves none behind; and its exit code tells what became *)
(* of them.                                                                *)
(***************************************************************************)
EXTENDS Naturals

CONSTANTS N, ExitCodes, None

Nodes == 1..N

VARIABLES
  phase,         \* "starting", "running", "undoing", "closing" or "over"
  up, ended,     \* children that run, and that have ended
  codes,         \* exit codes of those that have ended
  force,         \* how insistently each was asked to end, up to 3
  told,          \* a signal told the launcher to stop
  result         \* the launcher's exit code

vars == <<phase, up, ended, codes, force, told, result>>

Init ==
  /\ phase = "starting"
  /\ up = {} /\ ended = {}
  /\ codes = [i \in Nodes |-> None]
  /\ force = [i \in Nodes |-> 0]
  /\ told = FALSE /\ result = None

Enter(p) == phase' = p /\ UNCHANGED <<up, ended, codes, force, told>>

Start(i) ==
  /\ phase = "starting"
  /\ up \cup ended = 1..(i - 1)
  /\ up' = up \cup {i}
  /\ UNCHANGED <<phase, ended, codes, force, told, result>>

\* A child cannot be started: those before it are brought down.
Undo == phase = "starting" /\ up \cup ended # Nodes /\ Enter("undoing") /\ UNCHANGED result
GoOn == phase = "starting" /\ up \cup ended = Nodes /\ Enter("running") /\ UNCHANGED result
Stop == phase = "running" /\ (told \/ up = {}) /\ Enter("closing") /\ UNCHANGED result

End(i, c) ==
  /\ i \in up
  /\ up' = up \ {i} /\ ended' = ended \cup {i}
  /\ codes' = [codes EXCEPT ![i] = c]
  /\ UNCHANGED <<phase, force, told, result>>

Tell == /\ phase # "over"
        /\ told' = TRUE
        /\ UNCHANGED <<phase, up, ended, codes, force, result>>

\* A signal before there is a handler for it ends the launcher itself, and so
\* does an exception while it starts its children, who run on.
Abandon == /\ phase \in {"starting", "undoing"}
           /\ Enter("over")
           /\ result' \in {130, 143} \cup IF phase = "starting" THEN {1} ELSE {}

Escalate(i) ==
  /\ phase \in {"undoing", "closing"}
  /\ i \in up /\ force[i] < 3
  /\ \A j \in up : force[j] >= force[i]
  /\ force' = [force EXCEPT ![i] = @ + 1]
  /\ UNCHANGED <<phase, up, ended, codes, told, result>>

\* Told to stop, the launcher may have seen some of the failures, or none.
Finish ==
  /\ phase \in {"undoing", "closing"}
  /\ \A i \in up : force[i] = 3
  /\ Enter("over")
  /\ IF phase = "undoing"
       THEN result' = 2
       ELSE /\ result' \in {0} \cup {codes[i] : i \in ended}
            /\ told \/ (result' = 0 <=> \A i \in Nodes : codes[i] = 0)

Next == \/ Undo \/ GoOn \/ Stop \/ Tell \/ Abandon \/ Finish
        \/ \E i \in Nodes : Start(i) \/ Escalate(i) \/ \E c \in ExitCodes : End(i, c)

Spec == Init /\ [][Next]_vars
=============================================================================
