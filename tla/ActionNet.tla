------------------------------ MODULE ActionNet ------------------------------
(***************************************************************************)
(* The four topics of an action (goal, cancel, feedback, result) as one    *)
(* set of messages in flight.  The transport is zenoh, which is not part   *)
(* of the repository's own code: the runtime uses it through put() and     *)
(* declare_subscriber() with default options, so a message may be dropped, *)
(* may overtake messages of other topics, and, if MayDuplicate, may be     *)
(* handed to a callback more than once (a second publisher of the same     *)
(* goal id has that effect, and HandleGoal has a branch for it).           *)
(***************************************************************************)
CONSTANTS
  Goals,         \* goal ids (NewGoalID draws 128 random bits: never reused)
  Workers,       \* threads that may ever execute a goal (bounds the model)
  Statuses,      \* the GoalStatus values an execute function may return
  MayLose,       \* the transport may drop a message
  MayDuplicate   \* the transport may deliver a message again

ASSUME NetAssumption == MayLose \in BOOLEAN /\ MayDuplicate \in BOOLEAN

VARIABLE net     \* the messages in flight

GoalMsg(g)          == [topic |-> "goal", id |-> g]
CancelMsg(g)        == [topic |-> "cancel", id |-> g]
FeedbackMsg(g)      == [topic |-> "feedback", id |-> g]
\* The result payload is abstracted to the execution that computed it.
ResultMsg(g, w, st) == [topic |-> "result", id |-> g, by |-> w, status |-> st]

Message == {GoalMsg(g) : g \in Goals} \cup {CancelMsg(g) : g \in Goals}
             \cup {FeedbackMsg(g) : g \in Goals}
             \cup {ResultMsg(g, w, st) : g \in Goals, w \in Workers, st \in Statuses}

Publish(m) == net' = net \cup {m}

\* A duplicating transport keeps a copy until it is lost.
Deliver(m) == /\ m \in net
              /\ net' = IF MayDuplicate THEN net ELSE net \ {m}

Lose(m) == /\ MayLose
           /\ m \in net
           /\ net' = net \ {m}
=============================================================================
