-------------------------------- MODULE Action --------------------------------
(***************************************************************************)
(* An action server and an action client joined by the four topics: the    *)
(* whole of include/talosos/action.h.                                      *)
(***************************************************************************)
EXTENDS ActionServer, ActionClient

\* None is no execution and no outcome of the contract.
ASSUME ActionAssumption ==
  None \notin [goal : Goals, status : Statuses \cup {None}, open : BOOLEAN]
            \cup [by : Workers, status : Statuses]

VARIABLE lost   \* history: the transport dropped a message

actionVars == <<serverVars, clientVars, net, lost>>

ActionInit == ServerInit /\ ClientInit /\ net = {} /\ lost = FALSE

Server(A) == A /\ UNCHANGED <<clientVars, lost>>
Client(A) == A /\ UNCHANGED <<serverVars, lost>>

LoseMessage == /\ \E m \in net : Lose(m)
               /\ lost' = TRUE
               /\ UNCHANGED <<serverVars, clientVars>>

ActionNext == Server(ServerNext) \/ Client(ClientNext) \/ LoseMessage

ActionSpec == ActionInit /\ [][ActionNext]_actionVars

\* A server that was up before the client sent anything: a goal published to
\* a topic without subscriber is gone, and nothing is promised about it.
ServedInit ==
  /\ ClientInit
  /\ net = {} /\ lost = FALSE
  /\ phase = "live" /\ shared_self = TRUE /\ shutting_down = FALSE
  /\ joining = {} /\ racing = {} /\ workers = {}
  /\ active = [g \in Goals |-> None]
  /\ cancel_flag = [w \in Workers |-> FALSE]
  /\ rpc = [r \in Receivers |-> "idle"]
  /\ rgoal = [r \in Receivers |-> None]
  /\ rworker = [r \in Receivers |-> None]
  /\ wpc = [w \in Workers |-> "unborn"]
  /\ wgoal = [w \in Workers |-> None]
  /\ wself = [w \in Workers |-> FALSE]
  /\ wstatus = [w \in Workers |-> None]
  /\ reported = {} /\ threw = FALSE /\ terminated = FALSE

\* Threads run, the transport hands over what it does not lose, and execute
\* functions return; the application may do anything or nothing.
ActionFairness ==
  /\ \A r \in Receivers :
       /\ WF_actionVars(Server(\E g \in Goals : ReceiveGoal(r, g)))
       /\ WF_actionVars(Server((\E w \in Workers : AcceptGoal(r, w))
                               \/ IgnoreDuplicate(r) \/ SpawnWorker(r) \/ PushWorker(r)))
  /\ \A w \in Workers :
       WF_actionVars(Server(StartExecute(w) \/ PublishResult(w) \/ EraseActive(w)
                            \/ \E st \in Statuses : ExecuteReturns(w, st)))
  /\ \A g \in Goals : WF_actionVars(Client(PublishGoal(g) \/ PublishGoalThrows(g)))
  /\ \A c \in Callbacks : WF_actionVars(Client(~dangling /\ CallbackNext(c)))

ServedSpec     == ServedInit /\ [][ActionNext]_actionVars
FairServedSpec == ServedSpec /\ ActionFairness

-----------------------------------------------------------------------------
(* Properties of the whole action.                                         *)

\* A result belongs to the goal it is shown for: status and payload come from
\* one and the same execution of that goal, which had published them; and
\* WaitForResult hands out that pair only, also when wake-ups, timeouts and
\* repeated results interleave.
ResultIsGenuine ==
  \A g \in Goals :
    /\ has_result[g] => /\ result[g] \in reported
                       /\ wgoal[result[g]] = g
                       /\ wstatus[result[g]] = status[g]
    /\ \A p \in got[g] : has_result[g] /\ p = <<result[g], status[g]>>

\* Both ends stay up and no message was lost.
Undisturbed == phase = "live" /\ alive /\ ~lost

\* A goal sent to a server that stays up, by a client that stays up, over a
\* transport that loses nothing, gets its result.
GoalIsAnswered ==
  \A g \in Goals : (hpc[g] = "sent") ~> (has_result[g] \/ ~Undisturbed)

\* ... and so does the application thread that sleeps in WaitForResult.
WaiterIsWoken ==
  \A g \in Goals :
    (waiter[g] = "asleep") ~> (waiter[g] # "asleep" \/ ~Undisturbed)

\* A result that a callback thread has taken out of the map reaches its handle
\* and wakes whoever sleeps there, also when the client is destroyed meanwhile.
ResultReachesWaiter ==
  \A g \in Goals : (hpc[g] = "sent" /\ g \notin handles)
                     ~> ((has_result[g] /\ waiter[g] # "asleep") \/ dangling)

\* docs/wiki/tutorials/action.md: a handle can be cancelled at any time.
CancelAtAnyTime == ~dangling

-----------------------------------------------------------------------------
(* Every step of the action is a step of the contract, or none.            *)

ExecutionOf(w) ==
  IF wpc[w] = "unborn" THEN None
  ELSE [goal |-> wgoal[w], status |-> wstatus[w], open |-> active[wgoal[w]] = w]
OutcomeOf(g) ==
  IF has_result[g] THEN [by |-> result[g], status |-> status[g]] ELSE None

Contract == INSTANCE ActionContract WITH
  asked     <- {g \in Goals : hpc[g] = "sent"},
  execution <- [w \in Workers |-> ExecutionOf(w)],
  outcome   <- [g \in Goals |-> OutcomeOf(g)]

ImplementsContract == Contract!Spec

-----------------------------------------------------------------------------
(* The inductive invariant behind the safety properties, next to the       *)
(* server's own (IInv).                                                    *)

\* What a result message says is what the execution it names has published.
Genuine(m) == m.by \in reported /\ wgoal[m.by] = m.id /\ wstatus[m.by] = m.status

\* Only goals that were sent are on their way to the server, or inside HandleGoal.
MessagesInv ==
  /\ \A m \in net : /\ m.topic = "result" => Genuine(m)
                    /\ m.topic = "goal" => hpc[m.id] = "sent"
  /\ \A r \in Receivers : rpc[r] # "idle" => hpc[rgoal[r]] = "sent"
  /\ \A w \in Workers :
       /\ wpc[w] \in {"unborn", "reserved", "ready", "executing"} => wstatus[w] = None
       /\ w \in reported => wstatus[w] \in Statuses

\* Whoever took a handle out of the map is the only one to fill it.
Bringing(c, g) == cpc[c] = "res_taken" /\ cmsg[c].id = g
CallbacksInv ==
  \A c \in Callbacks :
    /\ cpc[c] # "idle" => cmsg[c] \in Message
    /\ cpc[c] \in {"res_taken", "res_stored"} =>
         cmsg[c].topic = "result" /\ Genuine(cmsg[c])
    /\ \A g \in Goals : Bringing(c, g) =>
         /\ hpc[g] # "none" /\ g \notin handles /\ ~has_result[g]
         /\ \A d \in Callbacks : Bringing(d, g) => c = d

HandlesInv ==
  \A g \in Goals :
    /\ g \in handles => hpc[g] # "none" /\ ~has_result[g]
    /\ has_result[g] => hpc[g] # "none"
    /\ hpc[g] # "none" =>
         g \in handles \/ has_result[g] \/ \E c \in Callbacks : Bringing(c, g)

ActionInv == IInv /\ ClientTypeOK /\ MessagesInv /\ CallbacksInv /\ HandlesInv
               /\ ResultIsGenuine /\ NoLostWakeup
=============================================================================
