------------------------------ MODULE ActionProofs ------------------------------
(***************************************************************************)
(* An action server and its client (Action.tla), for any numbers of goals, *)
(* workers and transport threads, whatever the transport loses or repeats: *)
(* ActionInv is inductive, the safety properties follow from it, and every *)
(* step is one of the contract or none.                                    *)
(***************************************************************************)
EXTENDS Action, ActionServerProofs

\* What the fields of a message are.
LEMMA MessageFields ==
  ASSUME NEW m \in Message
  PROVE  /\ m.id \in Goals
         /\ m.topic = "result" => m.by \in Workers /\ m.status \in Statuses
BY DEF Message, GoalMsg, CancelMsg, FeedbackMsg, ResultMsg

LEMMA PublishedMessages ==
  ASSUME NEW g \in Goals, NEW w \in Workers, NEW st \in Statuses
  PROVE  /\ GoalMsg(g) \in Message /\ GoalMsg(g).topic = "goal" /\ GoalMsg(g).id = g
         /\ CancelMsg(g) \in Message /\ CancelMsg(g).topic = "cancel"
         /\ FeedbackMsg(g) \in Message /\ FeedbackMsg(g).topic = "feedback"
         /\ ResultMsg(g, w, st) \in Message
         /\ ResultMsg(g, w, st).topic = "result" /\ ResultMsg(g, w, st).id = g
         /\ ResultMsg(g, w, st).by = w /\ ResultMsg(g, w, st).status = st
BY DEF Message, GoalMsg, CancelMsg, FeedbackMsg, ResultMsg

-----------------------------------------------------------------------------
(* The server's steps.                                                     *)

\* A worker that has published keeps its goal and its status.
LEMMA PublishedForGood ==
  ASSUME IInv, ServerNext
  PROVE  /\ reported \subseteq reported'
         /\ \A w \in reported : wgoal'[w] = wgoal[w] /\ wstatus'[w] = wstatus[w]
<1> USE DEF IInv, TypeOK, workerVars, serverVars, receiverVars, ownerVars
<1>1. CASE OwnerNext
  BY <1>1 DEF OwnerNext, SubscribeGoal, SubscribeCancel, SubscribeCancelThrows, Finalize,
       BeginDestroy, CancelAllAndTakeWorkers, JoinAndRelease, FreeState
<1>2. CASE \E r \in Receivers, w \in Workers : AcceptGoal(r, w)
  BY <1>2 DEF AcceptGoal, WorkersInv
<1>3. CASE \/ \E r \in Receivers, g \in Goals : ReceiveGoal(r, g)
           \/ \E r \in Receivers : \/ IgnoreDuplicate(r) \/ SpawnWorker(r)
                                   \/ SpawnThrows(r) \/ PushWorker(r)
           \/ \E g \in Goals : HandleCancel(g)
  BY <1>3 DEF ReceiveGoal, IgnoreDuplicate, SpawnWorker, SpawnThrows, PushWorker,
       HandleCancel
<1>4. ASSUME NEW v \in Workers, WorkerNext(v)
      PROVE  /\ reported \subseteq reported'
             /\ \A w \in reported : wgoal'[w] = wgoal[w] /\ wstatus'[w] = wstatus[w]
  BY <1>4 DEF WorkerNext, StartExecute, PublishFeedback, ExecuteReturns, PublishResult,
       PublishResultThrows, EraseActive, WorkersInv
<1> QED
  BY <1>1, <1>2, <1>3, <1>4 DEF ServerNext, ReceiverNext

\* No step of the server puts a goal on its way that was not sent, or a result that
\* was not computed.
LEMMA ServerMessages ==
  ASSUME IInv, MessagesInv, ServerNext, UNCHANGED clientVars
  PROVE  MessagesInv'
<1> USE DEF IInv, TypeOK, workerVars, serverVars, receiverVars, ownerVars, clientVars, appVars
<1>1. \A m : Genuine(m) => Genuine(m)'
  BY PublishedForGood DEF Genuine
<1>2. CASE OwnerNext
  BY <1>1, <1>2 DEF OwnerNext, SubscribeGoal, SubscribeCancel, SubscribeCancelThrows,
       Finalize, BeginDestroy, CancelAllAndTakeWorkers, JoinAndRelease, FreeState, MessagesInv
<1>3. ASSUME NEW r \in Receivers, NEW g \in Goals, ReceiveGoal(r, g)
      PROVE  MessagesInv'
  <2>1. GoalMsg(g) \in net /\ hpc[g] = "sent" /\ net' \subseteq net
    BY <1>3 DEF ReceiveGoal, Deliver, MessagesInv, GoalMsg
  <2> QED
    BY <1>1, <1>3, <2>1 DEF ReceiveGoal, MessagesInv
<1>4. ASSUME NEW g \in Goals, HandleCancel(g)
      PROVE  MessagesInv'
  <2>1. net' \subseteq net
    BY <1>4 DEF HandleCancel, Deliver
  <2> QED
    BY <1>1, <1>4, <2>1 DEF HandleCancel, MessagesInv
<1>5. ASSUME NEW r \in Receivers, NEW w \in Workers, AcceptGoal(r, w)
      PROVE  MessagesInv'
  BY <1>1, <1>5 DEF AcceptGoal, MessagesInv
<1>6. ASSUME NEW r \in Receivers, SpawnWorker(r)
      PROVE  MessagesInv'
  BY <1>1, <1>6 DEF SpawnWorker, MessagesInv, ReceiversInv
<1>7. ASSUME NEW r \in Receivers, IgnoreDuplicate(r) \/ SpawnThrows(r) \/ PushWorker(r)
      PROVE  MessagesInv'
  BY <1>1, <1>7 DEF IgnoreDuplicate, SpawnThrows, PushWorker, Return, MessagesInv
<1>8. ASSUME NEW w \in Workers, StartExecute(w) \/ PublishResultThrows(w) \/ EraseActive(w)
      PROVE  MessagesInv'
  BY <1>1, <1>8 DEF StartExecute, PublishResultThrows, EraseActive, MessagesInv
<1>9. ASSUME NEW w \in Workers, NEW st \in Statuses, ExecuteReturns(w, st)
      PROVE  MessagesInv'
  BY <1>1, <1>9 DEF ExecuteReturns, MessagesInv
<1>10. ASSUME NEW w \in Workers, PublishFeedback(w)
       PROVE  MessagesInv'
  <2>1. FeedbackMsg(wgoal[w]).topic = "feedback"
    BY DEF FeedbackMsg
  <2> QED
    BY <1>1, <1>10, <2>1 DEF PublishFeedback, Publish, MessagesInv
<1>11. ASSUME NEW w \in Workers, PublishResult(w)
       PROVE  MessagesInv'
  <2> PICK m : m = ResultMsg(wgoal[w], w, wstatus[w])
    OBVIOUS
  <2>1. /\ net' = net \cup {m} /\ reported' = reported \cup {w}
        /\ wpc' = [wpc EXCEPT ![w] = "published"]
        /\ UNCHANGED <<wgoal, wstatus, receiverVars>>
    BY <1>11 DEF PublishResult, Publish
  <2>2. m.topic = "result" /\ m.by = w /\ m.id = wgoal[w] /\ m.status = wstatus[w]
    BY DEF ResultMsg
  <2>3. Genuine(m)'
    BY <2>1, <2>2 DEF Genuine
  <2>4. wstatus[w] \in Statuses
    BY <1>11 DEF PublishResult, WorkersInv
  <2> QED
    BY <1>1, <2>1, <2>2, <2>3, <2>4 DEF MessagesInv
<1> QED
  BY <1>2, <1>3, <1>4, <1>5, <1>6, <1>7, <1>8, <1>9, <1>10, <1>11
     DEF ServerNext, ReceiverNext, WorkerNext

\* What the client has seen stays true.
LEMMA ServerStep ==
  ASSUME ActionInv, Server(ServerNext)
  PROVE  ActionInv'
<1> USE DEF ActionInv, Server
<1>1. IInv' /\ MessagesInv'
  BY ServerNextIInv, ServerMessages
<1>2. \A m : Genuine(m) => Genuine(m)'
  BY PublishedForGood DEF Genuine
<1>3. ClientTypeOK' /\ HandlesInv' /\ NoLostWakeup'
  BY DEF ClientTypeOK, HandlesInv, Bringing, NoLostWakeup, clientVars, appVars, handleVars,
         callbackVars
<1>4. CallbacksInv'
  BY <1>2 DEF CallbacksInv, Bringing, clientVars, appVars, handleVars, callbackVars
<1>5. ResultIsGenuine'
  BY PublishedForGood DEF ResultIsGenuine, clientVars, appVars, handleVars
<1> QED
  BY <1>1, <1>3, <1>4, <1>5

-----------------------------------------------------------------------------
(* The client's steps.                                                     *)

\* The server's invariant knows of the network only that it carries messages.
LEMMA ServerUntouched ==
  ASSUME IInv, UNCHANGED serverVars, net' \subseteq Message
  PROVE  IInv'
<1> USE DEF serverVars, receiverVars, workerVars, ownerVars, IInv, Live, Admitting
<1>1. TypeOK' /\ ReceiversInv' /\ OwnerInv' /\ ShutdownInv'
  BY DEF TypeOK, ReceiversInv, OwnerInv, ShutdownInv
<1>2. WorkersInv' /\ EntriesInv' /\ CancelReachesWorker' /\ NoLeakedEntry'
        /\ JoinedAreCancelled'
  BY DEF WorkersInv, EntriesInv, CancelReachesWorker, NoLeakedEntry, JoinedAreCancelled
<1> QED
  BY <1>1, <1>2

\* What a step of the client leaves of the server's parts, and of what it says of
\* messages, whatever it does to handles and callbacks.
LEMMA ClientFrame ==
  ASSUME ActionInv, UNCHANGED serverVars, net' \subseteq Message,
         \A m \in net' \ net : m.topic # "result" /\ (m.topic = "goal" => hpc'[m.id] = "sent"),
         \A g \in Goals : hpc[g] = "sent" => hpc'[g] = "sent"
  PROVE  IInv' /\ MessagesInv' /\ \A m : Genuine(m) <=> Genuine(m)'
<1> USE DEF ActionInv, serverVars, receiverVars, workerVars, ownerVars
<1>1. IInv'
  BY ServerUntouched
<1>2. \A m : Genuine(m) <=> Genuine(m)'
  BY DEF Genuine
<1>3. \A m \in net : m.topic = "goal" => m.id \in Goals
  BY MessageFields DEF IInv, TypeOK
<1>4. \A r \in Receivers : rpc[r] # "idle" => rgoal[r] \in Goals
  BY DEF IInv, ReceiversInv
<1>5. MessagesInv'
  BY <1>2, <1>3, <1>4 DEF MessagesInv
<1> QED
  BY <1>1, <1>2, <1>5

\* A new handle is nobody's yet.
LEMMA RegisterHandleStep ==
  ASSUME ActionInv, UNCHANGED serverVars, NEW g \in Goals, NEW b \in BOOLEAN,
         RegisterHandle(g, b)
  PROVE  ActionInv'
<1> USE DEF RegisterHandle, ClientTypeOK, callbackVars, handleVars
<1>1. IInv' /\ MessagesInv' /\ \A m : Genuine(m) <=> Genuine(m)'
  BY ClientFrame DEF ActionInv, IInv, TypeOK
<1>2. ClientTypeOK' /\ NoLostWakeup'
  BY DEF ActionInv, NoLostWakeup
<1>3. CallbacksInv' /\ HandlesInv'
  BY <1>1 DEF ActionInv, CallbacksInv, HandlesInv, Bringing
<1>4. ResultIsGenuine'
  BY DEF ActionInv, ResultIsGenuine, serverVars, workerVars
<1> QED
  BY <1>1, <1>2, <1>3, <1>4 DEF ActionInv

LEMMA PublishGoalStep ==
  ASSUME ActionInv, UNCHANGED serverVars, NEW g \in Goals, PublishGoal(g)
  PROVE  ActionInv'
<1> USE DEF PublishGoal, Publish, ClientTypeOK, callbackVars, handleVars
<1>1. GoalMsg(g) \in Message /\ GoalMsg(g).topic = "goal" /\ GoalMsg(g).id = g
  BY DEF Message, GoalMsg
<1>2. IInv' /\ MessagesInv' /\ \A m : Genuine(m) <=> Genuine(m)'
  BY <1>1, ClientFrame DEF ActionInv, IInv, TypeOK
<1>3. ClientTypeOK' /\ NoLostWakeup'
  BY DEF ActionInv, NoLostWakeup
<1>4. CallbacksInv' /\ HandlesInv'
  BY <1>2 DEF ActionInv, CallbacksInv, HandlesInv, Bringing
<1>5. ResultIsGenuine'
  BY DEF ActionInv, ResultIsGenuine, serverVars, workerVars
<1> QED
  BY <1>2, <1>3, <1>4, <1>5 DEF ActionInv

\* A SendGoal that fails leaves its handle behind in the map.
LEMMA PublishGoalThrowsStep ==
  ASSUME ActionInv, UNCHANGED serverVars, NEW g \in Goals, PublishGoalThrows(g)
  PROVE  ActionInv'
<1> USE DEF PublishGoalThrows, ClientTypeOK, callbackVars, handleVars
<1>1. IInv' /\ MessagesInv' /\ \A m : Genuine(m) <=> Genuine(m)'
  BY ClientFrame DEF ActionInv, IInv, TypeOK
<1>2. ClientTypeOK' /\ NoLostWakeup'
  BY DEF ActionInv, NoLostWakeup
<1>3. CallbacksInv' /\ HandlesInv'
  BY <1>1 DEF ActionInv, CallbacksInv, HandlesInv, Bringing
<1>4. ResultIsGenuine'
  BY DEF ActionInv, ResultIsGenuine, serverVars, workerVars
<1> QED
  BY <1>1, <1>2, <1>3, <1>4 DEF ActionInv

\* Waiting hands out the stored pair, or sleeps where there is none.
LEMMA WaitStep ==
  ASSUME ActionInv, UNCHANGED serverVars, NEW g \in Goals, Wait(g) \/ WaitTimesOut(g)
  PROVE  ActionInv'
<1> USE DEF Wait, WaitTimesOut, ClientTypeOK, Waiting, callbackVars, handleVars
<1>1. IInv' /\ MessagesInv' /\ \A m : Genuine(m) <=> Genuine(m)'
  BY ClientFrame DEF ActionInv, IInv, TypeOK
<1>2. ClientTypeOK'
  BY DEF ActionInv
<1>3. NoLostWakeup'
  BY DEF ActionInv, NoLostWakeup
<1>4. CallbacksInv' /\ HandlesInv'
  BY <1>1 DEF ActionInv, CallbacksInv, HandlesInv, Bringing
<1>5. ResultIsGenuine'
  BY DEF ActionInv, ResultIsGenuine, serverVars, workerVars
<1> QED
  BY <1>1, <1>2, <1>3, <1>4, <1>5 DEF ActionInv

LEMMA OtherAppStep ==
  ASSUME ActionInv, UNCHANGED serverVars, NEW g \in Goals, NEW b \in BOOLEAN,
         Cancel(g) \/ SetFeedbackCallback(g, b)
  PROVE  ActionInv'
<1> USE DEF Cancel, Publish, SetFeedbackCallback, ClientTypeOK, callbackVars, handleVars, appVars
<1>1. CancelMsg(g) \in Message /\ CancelMsg(g).topic = "cancel"
  BY DEF Message, CancelMsg
<1>2. IInv' /\ MessagesInv' /\ \A m : Genuine(m) <=> Genuine(m)'
  BY <1>1, ClientFrame DEF ActionInv, IInv, TypeOK
<1>3. ClientTypeOK' /\ NoLostWakeup'
  <2>1. CASE Cancel(g)
    BY <2>1 DEF ActionInv, NoLostWakeup
  <2>2. CASE SetFeedbackCallback(g, b)
    BY <2>2 DEF ActionInv, NoLostWakeup
  <2> QED
    BY <2>1, <2>2
<1>4. CallbacksInv' /\ HandlesInv'
  BY <1>2 DEF ActionInv, CallbacksInv, HandlesInv, Bringing
<1>5. ResultIsGenuine'
  BY DEF ActionInv, ResultIsGenuine, serverVars, workerVars
<1> QED
  BY <1>2, <1>3, <1>4, <1>5 DEF ActionInv

\* Handles survive their client.
LEMMA DestroyClientStep ==
  ASSUME ActionInv, UNCHANGED serverVars, DestroyClient
  PROVE  ActionInv'
<1> USE DEF DestroyClient, ClientTypeOK, callbackVars, handleVars
<1>1. IInv' /\ MessagesInv' /\ \A m : Genuine(m) <=> Genuine(m)'
  BY ClientFrame DEF ActionInv, IInv, TypeOK
<1>2. ClientTypeOK' /\ NoLostWakeup'
  BY DEF ActionInv, NoLostWakeup
<1>3. CallbacksInv' /\ HandlesInv'
  BY <1>1 DEF ActionInv, CallbacksInv, HandlesInv, Bringing
<1>4. ResultIsGenuine'
  BY DEF ActionInv, ResultIsGenuine, serverVars, workerVars
<1> QED
  BY <1>1, <1>2, <1>3, <1>4 DEF ActionInv

\* A feedback callback changes nothing but itself.
LEMMA FeedbackStep ==
  ASSUME ActionInv, UNCHANGED serverVars, NEW c \in Callbacks, NEW m \in net,
         FindFeedbackHandle(c, m)
  PROVE  ActionInv'
<1> USE DEF FindFeedbackHandle, Deliver, Enter, ClientTypeOK, CPcs, handleVars, appVars
<1>1. m \in Message
  BY DEF ActionInv, IInv, TypeOK
<1>2. IInv' /\ MessagesInv' /\ \A k : Genuine(k) <=> Genuine(k)'
  BY ClientFrame DEF ActionInv, IInv, TypeOK
<1>3. ClientTypeOK'
  BY <1>1 DEF ActionInv
<1>4. NoLostWakeup'
  BY DEF ActionInv, NoLostWakeup
<1>5. CallbacksInv' /\ HandlesInv'
  BY <1>1, <1>2 DEF ActionInv, CallbacksInv, HandlesInv, Bringing
<1>6. ResultIsGenuine'
  BY DEF ActionInv, ResultIsGenuine, serverVars, workerVars
<1> QED
  BY <1>2, <1>3, <1>4, <1>5, <1>6 DEF ActionInv

LEMMA FeedbackInsideStep ==
  ASSUME ActionInv, UNCHANGED serverVars, NEW c \in Callbacks,
         CopyFeedbackCallback(c) \/ CallFeedbackCallback(c)
  PROVE  ActionInv'
<1> USE DEF CopyFeedbackCallback, CallFeedbackCallback, Leave, ClientTypeOK, CPcs, handleVars,
        appVars
<1>1. IInv' /\ MessagesInv' /\ \A k : Genuine(k) <=> Genuine(k)'
  BY ClientFrame DEF ActionInv, IInv, TypeOK
<1>2. ClientTypeOK'
  <2>1. CASE CopyFeedbackCallback(c)
    <3>1. (cmsg[c].id \in feedback_cb) \in BOOLEAN
      OBVIOUS
    <3>2. ccall' \in [Callbacks -> BOOLEAN]
      BY <2>1, <3>1 DEF ActionInv
    <3> QED
      BY <2>1, <3>2 DEF ActionInv
  <2>2. CASE CallFeedbackCallback(c)
    BY <2>2 DEF ActionInv
  <2> QED
    BY <2>1, <2>2
<1>3. NoLostWakeup'
  BY DEF ActionInv, NoLostWakeup
<1>4. CallbacksInv' /\ HandlesInv'
  BY <1>1 DEF ActionInv, CallbacksInv, HandlesInv, Bringing
<1>5. ResultIsGenuine'
  BY DEF ActionInv, ResultIsGenuine, serverVars, workerVars
<1> QED
  BY <1>1, <1>2, <1>3, <1>4, <1>5 DEF ActionInv

\* Erasing the handle in the region that found it makes its taker the only one.
LEMMA TakeHandleStep ==
  ASSUME ActionInv, UNCHANGED serverVars, NEW c \in Callbacks, NEW m \in net, TakeHandle(c, m)
  PROVE  ActionInv'
<1> USE DEF TakeHandle, Deliver, Enter, ClientTypeOK, CPcs, handleVars, appVars
<1>1. m \in Message /\ m.id \in Goals
  BY MessageFields DEF ActionInv, IInv, TypeOK
<1>2. IInv' /\ MessagesInv' /\ \A k : Genuine(k) <=> Genuine(k)'
  BY ClientFrame DEF ActionInv, IInv, TypeOK
<1>3. ClientTypeOK'
  BY <1>1 DEF ActionInv
<1>4. NoLostWakeup'
  BY DEF ActionInv, NoLostWakeup
<1>5. Genuine(m)
  BY DEF ActionInv, MessagesInv
<1>6. CallbacksInv'
  BY <1>1, <1>2, <1>5 DEF ActionInv, CallbacksInv, HandlesInv, Bringing
<1>7. HandlesInv'
  BY <1>1 DEF ActionInv, HandlesInv, Bringing
<1>8. ResultIsGenuine'
  BY DEF ActionInv, ResultIsGenuine, serverVars, workerVars
<1> QED
  BY <1>2, <1>3, <1>4, <1>6, <1>7, <1>8 DEF ActionInv

\* The one taker fills an empty handle with what the execution published.
LEMMA StoreResultStep ==
  ASSUME ActionInv, UNCHANGED serverVars, NEW c \in Callbacks, StoreResult(c)
  PROVE  ActionInv'
<1> USE DEF StoreResult, ClientTypeOK, CPcs, appVars
<1>1. /\ cmsg[c] \in Message /\ cmsg[c].id \in Goals
      /\ cmsg[c].by \in Workers /\ cmsg[c].status \in Statuses
      /\ Genuine(cmsg[c]) /\ Bringing(c, cmsg[c].id)
  BY MessageFields DEF ActionInv, CallbacksInv, Bringing
<1>2. IInv' /\ MessagesInv' /\ \A k : Genuine(k) <=> Genuine(k)'
  BY ClientFrame DEF ActionInv, IInv, TypeOK
<1>3. ClientTypeOK'
  BY <1>1 DEF ActionInv
<1>4. NoLostWakeup'
  BY <1>1 DEF ActionInv, NoLostWakeup
<1>5. CallbacksInv' /\ HandlesInv'
  BY <1>1, <1>2 DEF ActionInv, CallbacksInv, HandlesInv, Bringing
<1>6. ResultIsGenuine'
  <2>1. ~has_result[cmsg[c].id]
    BY <1>1 DEF ActionInv, CallbacksInv
  <2> QED
    BY <1>1, <2>1 DEF ActionInv, ResultIsGenuine, Genuine, serverVars, workerVars
<1> QED
  BY <1>2, <1>3, <1>4, <1>5, <1>6 DEF ActionInv

LEMMA NotifyWaitersStep ==
  ASSUME ActionInv, UNCHANGED serverVars, NEW c \in Callbacks, NotifyWaiters(c)
  PROVE  ActionInv'
<1> USE DEF NotifyWaiters, Leave, ClientTypeOK, CPcs, Waiting, handleVars
<1>1. IInv' /\ MessagesInv' /\ \A k : Genuine(k) <=> Genuine(k)'
  BY ClientFrame DEF ActionInv, IInv, TypeOK
<1>2. ClientTypeOK'
  BY DEF ActionInv
<1>3. NoLostWakeup'
  BY DEF ActionInv, NoLostWakeup
<1>4. CallbacksInv' /\ HandlesInv'
  BY <1>1 DEF ActionInv, CallbacksInv, HandlesInv, Bringing
<1>5. ResultIsGenuine'
  BY DEF ActionInv, ResultIsGenuine, serverVars, workerVars
<1> QED
  BY <1>1, <1>2, <1>3, <1>4, <1>5 DEF ActionInv

-----------------------------------------------------------------------------
(* The invariant.                                                          *)

LEMMA InitActionInv == ActionInit => ActionInv
<1> SUFFICES ASSUME ActionInit PROVE ActionInv
  OBVIOUS
<1> USE DEF ActionInit, ServerInit, ClientInit
<1>1. IInv
  <2>1. TypeOK
    BY DEF TypeOK, Phases, RPcs, WPcs
  <2>2. ReceiversInv /\ OwnerInv /\ ShutdownInv
    BY DEF ReceiversInv, OwnerInv, ShutdownInv, Admitting
  <2>3. WorkersInv /\ EntriesInv /\ CancelReachesWorker /\ NoLeakedEntry
          /\ JoinedAreCancelled
    BY ServerAssumption DEF WorkersInv, EntriesInv, CancelReachesWorker, NoLeakedEntry,
         JoinedAreCancelled, Live
  <2> QED
    BY <2>1, <2>2, <2>3 DEF IInv
<1>2. ClientTypeOK
  BY DEF ClientTypeOK, CPcs, Waiting
<1>3. MessagesInv /\ CallbacksInv /\ HandlesInv /\ ResultIsGenuine /\ NoLostWakeup
  BY DEF MessagesInv, CallbacksInv, HandlesInv, Bringing, ResultIsGenuine, NoLostWakeup
<1> QED
  BY <1>1, <1>2, <1>3 DEF ActionInv

LEMMA ClientStep ==
  ASSUME ActionInv, Client(ClientNext)
  PROVE  ActionInv'
<1>1. CASE AppNext
  BY <1>1, RegisterHandleStep, PublishGoalStep, PublishGoalThrowsStep, WaitStep,
     OtherAppStep, DestroyClientStep DEF Client, AppNext
<1>2. ASSUME NEW c \in Callbacks, CallbackNext(c)
      PROVE  ActionInv'
  <2>1. CASE \E m \in net : FindFeedbackHandle(c, m) \/ TakeHandle(c, m)
    BY <2>1, FeedbackStep, TakeHandleStep DEF Client
  <2>2. CASE CopyFeedbackCallback(c) \/ CallFeedbackCallback(c)
    BY <2>2, FeedbackInsideStep DEF Client
  <2> QED
    BY <1>2, <2>1, <2>2, StoreResultStep, NotifyWaitersStep DEF Client, CallbackNext
<1> QED
  BY <1>1, <1>2 DEF Client, ClientNext

LEMMA LoseMessageStep ==
  ASSUME ActionInv, LoseMessage
  PROVE  ActionInv'
<1>1. UNCHANGED <<serverVars, clientVars>> /\ net' \subseteq net
  BY DEF LoseMessage, Lose
<1>2. IInv' /\ MessagesInv' /\ \A m : Genuine(m) <=> Genuine(m)'
  BY <1>1, ClientFrame DEF ActionInv, IInv, TypeOK, clientVars, appVars
<1>3. ClientTypeOK' /\ CallbacksInv' /\ HandlesInv' /\ NoLostWakeup'
  BY <1>1, <1>2 DEF ActionInv, ClientTypeOK, CallbacksInv, HandlesInv, Bringing, NoLostWakeup,
       clientVars, appVars, handleVars, callbackVars
<1>4. ResultIsGenuine'
  BY <1>1 DEF ActionInv, ResultIsGenuine, serverVars, workerVars, clientVars, appVars, handleVars
<1> QED
  BY <1>2, <1>3, <1>4 DEF ActionInv

LEMMA ActionStutter ==
  ASSUME ActionInv, UNCHANGED actionVars
  PROVE  ActionInv'
<1>1. UNCHANGED <<serverVars, clientVars, net>>
  BY DEF actionVars
<1>2. IInv' /\ MessagesInv' /\ \A m : Genuine(m) <=> Genuine(m)'
  BY <1>1, ClientFrame DEF ActionInv, IInv, TypeOK, clientVars, appVars
<1>3. ClientTypeOK' /\ CallbacksInv' /\ HandlesInv' /\ NoLostWakeup'
  BY <1>1, <1>2 DEF ActionInv, ClientTypeOK, CallbacksInv, HandlesInv, Bringing, NoLostWakeup,
       clientVars, appVars, handleVars, callbackVars
<1>4. ResultIsGenuine'
  BY <1>1 DEF ActionInv, ResultIsGenuine, serverVars, workerVars, clientVars, appVars, handleVars
<1> QED
  BY <1>2, <1>3, <1>4 DEF ActionInv

LEMMA ActionStep == ActionInv /\ [ActionNext]_actionVars => ActionInv'
BY ServerStep, ClientStep, LoseMessageStep, ActionStutter DEF ActionNext

\* A server that is up before its client starts is as good a beginning.
LEMMA ServedActionInv == ServedInit => ActionInv
<1> SUFFICES ASSUME ServedInit PROVE ActionInv
  OBVIOUS
<1> USE DEF ServedInit, ClientInit
<1>1. IInv
  <2>1. TypeOK
    BY DEF TypeOK, Phases, RPcs, WPcs
  <2>2. ReceiversInv /\ OwnerInv /\ ShutdownInv
    BY DEF ReceiversInv, OwnerInv, ShutdownInv, Admitting
  <2>3. WorkersInv /\ EntriesInv /\ CancelReachesWorker /\ NoLeakedEntry
          /\ JoinedAreCancelled
    BY ServerAssumption DEF WorkersInv, EntriesInv, CancelReachesWorker, NoLeakedEntry,
         JoinedAreCancelled, Live
  <2> QED
    BY <2>1, <2>2, <2>3 DEF IInv
<1>2. ClientTypeOK
  BY DEF ClientTypeOK, CPcs, Waiting
<1>3. MessagesInv /\ CallbacksInv /\ HandlesInv /\ ResultIsGenuine /\ NoLostWakeup
  BY DEF MessagesInv, CallbacksInv, HandlesInv, Bringing, ResultIsGenuine, NoLostWakeup
<1> QED
  BY <1>1, <1>2, <1>3 DEF ActionInv

\* The invariant holds in every reachable state of a server and its client.
THEOREM ActionInvariance == ActionSpec => []ActionInv
BY InitActionInv, ActionStep, PTL DEF ActionSpec

LEMMA ServedInvariance == ServedSpec => []ActionInv
BY ServedActionInv, ActionStep, PTL DEF ServedSpec

-----------------------------------------------------------------------------
(* What follows from it.                                                   *)

\* A handle shows, and WaitForResult returns, the status and the payload that one
\* execution of that very goal has published.
THEOREM ResultsAreGenuine == ActionSpec => []ResultIsGenuine
<1>1. ActionInv => ResultIsGenuine
  BY DEF ActionInv
<1> QED
  BY <1>1, ActionInvariance, PTL

\* A goal that was sent waits in the map, has its result, or is being brought it.
THEOREM HandlesAreKept == ActionSpec => []NoOrphanedHandle
<1>1. ActionInv => NoOrphanedHandle
  BY DEF ActionInv, HandlesInv, Bringing, NoOrphanedHandle
<1> QED
  BY <1>1, ActionInvariance, PTL

\* Nobody sleeps on a result that is there without a notification on its way.
THEOREM WakeupsAreKept == ActionSpec => []NoLostWakeup
<1>1. ActionInv => NoLostWakeup
  BY DEF ActionInv
<1> QED
  BY <1>1, ActionInvariance, PTL

\* The result of a handle never changes: a handle that has one is in no callback's
\* hands any more.
THEOREM ResultsAreFinal == ActionSpec => ResultIsFinal
<1> DEFINE Kept == \A g \in Goals : has_result[g] =>
                     /\ has_result'[g]
                     /\ result'[g] = result[g]
                     /\ status'[g] = status[g]
<1>1. ASSUME ActionInv, [ActionNext]_actionVars
      PROVE  [Kept]_handleVars
  <2>1. CASE UNCHANGED handleVars
    BY <2>1
  <2>2. ASSUME NEW c \in Callbacks, StoreResult(c)
        PROVE  Kept
    <3>1. Bringing(c, cmsg[c].id) /\ cmsg[c].id \in Goals
      BY <1>1, <2>2, MessageFields DEF StoreResult, ActionInv, CallbacksInv, Bringing
    <3>2. ~has_result[cmsg[c].id]
      BY <1>1, <3>1 DEF ActionInv, CallbacksInv
    <3> QED
      BY <1>1, <2>2, <3>1, <3>2 DEF StoreResult, ActionInv, ClientTypeOK
  <2>3. CASE \E g \in Goals, b \in BOOLEAN : RegisterHandle(g, b) \/ SetFeedbackCallback(g, b)
    BY <2>3 DEF RegisterHandle, SetFeedbackCallback
  <2>4. \/ UNCHANGED handleVars \/ \E c \in Callbacks : StoreResult(c)
        \/ \E g \in Goals, b \in BOOLEAN : RegisterHandle(g, b) \/ SetFeedbackCallback(g, b)
    BY <1>1 DEF ActionNext, Server, Client, LoseMessage, ClientNext, AppNext, CallbackNext,
         PublishGoal, PublishGoalThrows, Cancel, Wait, WaitTimesOut, DestroyClient,
         FindFeedbackHandle, TakeHandle, CopyFeedbackCallback, CallFeedbackCallback, NotifyWaiters, actionVars, clientVars
  <2> QED
    BY <2>1, <2>2, <2>3, <2>4
<1> QED
  BY <1>1, ActionInvariance, PTL DEF ActionSpec, ResultIsFinal

\* Feedback stops with the result: a handle that has one is not in the map, where a
\* feedback callback would have to find it.
THEOREM FeedbackStops == ActionSpec => FeedbackDriesUp
<1> DEFINE Dry == \A g \in Goals : has_result[g] => InFeedback(g)' \subseteq InFeedback(g)
<1>1. ASSUME ActionInv, [ActionNext]_actionVars
      PROVE  [Dry]_clientVars
  <2>1. CASE UNCHANGED callbackVars
    BY <2>1 DEF InFeedback, callbackVars
  <2>2. ASSUME NEW c \in Callbacks, NEW m \in net, FindFeedbackHandle(c, m)
        PROVE  Dry
    <3>1. m.id \in handles => ~has_result[m.id]
      BY <1>1 DEF ActionInv, HandlesInv, ClientTypeOK
    <3> QED
      BY <1>1, <2>2, <3>1 DEF FindFeedbackHandle, Enter, InFeedback, ActionInv, ClientTypeOK
  <2>3. ASSUME NEW c \in Callbacks,
               \/ \E m \in net : TakeHandle(c, m)
               \/ CopyFeedbackCallback(c) \/ CallFeedbackCallback(c)
               \/ StoreResult(c) \/ NotifyWaiters(c)
        PROVE  Dry
    BY <1>1, <2>3 DEF TakeHandle, Enter, CopyFeedbackCallback, CallFeedbackCallback, Leave,
         StoreResult, NotifyWaiters, InFeedback, ActionInv, ClientTypeOK
  <2>4. UNCHANGED callbackVars \/ \E c \in Callbacks : CallbackNext(c)
    BY <1>1 DEF ActionNext, Server, Client, LoseMessage, ClientNext, AppNext, PublishGoal,
         PublishGoalThrows, Cancel, Wait, WaitTimesOut, DestroyClient, RegisterHandle,
         SetFeedbackCallback, actionVars, clientVars
  <2> QED
    BY <2>1, <2>2, <2>3, <2>4 DEF CallbackNext
<1> QED
  BY <1>1, ActionInvariance, PTL DEF ActionSpec, FeedbackDriesUp

-----------------------------------------------------------------------------
(* The refinement.                                                         *)

\* Neither an execution that has begun nor an outcome is None.
LEMMA StartedIsSomething ==
  ASSUME ActionInv
  PROVE  /\ \A w \in Workers : wpc[w] # "unborn" => ExecutionOf(w) # None
         /\ \A g \in Goals : has_result[g] => OutcomeOf(g) # None
<1>1. ASSUME NEW w \in Workers, wpc[w] # "unborn"
      PROVE  ExecutionOf(w) # None
  <2>1. wgoal[w] \in Goals /\ wstatus[w] \in Statuses \cup {None}
    BY <1>1 DEF ActionInv, IInv, TypeOK, WorkersInv
  <2>2. (active[wgoal[w]] = w) \in BOOLEAN
    OBVIOUS
  <2>3. ExecutionOf(w) \in [goal : Goals, status : Statuses \cup {None}, open : BOOLEAN]
    BY <1>1, <2>1, <2>2 DEF ExecutionOf
  <2> QED
    BY <2>3, ActionAssumption
<1>2. ASSUME NEW g \in Goals, has_result[g]
      PROVE  OutcomeOf(g) # None
  <2>1. result[g] \in Workers
    BY <1>2 DEF ActionInv, ResultIsGenuine, IInv, TypeOK
  <2>2. status[g] \in Statuses
    BY <1>2, <2>1 DEF ActionInv, ResultIsGenuine, MessagesInv
  <2> QED
    BY <1>2, <2>1, <2>2, ActionAssumption DEF OutcomeOf
<1> QED
  BY <1>1, <1>2

\* A step that leaves goals, executions and outcomes alone is none of the contract's.
LEMMA SameContract ==
  ASSUME UNCHANGED <<hpc, wgoal, wstatus, active, has_result, result, status>>,
         \A w \in Workers : wpc'[w] = "unborn" <=> wpc[w] = "unborn"
  PROVE  UNCHANGED Contract!contractVars
<1>1. \A w \in Workers : ExecutionOf(w)' = ExecutionOf(w)
  BY DEF ExecutionOf
<1>2. \A g \in Goals : OutcomeOf(g)' = OutcomeOf(g)
  BY DEF OutcomeOf
<1> QED
  BY <1>1, <1>2 DEF Contract!contractVars

\* Admitting a goal begins its execution: no other one holds the entry.
LEMMA AcceptBegins ==
  ASSUME ActionInv, NEW r \in Receivers, NEW w \in Workers, AcceptGoal(r, w),
         UNCHANGED clientVars
  PROVE  Contract!Begin(w, rgoal[r])
<1> PICK g \in Goals : g = rgoal[r]
  BY DEF AcceptGoal, ActionInv, IInv, ReceiversInv
<1>1. /\ active[g] = None /\ wpc[w] = "unborn" /\ hpc[g] = "sent"
      /\ active' = [active EXCEPT ![g] = w] /\ wpc' = [wpc EXCEPT ![w] = "reserved"]
      /\ wgoal' = [wgoal EXCEPT ![w] = g] /\ wstatus' = wstatus
      /\ UNCHANGED <<hpc, has_result, result, status>>
  BY DEF AcceptGoal, ActionInv, MessagesInv, clientVars, appVars, handleVars
<1>2. ExecutionOf(w) = None /\ ExecutionOf(w)' = [goal |-> g, status |-> None, open |-> TRUE]
  BY <1>1 DEF ExecutionOf, ActionInv, IInv, TypeOK, MessagesInv
<1>3. ASSUME NEW v \in Workers, v # w
      PROVE  /\ ExecutionOf(v)' = ExecutionOf(v)
             /\ ExecutionOf(v) # None /\ ExecutionOf(v).goal = g => ~ExecutionOf(v).open
  <2>1. v # None /\ wpc'[v] = wpc[v] /\ wgoal'[v] = wgoal[v] /\ wstatus'[v] = wstatus[v]
    BY <1>1, <1>3, ServerAssumption DEF ActionInv, IInv, TypeOK
  <2>2. wpc[v] # "unborn" => ((active'[wgoal[v]] = v) <=> (active[wgoal[v]] = v))
    BY <1>1, <1>3, <2>1 DEF ActionInv, IInv, TypeOK, WorkersInv
  <2>3. ExecutionOf(v)' = ExecutionOf(v)
    BY <2>1, <2>2 DEF ExecutionOf
  <2>4. CASE wpc[v] = "unborn"
    BY <2>3, <2>4 DEF ExecutionOf
  <2>5. CASE wpc[v] # "unborn"
    BY <1>1, <2>1, <2>3, <2>5 DEF ExecutionOf
  <2> QED
    BY <2>4, <2>5
<1>4. \A h \in Goals : OutcomeOf(h)' = OutcomeOf(h)
  BY <1>1 DEF OutcomeOf
<1> QED
  BY <1>1, <1>2, <1>3, <1>4 DEF Contract!Begin, Contract!Started

\* Executions that agree in every field are the same, and so for an update of one.
LEMMA SameExecution ==
  ASSUME NEW g, NEW st
  PROVE  \A x, y \in [goal : {g}, status : {st}, open : BOOLEAN] :
           (x.open <=> y.open) => x = y
OBVIOUS

LEMMA StatusUpdate ==
  ASSUME NEW g, NEW st, NEW new, NEW e, NEW f,
         e = [goal |-> g, status |-> st, open |-> TRUE],
         f = [goal |-> g, status |-> new, open |-> TRUE]
  PROVE  f = [e EXCEPT !.status = new]
<1> PICK x : x = [e EXCEPT !.status = new]
  OBVIOUS
<1>1. f \in [goal : {g}, status : {new}, open : BOOLEAN] /\ f.open
  OBVIOUS
<1>2. x \in [goal : {g}, status : {new}, open : BOOLEAN] /\ x.open
  OBVIOUS
<1>3. f = x
  BY <1>1, <1>2, SameExecution
<1> QED
  BY <1>3

LEMMA OpenUpdate ==
  ASSUME NEW g, NEW st, NEW e, NEW f,
         e = [goal |-> g, status |-> st, open |-> TRUE],
         f = [goal |-> g, status |-> st, open |-> FALSE]
  PROVE  f = [e EXCEPT !.open = FALSE]
<1> PICK x : x = [e EXCEPT !.open = FALSE]
  OBVIOUS
<1>1. f \in [goal : {g}, status : {st}, open : BOOLEAN] /\ ~f.open
  OBVIOUS
<1>2. x \in [goal : {g}, status : {st}, open : BOOLEAN] /\ ~x.open
  OBVIOUS
<1>3. f = x
  BY <1>1, <1>2, SameExecution
<1> QED
  BY <1>3

\* A live worker holds its entry, so what it returns ends an open execution.
LEMMA ReturnEnds ==
  ASSUME ActionInv, NEW w \in Workers, NEW st \in Statuses, ExecuteReturns(w, st),
         UNCHANGED clientVars
  PROVE  Contract!End(w, st)
<1>1. /\ wpc[w] = "executing" /\ wstatus[w] = None /\ active[wgoal[w]] = w
      /\ wpc' = [wpc EXCEPT ![w] = "returned"] /\ wstatus' = [wstatus EXCEPT ![w] = st]
      /\ UNCHANGED <<wgoal, active, hpc, has_result, result, status>>
  BY DEF ExecuteReturns, ActionInv, MessagesInv, IInv, CancelReachesWorker, Live, clientVars,
         appVars, handleVars
<1>2. ExecutionOf(w) # None
  BY <1>1, StartedIsSomething
<1>3. /\ ExecutionOf(w) = [goal |-> wgoal[w], status |-> None, open |-> TRUE]
      /\ ExecutionOf(w)' = [goal |-> wgoal[w], status |-> st, open |-> TRUE]
  BY <1>1 DEF ExecutionOf, ActionInv, IInv, TypeOK
<1>4. \A v \in Workers : v # w => ExecutionOf(v)' = ExecutionOf(v)
  BY <1>1 DEF ExecutionOf, ActionInv, IInv, TypeOK
<1>5. \A h \in Goals : OutcomeOf(h)' = OutcomeOf(h)
  BY <1>1 DEF OutcomeOf
<1>6. ExecutionOf(w)' = [ExecutionOf(w) EXCEPT !.status = st]
  BY <1>3, StatusUpdate
<1>7. [v \in Workers |-> ExecutionOf(v)]'
        = [[v \in Workers |-> ExecutionOf(v)] EXCEPT ![w].status = st]
  BY <1>4, <1>6
<1>8. ExecutionOf(w).open /\ ExecutionOf(w).status = None
  BY <1>3
<1> QED
  BY <1>1, <1>2, <1>5, <1>7, <1>8 DEF Contract!End, Contract!Started

\* Erasing the entry closes the execution: others of the goal may begin.
LEMMA EraseCloses ==
  ASSUME ActionInv, NEW w \in Workers, EraseActive(w), UNCHANGED clientVars
  PROVE  Contract!Close(w)
<1>1. /\ wpc[w] = "published" /\ wstatus[w] \in Statuses /\ active[wgoal[w]] = w
      /\ wgoal[w] \in Goals
      /\ wpc' = [wpc EXCEPT ![w] = "finished"]
      /\ active' = [active EXCEPT ![wgoal[w]] = None]
      /\ UNCHANGED <<wgoal, wstatus, hpc, has_result, result, status>>
  BY DEF EraseActive, ActionInv, IInv, WorkersInv, CancelReachesWorker, Live, clientVars, appVars,
         handleVars
<1>2. ExecutionOf(w) # None
  BY <1>1, StartedIsSomething
<1>3. /\ ExecutionOf(w) = [goal |-> wgoal[w], status |-> wstatus[w], open |-> TRUE]
      /\ ExecutionOf(w)' = [goal |-> wgoal[w], status |-> wstatus[w], open |-> FALSE]
  BY <1>1, ServerAssumption DEF ExecutionOf, ActionInv, IInv, TypeOK
<1>4. ASSUME NEW v \in Workers, v # w
      PROVE  ExecutionOf(v)' = ExecutionOf(v)
  <2>1. wpc'[v] = wpc[v] /\ v # None
    BY <1>1, <1>4, ServerAssumption DEF ActionInv, IInv, TypeOK
  <2>2. wpc[v] # "unborn" => ((active'[wgoal[v]] = v) <=> (active[wgoal[v]] = v))
    BY <1>1, <1>4, <2>1 DEF ActionInv, IInv, TypeOK, WorkersInv
  <2> QED
    BY <1>1, <2>1, <2>2 DEF ExecutionOf
<1>5. \A h \in Goals : OutcomeOf(h)' = OutcomeOf(h)
  BY <1>1 DEF OutcomeOf
<1>6. ExecutionOf(w)' = [ExecutionOf(w) EXCEPT !.open = FALSE]
  BY <1>3, OpenUpdate, Zenon
<1>7. [v \in Workers |-> ExecutionOf(v)]'
        = [[v \in Workers |-> ExecutionOf(v)] EXCEPT ![w].open = FALSE]
  BY <1>4, <1>6
<1>8. ExecutionOf(w).status # None
  BY <1>1, <1>3, ServerAssumption
<1> QED
  BY <1>1, <1>2, <1>5, <1>7, <1>8 DEF Contract!Close, Contract!Started

\* Storing the result resolves the goal, once.
LEMMA StoreResolves ==
  ASSUME ActionInv, NEW c \in Callbacks, StoreResult(c), UNCHANGED serverVars
  PROVE  \E g \in Goals, w \in Workers : Contract!Resolve(g, w)
<1> PICK g \in Goals, w \in Workers, st \in Statuses :
      /\ g = cmsg[c].id /\ w = cmsg[c].by /\ st = cmsg[c].status
      /\ Genuine(cmsg[c]) /\ Bringing(c, g)
  BY MessageFields DEF StoreResult, ActionInv, CallbacksInv, Bringing
<1>1. /\ ~has_result[g] /\ w \in reported /\ wgoal[w] = g /\ wstatus[w] = st
      /\ has_result' = [has_result EXCEPT ![g] = TRUE]
      /\ result' = [result EXCEPT ![g] = w] /\ status' = [status EXCEPT ![g] = st]
      /\ UNCHANGED <<wpc, wgoal, wstatus, active, hpc>>
  BY DEF StoreResult, ActionInv, CallbacksInv, Genuine, appVars, serverVars, workerVars
<1>2. wpc[w] # "unborn" /\ ExecutionOf(w) # None /\ st # None
  BY <1>1, StartedIsSomething, ServerAssumption DEF ActionInv, IInv, WorkersInv
<1>3. ExecutionOf(w).goal = g /\ ExecutionOf(w).status = st
  BY <1>1, <1>2 DEF ExecutionOf
<1>4. OutcomeOf(g) = None /\ OutcomeOf(g)' = [by |-> w, status |-> st]
  BY <1>1 DEF OutcomeOf, ActionInv, ClientTypeOK
<1>5. \A h \in Goals : h # g => OutcomeOf(h)' = OutcomeOf(h)
  BY <1>1 DEF OutcomeOf, ActionInv, ClientTypeOK
<1>6. \A v \in Workers : ExecutionOf(v)' = ExecutionOf(v)
  BY <1>1 DEF ExecutionOf
<1>7. Contract!Resolve(g, w)
  BY <1>1, <1>2, <1>3, <1>4, <1>5, <1>6 DEF Contract!Resolve, Contract!Started
<1> QED
  BY <1>7

LEMMA PublishAsks ==
  ASSUME ActionInv, NEW g \in Goals, PublishGoal(g), UNCHANGED serverVars
  PROVE  Contract!Ask(g)
<1>1. /\ hpc' = [hpc EXCEPT ![g] = "sent"]
      /\ UNCHANGED <<wpc, wgoal, wstatus, active, has_result, result, status>>
  BY DEF PublishGoal, serverVars, workerVars, handleVars
<1>2. \A v \in Workers : ExecutionOf(v)' = ExecutionOf(v)
  BY <1>1 DEF ExecutionOf
<1>3. \A h \in Goals : OutcomeOf(h)' = OutcomeOf(h)
  BY <1>1 DEF OutcomeOf
<1>4. {h \in Goals : hpc[h] = "sent"}' = {h \in Goals : hpc[h] = "sent"} \cup {g}
  BY <1>1 DEF ActionInv, ClientTypeOK
<1> QED
  BY <1>2, <1>3, <1>4 DEF Contract!Ask

\* Every step of the server is a step of the contract, or none.
LEMMA ServerImplements ==
  ASSUME ActionInv, Server(ServerNext)
  PROVE  Contract!Next \/ UNCHANGED Contract!contractVars
<1> USE DEF Server, serverVars, receiverVars, workerVars, ownerVars, clientVars, appVars, handleVars
<1>1. CASE OwnerNext
  BY <1>1, SameContract DEF OwnerNext, SubscribeGoal, SubscribeCancel, SubscribeCancelThrows,
       Finalize, BeginDestroy, CancelAllAndTakeWorkers, JoinAndRelease, FreeState
<1>2. ASSUME NEW r \in Receivers, NEW w \in Workers, AcceptGoal(r, w)
      PROVE  Contract!Next
  <2>1. Contract!Begin(w, rgoal[r]) /\ rgoal[r] \in Goals
    BY <1>2, AcceptBegins DEF AcceptGoal, ActionInv, IInv, ReceiversInv
  <2> QED
    BY <2>1 DEF Contract!Next
<1>3. CASE \/ \E r \in Receivers, g \in Goals : ReceiveGoal(r, g)
           \/ \E r \in Receivers : IgnoreDuplicate(r) \/ PushWorker(r)
           \/ \E g \in Goals : HandleCancel(g)
  BY <1>3, SameContract DEF ReceiveGoal, IgnoreDuplicate, PushWorker, HandleCancel
<1>4. ASSUME NEW r \in Receivers, SpawnWorker(r) \/ SpawnThrows(r)
      PROVE  UNCHANGED Contract!contractVars
  <2>1. rworker[r] \in Workers /\ wpc[rworker[r]] = "reserved"
    BY <1>4 DEF SpawnWorker, SpawnThrows, ActionInv, IInv, ReceiversInv
  <2>2. \A w \in Workers : wpc'[w] = "unborn" <=> wpc[w] = "unborn"
    BY <1>4, <2>1 DEF SpawnWorker, SpawnThrows, ActionInv, IInv, TypeOK
  <2> QED
    BY <1>4, <2>2, SameContract DEF SpawnWorker, SpawnThrows
<1>5. ASSUME NEW w \in Workers, StartExecute(w) \/ PublishFeedback(w) \/ PublishResult(w)
                                \/ PublishResultThrows(w)
      PROVE  UNCHANGED Contract!contractVars
  <2>1. \A v \in Workers : wpc'[v] = "unborn" <=> wpc[v] = "unborn"
    BY <1>5 DEF StartExecute, PublishFeedback, PublishResult, PublishResultThrows, ActionInv, IInv,
         TypeOK
  <2> QED
    BY <1>5, <2>1, SameContract
       DEF StartExecute, PublishFeedback, PublishResult, PublishResultThrows
<1>6. ASSUME NEW w \in Workers, NEW st \in Statuses, ExecuteReturns(w, st)
      PROVE  Contract!Next
  BY <1>6, ReturnEnds DEF Contract!Next
<1>7. ASSUME NEW w \in Workers, EraseActive(w)
      PROVE  Contract!Next
  BY <1>7, EraseCloses DEF Contract!Next
<1> QED
  BY <1>1, <1>2, <1>3, <1>4, <1>5, <1>6, <1>7 DEF ServerNext, ReceiverNext, WorkerNext

\* ... and so is every step of the client.
LEMMA ClientImplements ==
  ASSUME ActionInv, Client(ClientNext)
  PROVE  Contract!Next \/ UNCHANGED Contract!contractVars
<1> USE DEF Client, serverVars, workerVars, appVars, handleVars
<1>1. ASSUME NEW g \in Goals, PublishGoal(g)
      PROVE  Contract!Next
  BY <1>1, PublishAsks DEF Contract!Next
<1>2. ASSUME NEW g \in Goals, NEW b \in BOOLEAN, RegisterHandle(g, b)
      PROVE  UNCHANGED Contract!contractVars
  <2>1. \A h \in Goals : hpc'[h] = "sent" <=> hpc[h] = "sent"
    BY <1>2 DEF RegisterHandle, ActionInv, ClientTypeOK
  <2>2. \A w \in Workers : ExecutionOf(w)' = ExecutionOf(w)
    BY <1>2 DEF RegisterHandle, ExecutionOf
  <2>3. \A h \in Goals : OutcomeOf(h)' = OutcomeOf(h)
    BY <1>2 DEF RegisterHandle, OutcomeOf
  <2> QED
    BY <2>1, <2>2, <2>3 DEF Contract!contractVars
<1>f. ASSUME NEW g \in Goals, PublishGoalThrows(g)
      PROVE  UNCHANGED Contract!contractVars
  <2>1. \A h \in Goals : hpc'[h] = "sent" <=> hpc[h] = "sent"
    BY <1>f DEF PublishGoalThrows, ActionInv, ClientTypeOK
  <2>2. \A w \in Workers : ExecutionOf(w)' = ExecutionOf(w)
    BY <1>f DEF PublishGoalThrows, ExecutionOf
  <2>3. \A h \in Goals : OutcomeOf(h)' = OutcomeOf(h)
    BY <1>f DEF PublishGoalThrows, OutcomeOf
  <2> QED
    BY <2>1, <2>2, <2>3 DEF Contract!contractVars
<1>3. CASE \/ \E g \in Goals : Cancel(g) \/ Wait(g) \/ WaitTimesOut(g)
           \/ \E g \in Goals, b \in BOOLEAN : SetFeedbackCallback(g, b)
           \/ DestroyClient
  BY <1>3, SameContract DEF Cancel, Wait, WaitTimesOut, SetFeedbackCallback, DestroyClient
<1>4. ASSUME NEW c \in Callbacks, StoreResult(c)
      PROVE  Contract!Next
  BY <1>4, StoreResolves DEF Contract!Next
<1>5. ASSUME NEW c \in Callbacks,
             \/ \E m \in net : FindFeedbackHandle(c, m) \/ TakeHandle(c, m)
             \/ CopyFeedbackCallback(c) \/ CallFeedbackCallback(c) \/ NotifyWaiters(c)
      PROVE  UNCHANGED Contract!contractVars
  BY <1>5, SameContract DEF FindFeedbackHandle, TakeHandle, CopyFeedbackCallback,
       CallFeedbackCallback, NotifyWaiters
<1> QED
  BY <1>1, <1>2, <1>f, <1>3, <1>4, <1>5 DEF ClientNext, AppNext, CallbackNext

\* Server, client and transport together keep the contract: what is executed was
\* asked for, one execution of a goal at a time, and each goal is resolved at most
\* once, by one of its own executions.
THEOREM ActionImplementsContract == ActionSpec => ImplementsContract
<1>1. ActionInit => Contract!Init
  BY DEF ActionInit, ServerInit, ClientInit, Contract!Init, ExecutionOf, OutcomeOf
<1>2. ASSUME ActionInv, [ActionNext]_actionVars
      PROVE  [Contract!Next]_(Contract!contractVars)
  <2>1. CASE LoseMessage \/ UNCHANGED actionVars
    BY <2>1, SameContract DEF LoseMessage, actionVars, serverVars, workerVars, clientVars, appVars,
         handleVars
  <2> QED
    BY <1>2, <2>1, ServerImplements, ClientImplements DEF ActionNext
<1> QED
  BY <1>1, <1>2, ActionInvariance, PTL DEF ActionSpec, ImplementsContract, Contract!Spec

-----------------------------------------------------------------------------
(* A result that was taken out of the map reaches its handle and wakes the *)
(* waiter.  CallbacksRun is what ActionFairness says of the transport      *)
(* threads, for those inside a callback, where nothing blocks them.  It is *)
(* used under a box: it says the same of every later moment.               *)

CallbackRuns(c) ==
  []<>~(cpc[c] # "idle" /\ ~dangling)
    \/ []<><<Client(~dangling /\ CallbackNext(c))>>_actionVars
CallbacksRun == \A c \in Callbacks : CallbackRuns(c)

Storing(c, g) == cpc[c] = "res_stored" /\ cmsg[c].id = g /\ has_result[g]
Carries(c, g) == Bringing(c, g) \/ Storing(c, g)
Reached(g)    == (has_result[g] /\ waiter[g] # "asleep") \/ dangling
Arrives(c, g) == Carries(c, g) ~> Reached(g)

\* A transport thread inside the result callback is moved by nobody else.
LEMMA OthersLeaveCallback ==
  ASSUME ActionInv, [ActionNext]_actionVars, NEW c \in Callbacks, cpc[c] # "idle",
         ~CallbackNext(c)
  PROVE  cpc'[c] = cpc[c] /\ cmsg'[c] = cmsg[c]
<1> USE DEF actionVars, clientVars, appVars, callbackVars, handleVars, ActionInv, ClientTypeOK
<1>1. CASE Server(ServerNext) \/ LoseMessage \/ UNCHANGED actionVars
  BY <1>1 DEF Server, LoseMessage
<1>2. CASE AppNext
  BY <1>2 DEF AppNext, PublishGoal, PublishGoalThrows, Cancel, Wait, WaitTimesOut,
       RegisterHandle, SetFeedbackCallback, DestroyClient
<1>3. ASSUME NEW d \in Callbacks, CallbackNext(d)
      PROVE  cpc'[c] = cpc[c] /\ cmsg'[c] = cmsg[c]
  BY <1>3 DEF CallbackNext, FindFeedbackHandle, TakeHandle, CopyFeedbackCallback,
       CallFeedbackCallback, StoreResult, NotifyWaiters, Enter, Leave
<1> QED BY <1>1, <1>2, <1>3 DEF ActionNext, Client, ClientNext

\* What the thread does next: it stores what it took, then notifies.
LEMMA CarrierSteps ==
  ASSUME ActionInv, NEW c \in Callbacks, NEW g \in Goals, CallbackNext(c)
  PROVE  /\ Bringing(c, g) => Storing(c, g)'
         /\ Storing(c, g) => Reached(g)'
<1> USE DEF ActionInv, ClientTypeOK, Bringing, Storing, Reached
<1>1. ASSUME Bringing(c, g) PROVE Storing(c, g)'
  BY <1>1 DEF CallbackNext, FindFeedbackHandle, TakeHandle, CopyFeedbackCallback,
       CallFeedbackCallback, StoreResult, NotifyWaiters
<1>2. ASSUME Storing(c, g) PROVE Reached(g)'
  <2>1. NotifyWaiters(c)
    BY <1>2 DEF CallbackNext, FindFeedbackHandle, TakeHandle, CopyFeedbackCallback,
         CallFeedbackCallback, StoreResult
  <2>2. has_result'[g] /\ waiter'[g] # "asleep"
    BY <1>2, <2>1 DEF NotifyWaiters, handleVars, Waiting
  <2> QED BY <2>2
<1> QED BY <1>1, <1>2

\* A result in a handle stays there.
LEMMA ResultStays ==
  ASSUME ActionInv, [ActionNext]_actionVars, NEW g \in Goals, has_result[g]
  PROVE  has_result'[g]
<1> USE DEF actionVars, clientVars, appVars, callbackVars, handleVars, ActionInv, ClientTypeOK
<1>1. CASE Server(ServerNext) \/ LoseMessage \/ UNCHANGED actionVars
  BY <1>1 DEF Server, LoseMessage
<1>2. CASE AppNext
  BY <1>2 DEF AppNext, PublishGoal, PublishGoalThrows, Cancel, Wait, WaitTimesOut,
       RegisterHandle, SetFeedbackCallback, DestroyClient
<1>3. ASSUME NEW d \in Callbacks, CallbackNext(d)
      PROVE  has_result'[g]
  <2>1. CASE StoreResult(d)
    BY <2>1 DEF StoreResult
  <2> QED
    BY <1>3, <2>1 DEF CallbackNext, FindFeedbackHandle, TakeHandle, CopyFeedbackCallback,
       CallFeedbackCallback, NotifyWaiters
<1> QED BY <1>1, <1>2, <1>3 DEF ActionNext, Client, ClientNext

\* One transport thread: what it carries reaches the handle and its waiter.
LEMMA CarrierArrives ==
  ASSUME NEW c \in Callbacks, NEW g \in Goals
  PROVE  []ActionInv /\ [][ActionNext]_actionVars /\ CallbackRuns(c)
           => Arrives(c, g)
<1> DEFINE P == Bringing(c, g)
           Q == Storing(c, g)
           R == Reached(g)
           A == Client(~dangling /\ CallbackNext(c))
<1>1. ActionInv /\ P /\ [ActionNext]_actionVars => P' \/ Q'
  BY OthersLeaveCallback, CarrierSteps DEF Bringing
<1>2. ActionInv /\ P /\ <<A>>_actionVars => Q'
  BY CarrierSteps DEF Client
<1>3. ActionInv /\ Q /\ [ActionNext]_actionVars => Q' \/ R'
  BY OthersLeaveCallback, CarrierSteps, ResultStays DEF Storing
<1>4. ActionInv /\ Q /\ <<A>>_actionVars => R'
  BY CarrierSteps DEF Client
<1>5. (P \/ Q) => (cpc[c] # "idle" /\ ~dangling) \/ R
  BY DEF Bringing, Storing, Reached
<1>6. Carries(c, g) <=> P \/ Q
  BY DEF Carries
<1> QED BY <1>1, <1>2, <1>3, <1>4, <1>5, <1>6, PTL DEF CallbackRuns, Arrives

\* Whichever thread took the result, it gets there: with the handle out of the map
\* either the result is stored already, and whoever sleeps is about to be notified, or
\* a thread brings it.
THEOREM ResultsReachWaiters ==
  (ActionSpec \/ ServedSpec) /\ []CallbacksRun => ResultReachesWaiter
<1> SUFFICES ASSUME NEW g \in Goals
             PROVE  (ActionSpec \/ ServedSpec) /\ []CallbacksRun
                      => ((hpc[g] = "sent" /\ g \notin handles) ~> Reached(g))
  BY DEF ResultReachesWaiter, Reached
<1> DEFINE Taken == hpc[g] = "sent" /\ g \notin handles
           R     == Reached(g)
           Each  == \A c \in Callbacks : Carries(c, g) => <>R
<1>1. ActionInv /\ Taken => Reached(g) \/ \E c \in Callbacks : Carries(c, g)
  BY DEF ActionInv, HandlesInv, NoLostWakeup, Reached, Carries, Storing
<1>2. []ActionInv /\ [][ActionNext]_actionVars /\ []CallbacksRun => Each
  <2> SUFFICES ASSUME NEW c \in Callbacks
               PROVE  []ActionInv /\ [][ActionNext]_actionVars /\ []CallbacksRun
                        => (Carries(c, g) => <>Reached(g))
    OBVIOUS
  <2>1. CallbacksRun => CallbackRuns(c)
    BY DEF CallbacksRun
  <2>2. []ActionInv /\ [][ActionNext]_actionVars /\ CallbackRuns(c)
          => Arrives(c, g)
    BY CarrierArrives
  <2> QED BY <2>1, <2>2, PTL DEF Arrives
<1>3. Each => ((\E c \in Callbacks : Carries(c, g)) => <>R)
  OBVIOUS
<1> QED BY <1>1, <1>2, <1>3, ActionInvariance, ServedInvariance, PTL
        DEF ActionSpec, ServedSpec

\* Who sleeps has sent his goal; a publisher is used after its time only with the
\* client gone for good.
SleepersInv == /\ \A g \in Goals : waiter[g] = "asleep" => hpc[g] = "sent"
               /\ dangling => ~alive

LEMMA SleepersStep ==
  ASSUME ActionInv, SleepersInv, [ActionNext]_actionVars
  PROVE  SleepersInv'
<1> USE DEF SleepersInv, actionVars, clientVars, appVars, callbackVars, handleVars, ActionInv,
            ClientTypeOK
<1>1. CASE Server(ServerNext) \/ LoseMessage \/ UNCHANGED actionVars
  BY <1>1 DEF Server, LoseMessage
<1>2. ASSUME AppNext, ~dangling PROVE SleepersInv'
  <2>1. CASE \E g \in Goals : PublishGoal(g) \/ PublishGoalThrows(g) \/ Cancel(g)
    BY <1>2, <2>1 DEF PublishGoal, PublishGoalThrows, Cancel, ClientStateExists
  <2>2. CASE \E g \in Goals : Wait(g) \/ WaitTimesOut(g)
    BY <1>2, <2>2 DEF Wait, WaitTimesOut
  <2>3. CASE \E g \in Goals, b \in BOOLEAN : RegisterHandle(g, b) \/ SetFeedbackCallback(g, b)
    BY <1>2, <2>3 DEF RegisterHandle, SetFeedbackCallback
  <2>4. CASE DestroyClient
    BY <1>2, <2>4 DEF DestroyClient
  <2> QED BY <1>2, <2>1, <2>2, <2>3, <2>4 DEF AppNext
<1>3. ASSUME NEW c \in Callbacks, CallbackNext(c)
      PROVE  SleepersInv'
  <2>1. CASE NotifyWaiters(c)
    BY <2>1 DEF NotifyWaiters
  <2> QED BY <1>3, <2>1 DEF CallbackNext, FindFeedbackHandle, TakeHandle, CopyFeedbackCallback,
            CallFeedbackCallback, StoreResult
<1> QED BY <1>1, <1>2, <1>3 DEF ActionNext, Client, ClientNext

\* A thread that sleeps in WaitForResult wakes up, if its goal gets a result: what
\* keeps it asleep is never the client.
THEOREM AnsweredWaitersWake ==
  (ActionSpec \/ ServedSpec) /\ []CallbacksRun /\ GoalIsAnswered => WaiterIsWoken
<1> SUFFICES ASSUME NEW g \in Goals
             PROVE  (ActionSpec \/ ServedSpec) /\ []CallbacksRun /\ GoalIsAnswered
                      => ((waiter[g] = "asleep") ~> (waiter[g] # "asleep" \/ ~Undisturbed))
  BY DEF WaiterIsWoken
<1> DEFINE Sent     == hpc[g] = "sent"
           Has      == has_result[g]
           Asleep   == waiter[g] = "asleep"
           Awake    == waiter[g] # "asleep"
           Answered == Sent ~> (Has \/ ~Undisturbed)
           Brought  == (Sent /\ g \notin handles) ~> ((Has /\ Awake) \/ dangling)
<1>1. GoalIsAnswered => Answered
  BY DEF GoalIsAnswered
<1>2. ResultReachesWaiter => Brought
  BY DEF ResultReachesWaiter
<1>3. ActionInit \/ ServedInit => SleepersInv
  BY DEF ActionInit, ServedInit, ClientInit, SleepersInv
<1>4. ActionInv /\ SleepersInv /\ [ActionNext]_actionVars => SleepersInv'
  BY SleepersStep
<1>5. SleepersInv => (Asleep => Sent) /\ (dangling => ~Undisturbed)
  BY DEF SleepersInv, Undisturbed
<1>6. ActionInv /\ Has => g \notin handles
  BY DEF ActionInv, HandlesInv
<1>a. Asleep \/ Awake
  OBVIOUS
<1> HIDE DEF Asleep, Awake, Has, Sent
<1>7. (ActionSpec \/ ServedSpec) /\ []CallbacksRun => Brought
  BY <1>2, ResultsReachWaiters
<1>8. ActionSpec \/ ServedSpec => [](ActionInv /\ SleepersInv)
  BY <1>3, <1>4, ActionInvariance, ServedInvariance, PTL DEF ActionSpec, ServedSpec
<1>9. (ActionSpec \/ ServedSpec) /\ []CallbacksRun /\ GoalIsAnswered
        => (Asleep ~> (Awake \/ ~Undisturbed))
  <2>1. ActionSpec \/ ServedSpec => [][ActionNext]_actionVars
    BY PTL DEF ActionSpec, ServedSpec
  <2> QED BY <1>a, <1>1, <1>5, <1>6, <1>7, <1>8, <2>1, PTL
<1> QED BY <1>9 DEF Asleep, Awake
=============================================================================
