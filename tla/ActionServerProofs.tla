-------------------------- MODULE ActionServerProofs --------------------------
(***************************************************************************)
(* The server of ActionServer.tla, for any numbers of goals, workers and   *)
(* transport threads: IInv is inductive (one lemma per action, one step    *)
(* per part the action can disturb), and the safety properties follow.     *)
(***************************************************************************)
EXTENDS ActionServer, TLAPS

\* SubscribeGoal only opens the goal topic.
LEMMA SubscribeGoalStep ==
  ASSUME IInv, SubscribeGoal
  PROVE  IInv'
<1>1. /\ TypeOK' /\ ReceiversInv' /\ WorkersInv' /\ EntriesInv' /\ OwnerInv'
      /\ ShutdownInv' /\ CancelReachesWorker' /\ NoLeakedEntry'
      /\ JoinedAreCancelled'
  BY DEF IInv, SubscribeGoal, Admitting, Advance, Live, Phases, RPcs, WPcs,
         receiverVars, workerVars, TypeOK, ReceiversInv, WorkersInv,
         EntriesInv, OwnerInv, ShutdownInv, CancelReachesWorker,
         NoLeakedEntry, JoinedAreCancelled
<1> QED
  BY <1>1 DEF IInv

\* SubscribeCancel only opens the cancel topic.
LEMMA SubscribeCancelStep ==
  ASSUME IInv, SubscribeCancel
  PROVE  IInv'
<1>1. /\ TypeOK' /\ ReceiversInv' /\ WorkersInv' /\ EntriesInv' /\ OwnerInv'
      /\ ShutdownInv' /\ CancelReachesWorker' /\ NoLeakedEntry'
      /\ JoinedAreCancelled'
  BY DEF IInv, SubscribeCancel, Admitting, Advance, Live, Phases, RPcs, WPcs,
         receiverVars, workerVars, TypeOK, ReceiversInv, WorkersInv,
         EntriesInv, OwnerInv, ShutdownInv, CancelReachesWorker,
         NoLeakedEntry, JoinedAreCancelled
<1> QED
  BY <1>1 DEF IInv

\* A constructor that throws leaves threads nobody will join: threw is set.
LEMMA SubscribeCancelThrowsStep ==
  ASSUME IInv, SubscribeCancelThrows
  PROVE  IInv'
<1>1. /\ TypeOK' /\ ReceiversInv' /\ WorkersInv' /\ EntriesInv' /\ OwnerInv'
      /\ ShutdownInv' /\ CancelReachesWorker' /\ NoLeakedEntry'
      /\ JoinedAreCancelled'
  BY DEF IInv, SubscribeCancelThrows, Admitting, Advance, Live, Phases, RPcs,
         WPcs, receiverVars, workerVars, TypeOK, ReceiversInv, WorkersInv,
         EntriesInv, OwnerInv, ShutdownInv, CancelReachesWorker,
         NoLeakedEntry, JoinedAreCancelled
<1> QED
  BY <1>1 DEF IInv

\* Finalize only sets shared_self.
LEMMA FinalizeStep ==
  ASSUME IInv, Finalize
  PROVE  IInv'
<1>1. /\ TypeOK' /\ ReceiversInv' /\ WorkersInv' /\ EntriesInv' /\ OwnerInv'
      /\ ShutdownInv' /\ CancelReachesWorker' /\ NoLeakedEntry'
      /\ JoinedAreCancelled'
  BY DEF IInv, Finalize, Admitting, Advance, Live, Phases, RPcs, WPcs,
         receiverVars, workerVars, TypeOK, ReceiversInv, WorkersInv,
         EntriesInv, OwnerInv, ShutdownInv, CancelReachesWorker,
         NoLeakedEntry, JoinedAreCancelled
<1> QED
  BY <1>1 DEF IInv

\* BeginDestroy records the callbacks that are inside HandleGoal.
LEMMA BeginDestroyStep ==
  ASSUME IInv, BeginDestroy
  PROVE  IInv'
<1>1. /\ TypeOK' /\ ReceiversInv' /\ WorkersInv' /\ EntriesInv' /\ OwnerInv'
      /\ ShutdownInv' /\ CancelReachesWorker' /\ NoLeakedEntry'
      /\ JoinedAreCancelled'
  BY DEF IInv, BeginDestroy, Admitting, Advance, Live, Phases, RPcs, WPcs,
         receiverVars, workerVars, TypeOK, ReceiversInv, WorkersInv,
         EntriesInv, OwnerInv, ShutdownInv, CancelReachesWorker,
         NoLeakedEntry, JoinedAreCancelled
<1> QED
  BY <1>1 DEF IInv

\* The sweep finds the flag of every thread it takes, because a live worker
\* owns the entry of its goal.
LEMMA CancelAllAndTakeWorkersStep ==
  ASSUME IInv, CancelAllAndTakeWorkers
  PROVE  IInv'
<1>1. /\ TypeOK' /\ ReceiversInv' /\ EntriesInv' /\ OwnerInv' /\ ShutdownInv'
      /\ CancelReachesWorker' /\ NoLeakedEntry'
  BY DEF IInv, CancelAllAndTakeWorkers, Admitting, Advance, Live, Phases,
         RPcs, WPcs, receiverVars, workerVars, TypeOK, ReceiversInv,
         EntriesInv, OwnerInv, ShutdownInv, CancelReachesWorker, NoLeakedEntry
<1>2. WorkersInv'
  BY DEF IInv, CancelAllAndTakeWorkers, Admitting, Advance, Live,
         receiverVars, workerVars, TypeOK, WorkersInv, OwnerInv
<1>3. JoinedAreCancelled'
  <2> SUFFICES ASSUME NEW w \in workers, Live(w)
               PROVE  \E g \in Goals : active[g] = w
    BY DEF IInv, CancelAllAndTakeWorkers, Advance, JoinedAreCancelled, Live,
           TypeOK, workerVars
  <2>1. w \in Workers /\ wgoal[w] \in Goals
    BY DEF IInv, TypeOK, WorkersInv, OwnerInv
  <2>2. active[wgoal[w]] = w
    BY <2>1 DEF IInv, CancelReachesWorker
  <2> QED
    BY <2>1, <2>2
<1> QED
  BY <1>1, <1>2, <1>3 DEF IInv

\* The join loop ends with every taken thread finished.
LEMMA JoinAndReleaseStep ==
  ASSUME IInv, JoinAndRelease
  PROVE  IInv'
<1>1. /\ TypeOK' /\ ReceiversInv' /\ WorkersInv' /\ EntriesInv' /\ OwnerInv'
      /\ ShutdownInv' /\ CancelReachesWorker' /\ NoLeakedEntry'
      /\ JoinedAreCancelled'
  BY DEF IInv, JoinAndRelease, Admitting, Advance, Live, Phases, RPcs, WPcs,
         receiverVars, workerVars, TypeOK, ReceiversInv, WorkersInv,
         EntriesInv, OwnerInv, ShutdownInv, CancelReachesWorker,
         NoLeakedEntry, JoinedAreCancelled
<1> QED
  BY <1>1 DEF IInv

\* Whatever is still live when State is freed sits in State::workers.
LEMMA FreeStateStep ==
  ASSUME IInv, FreeState
  PROVE  IInv'
<1>1. /\ TypeOK' /\ ReceiversInv' /\ WorkersInv' /\ EntriesInv'
      /\ ShutdownInv' /\ CancelReachesWorker' /\ NoLeakedEntry'
      /\ JoinedAreCancelled'
  BY DEF IInv, FreeState, Admitting, Advance, Live, Phases, RPcs, Referenced,
         WPcs, receiverVars, workerVars, TypeOK, ReceiversInv, WorkersInv,
         EntriesInv, ShutdownInv, CancelReachesWorker, NoLeakedEntry,
         JoinedAreCancelled
<1>2. OwnerInv'
  BY DEF IInv, FreeState, Admitting, Advance, Live, Referenced, receiverVars,
         workerVars, TypeOK, WorkersInv, OwnerInv
<1> QED
  BY <1>1, <1>2 DEF IInv

\* A callback enters HandleGoal only while shutting_down is unset.
LEMMA ReceiveGoalStep ==
  ASSUME IInv, NEW r \in Receivers, NEW g \in Goals, ReceiveGoal(r, g)
  PROVE  IInv'
<1>1. /\ TypeOK' /\ EntriesInv' /\ OwnerInv' /\ ShutdownInv'
      /\ CancelReachesWorker' /\ NoLeakedEntry' /\ JoinedAreCancelled'
  BY DEF IInv, ReceiveGoal, Deliver, Live, Phases, RPcs, Reachable,
         Referenced, StateExists, WPcs, ownerVars, receiverVars, workerVars,
         TypeOK, EntriesInv, OwnerInv, ShutdownInv, CancelReachesWorker,
         NoLeakedEntry, JoinedAreCancelled
<1>2. ReceiversInv'
  BY DEF IInv, ReceiveGoal, Admitting, Deliver, Phases, Reachable, Referenced,
         StateExists, ownerVars, receiverVars, workerVars, TypeOK,
         ReceiversInv
<1>3. WorkersInv'
  BY DEF IInv, ReceiveGoal, Admitting, Deliver, Live, Phases, Reachable,
         Referenced, StateExists, ownerVars, receiverVars, workerVars, TypeOK,
         WorkersInv
<1> QED
  BY <1>1, <1>2, <1>3 DEF IInv

\* A duplicate leaves the server as it was.
LEMMA IgnoreDuplicateStep ==
  ASSUME IInv, NEW r \in Receivers, IgnoreDuplicate(r)
  PROVE  IInv'
<1>1. /\ TypeOK' /\ EntriesInv' /\ OwnerInv' /\ ShutdownInv'
      /\ CancelReachesWorker' /\ NoLeakedEntry' /\ JoinedAreCancelled'
  BY DEF IInv, IgnoreDuplicate, Live, Phases, RPcs, Return, WPcs, ownerVars,
         workerVars, TypeOK, EntriesInv, OwnerInv, ShutdownInv,
         CancelReachesWorker, NoLeakedEntry, JoinedAreCancelled
<1>2. ReceiversInv'
  BY DEF IInv, IgnoreDuplicate, Admitting, Return, ownerVars, workerVars,
         TypeOK, ReceiversInv
<1>3. WorkersInv'
  BY DEF IInv, IgnoreDuplicate, Admitting, Live, Return, ownerVars,
         workerVars, TypeOK, WorkersInv
<1> QED
  BY <1>1, <1>2, <1>3 DEF IInv

\* An admitted id was free, so no live worker loses its entry.
LEMMA AcceptGoalStep ==
  ASSUME IInv, NEW r \in Receivers, NEW w \in Workers, AcceptGoal(r, w)
  PROVE  IInv'
<1>1. /\ OwnerInv' /\ ShutdownInv'
  BY DEF IInv, AcceptGoal, Live, ownerVars, OwnerInv, ShutdownInv
<1>2. TypeOK'
  BY DEF IInv, AcceptGoal, Admitting, Phases, RPcs, WPcs, ownerVars, TypeOK,
         ReceiversInv
<1>3. ReceiversInv'
  BY DEF IInv, AcceptGoal, Admitting, ownerVars, TypeOK, ReceiversInv
<1>4. WorkersInv'
  BY ServerAssumption
     DEF IInv, AcceptGoal, Admitting, Live, ownerVars, TypeOK, ReceiversInv,
         WorkersInv
<1>5. EntriesInv'
  BY DEF IInv, AcceptGoal, ownerVars, TypeOK, EntriesInv
<1>6. CancelReachesWorker'
  <2> SUFFICES ASSUME NEW v \in Workers, Live(v)'
               PROVE  active'[wgoal'[v]] = v
    BY DEF CancelReachesWorker
  <2>1. rgoal[r] \in Goals
    BY DEF IInv, ReceiversInv, AcceptGoal
  <2>2. CASE v = w
    BY <2>1, <2>2 DEF IInv, TypeOK, AcceptGoal
  <2>3. CASE v # w
    <3>1. Live(v) /\ wgoal'[v] = wgoal[v]
      BY <2>3 DEF IInv, TypeOK, AcceptGoal, Live
    <3>2. active[wgoal[v]] = v /\ v # None
      BY <3>1, ServerAssumption DEF IInv, CancelReachesWorker
    <3>3. wgoal[v] # rgoal[r]
      BY <3>2 DEF AcceptGoal
    <3> QED
      BY <2>1, <3>1, <3>2, <3>3 DEF IInv, TypeOK, AcceptGoal
  <2> QED
    BY <2>2, <2>3
<1>7. NoLeakedEntry'
  BY DEF IInv, AcceptGoal, Live, ownerVars, TypeOK, NoLeakedEntry
<1>8. JoinedAreCancelled'
  BY DEF IInv, AcceptGoal, Live, ownerVars, TypeOK, OwnerInv,
         JoinedAreCancelled
<1> QED
  BY <1>1, <1>2, <1>3, <1>4, <1>5, <1>6, <1>7, <1>8 DEF IInv

\* The thread starts with the weak pointer of the moment.
LEMMA SpawnWorkerStep ==
  ASSUME IInv, NEW r \in Receivers, SpawnWorker(r)
  PROVE  IInv'
<1>1. /\ EntriesInv' /\ ShutdownInv'
  BY DEF IInv, SpawnWorker, ownerVars, EntriesInv, ShutdownInv
<1>2. TypeOK'
  BY DEF IInv, SpawnWorker, Admitting, Phases, RPcs, WPcs, ownerVars, TypeOK,
         ReceiversInv
<1>3. ReceiversInv'
  BY DEF IInv, SpawnWorker, Admitting, ownerVars, TypeOK, ReceiversInv
<1>4. WorkersInv'
  BY DEF IInv, SpawnWorker, Admitting, Live, ownerVars, TypeOK, ReceiversInv,
         WorkersInv
<1>5. OwnerInv'
  BY DEF IInv, SpawnWorker, Admitting, Live, ownerVars, TypeOK, ReceiversInv,
         OwnerInv
<1>6. CancelReachesWorker'
  BY DEF IInv, SpawnWorker, Admitting, Live, ownerVars, TypeOK, ReceiversInv,
         CancelReachesWorker
<1>7. NoLeakedEntry'
  BY DEF IInv, SpawnWorker, Live, ownerVars, TypeOK, NoLeakedEntry
<1>8. JoinedAreCancelled'
  BY DEF IInv, SpawnWorker, Admitting, Live, ownerVars, TypeOK, ReceiversInv,
         JoinedAreCancelled
<1> QED
  BY <1>1, <1>2, <1>3, <1>4, <1>5, <1>6, <1>7, <1>8 DEF IInv

\* A thread that could not be created leaves its entry behind.
LEMMA SpawnThrowsStep ==
  ASSUME IInv, NEW r \in Receivers, SpawnThrows(r)
  PROVE  IInv'
<1>1. /\ EntriesInv' /\ OwnerInv' /\ ShutdownInv' /\ CancelReachesWorker'
      /\ JoinedAreCancelled'
  BY DEF IInv, SpawnThrows, Live, Return, ownerVars, EntriesInv, OwnerInv,
         ShutdownInv, CancelReachesWorker, JoinedAreCancelled
<1>2. TypeOK'
  BY DEF IInv, SpawnThrows, Admitting, Phases, RPcs, Return, WPcs, ownerVars,
         TypeOK, ReceiversInv
<1>3. ReceiversInv'
  BY DEF IInv, SpawnThrows, Admitting, Return, ownerVars, TypeOK, ReceiversInv
<1>4. WorkersInv'
  BY DEF IInv, SpawnThrows, Admitting, Live, Return, ownerVars, TypeOK,
         ReceiversInv, WorkersInv
<1>5. NoLeakedEntry'
  BY DEF IInv, SpawnThrows, Admitting, Live, Return, ownerVars, TypeOK,
         ReceiversInv, WorkersInv, NoLeakedEntry
<1> QED
  BY <1>1, <1>2, <1>3, <1>4, <1>5 DEF IInv

\* The thread moves from the callback to State::workers.
LEMMA PushWorkerStep ==
  ASSUME IInv, NEW r \in Receivers, PushWorker(r)
  PROVE  IInv'
<1>1. /\ WorkersInv' /\ EntriesInv' /\ CancelReachesWorker' /\ NoLeakedEntry'
      /\ JoinedAreCancelled'
  BY DEF IInv, PushWorker, Admitting, Live, Return, ownerVars, workerVars,
         WorkersInv, EntriesInv, CancelReachesWorker, NoLeakedEntry,
         JoinedAreCancelled
<1>2. TypeOK'
  BY DEF IInv, PushWorker, Admitting, Phases, RPcs, Return, WPcs, ownerVars,
         workerVars, TypeOK, ReceiversInv
<1>3. ReceiversInv'
  BY DEF IInv, PushWorker, Admitting, Return, ownerVars, workerVars, TypeOK,
         ReceiversInv
<1>4. OwnerInv'
  BY DEF IInv, PushWorker, Admitting, Live, Return, ownerVars, workerVars,
         TypeOK, ReceiversInv, OwnerInv
<1>5. ShutdownInv'
  BY DEF IInv, PushWorker, Live, Return, ownerVars, workerVars, TypeOK,
         OwnerInv, ShutdownInv
<1> QED
  BY <1>1, <1>2, <1>3, <1>4, <1>5 DEF IInv

\* A cancel changes flags only.
LEMMA HandleCancelStep ==
  ASSUME IInv, NEW g \in Goals, HandleCancel(g)
  PROVE  IInv'
<1>1. /\ TypeOK' /\ ReceiversInv' /\ WorkersInv' /\ EntriesInv' /\ OwnerInv'
      /\ ShutdownInv' /\ CancelReachesWorker' /\ NoLeakedEntry'
      /\ JoinedAreCancelled'
  BY DEF IInv, HandleCancel, Admitting, Deliver, Live, Phases, RPcs,
         Reachable, Referenced, StateExists, WPcs, ownerVars, receiverVars,
         workerVars, TypeOK, ReceiversInv, WorkersInv, EntriesInv, OwnerInv,
         ShutdownInv, CancelReachesWorker, NoLeakedEntry, JoinedAreCancelled
<1> QED
  BY <1>1 DEF IInv

\* A thread that fails to lock the State was created before Finalize.
LEMMA StartExecuteStep ==
  ASSUME IInv, NEW w \in Workers, StartExecute(w)
  PROVE  IInv'
<1>1. /\ TypeOK' /\ ReceiversInv' /\ WorkersInv' /\ EntriesInv' /\ OwnerInv'
      /\ ShutdownInv' /\ CancelReachesWorker' /\ JoinedAreCancelled'
  BY DEF IInv, StartExecute, StateExists, Referenced, Admitting, Live, Phases, RPcs, WPcs, ownerVars,
         receiverVars, TypeOK, ReceiversInv, WorkersInv, EntriesInv, OwnerInv,
         ShutdownInv, CancelReachesWorker, JoinedAreCancelled
<1>2. NoLeakedEntry'
  BY DEF IInv, StartExecute, Admitting, Live, StateExists, ownerVars,
         receiverVars, TypeOK, WorkersInv, OwnerInv, NoLeakedEntry
<1> QED
  BY <1>1, <1>2 DEF IInv

\* Feedback changes nothing of the server.
LEMMA PublishFeedbackStep ==
  ASSUME IInv, NEW w \in Workers, PublishFeedback(w)
  PROVE  IInv'
<1>1. /\ ReceiversInv' /\ WorkersInv' /\ EntriesInv' /\ OwnerInv'
      /\ ShutdownInv' /\ CancelReachesWorker' /\ NoLeakedEntry'
      /\ JoinedAreCancelled'
  BY DEF IInv, PublishFeedback, Admitting, Live, Publish, ownerVars,
         receiverVars, serverVars, workerVars, ReceiversInv, WorkersInv,
         EntriesInv, OwnerInv, ShutdownInv, CancelReachesWorker,
         NoLeakedEntry, JoinedAreCancelled
<1>2. TypeOK'
  BY DEF IInv, PublishFeedback, Admitting, CancelMsg, FeedbackMsg, GoalMsg,
         Live, Message, Phases, Publish, RPcs, ResultMsg, WPcs, ownerVars,
         receiverVars, serverVars, workerVars, TypeOK, WorkersInv
<1> QED
  BY <1>1, <1>2 DEF IInv

\* The execute function returns a status.
LEMMA ExecuteReturnsStep ==
  ASSUME IInv, NEW w \in Workers, NEW st \in Statuses, ExecuteReturns(w, st)
  PROVE  IInv'
<1>1. /\ TypeOK' /\ ReceiversInv' /\ EntriesInv' /\ OwnerInv' /\ ShutdownInv'
      /\ CancelReachesWorker' /\ NoLeakedEntry' /\ JoinedAreCancelled'
  BY DEF IInv, ExecuteReturns, Admitting, Live, Phases, RPcs, WPcs, ownerVars,
         receiverVars, TypeOK, ReceiversInv, EntriesInv, OwnerInv,
         ShutdownInv, CancelReachesWorker, NoLeakedEntry, JoinedAreCancelled
<1>2. WorkersInv'
  BY DEF IInv, ExecuteReturns, Admitting, Live, ownerVars, receiverVars,
         TypeOK, WorkersInv
<1> QED
  BY <1>1, <1>2 DEF IInv

\* The result goes out while the entry is still there.
LEMMA PublishResultStep ==
  ASSUME IInv, NEW w \in Workers, PublishResult(w)
  PROVE  IInv'
<1>1. /\ ReceiversInv' /\ EntriesInv' /\ OwnerInv' /\ ShutdownInv'
      /\ CancelReachesWorker' /\ NoLeakedEntry' /\ JoinedAreCancelled'
  BY DEF IInv, PublishResult, Admitting, Live, Publish, ownerVars,
         receiverVars, ReceiversInv, EntriesInv, OwnerInv, ShutdownInv,
         CancelReachesWorker, NoLeakedEntry, JoinedAreCancelled
<1>2. TypeOK'
  BY DEF IInv, PublishResult, Admitting, CancelMsg, FeedbackMsg, GoalMsg,
         Live, Message, Phases, Publish, RPcs, ResultMsg, WPcs, ownerVars,
         receiverVars, TypeOK, WorkersInv
<1>3. WorkersInv'
  BY DEF IInv, PublishResult, Admitting, Live, Publish, ownerVars,
         receiverVars, TypeOK, WorkersInv
<1> QED
  BY <1>1, <1>2, <1>3 DEF IInv

\* An exception on the result topic ends the process.
LEMMA PublishResultThrowsStep ==
  ASSUME IInv, NEW w \in Workers, PublishResultThrows(w)
  PROVE  IInv'
<1>1. /\ TypeOK' /\ ReceiversInv' /\ WorkersInv' /\ EntriesInv' /\ OwnerInv'
      /\ ShutdownInv' /\ CancelReachesWorker' /\ NoLeakedEntry'
      /\ JoinedAreCancelled'
  BY DEF IInv, PublishResultThrows, Admitting, Live, Phases, RPcs, WPcs,
         ownerVars, receiverVars, workerVars, TypeOK, ReceiversInv,
         WorkersInv, EntriesInv, OwnerInv, ShutdownInv, CancelReachesWorker,
         NoLeakedEntry, JoinedAreCancelled
<1> QED
  BY <1>1 DEF IInv

\* The worker removes its own entry.
LEMMA EraseActiveStep ==
  ASSUME IInv, NEW w \in Workers, EraseActive(w)
  PROVE  IInv'
<1>1. /\ ReceiversInv' /\ OwnerInv' /\ ShutdownInv'
  BY DEF IInv, EraseActive, Admitting, Live, ownerVars, receiverVars,
         ReceiversInv, OwnerInv, ShutdownInv
<1>2. TypeOK'
  BY DEF IInv, EraseActive, Admitting, Live, Phases, RPcs, WPcs, ownerVars,
         receiverVars, TypeOK, WorkersInv
<1>3. WorkersInv'
  BY DEF IInv, EraseActive, Admitting, Live, ownerVars, receiverVars, TypeOK,
         WorkersInv
<1>4. EntriesInv'
  BY ServerAssumption
     DEF IInv, EraseActive, ownerVars, receiverVars, TypeOK, EntriesInv
<1>5. JoinedAreCancelled'
  BY DEF IInv, EraseActive, Live, ownerVars, receiverVars, TypeOK,
         JoinedAreCancelled
<1>6. CancelReachesWorker'
  BY DEF IInv, EraseActive, Live, ownerVars, receiverVars, TypeOK,
         CancelReachesWorker
<1>7. NoLeakedEntry'
  BY ServerAssumption
     DEF IInv, EraseActive, Live, ownerVars, receiverVars, TypeOK, EntriesInv,
         NoLeakedEntry
<1> QED
  BY <1>1, <1>2, <1>3, <1>4, <1>5, <1>6, <1>7 DEF IInv

-----------------------------------------------------------------------------
\* A server that is being constructed has no threads and no entries.
LEMMA InitIInv == Init => IInv
<1> SUFFICES ASSUME Init PROVE IInv
  OBVIOUS
<1>1. TypeOK
  <2>1. net \subseteq Message
    BY DEF Init, Message
  <2> QED
    BY <2>1 DEF Init, ServerInit, TypeOK, Phases, RPcs, WPcs
<1>2. ReceiversInv /\ OwnerInv /\ ShutdownInv
  BY DEF Init, ServerInit, ReceiversInv, OwnerInv, ShutdownInv, Admitting
<1>3. WorkersInv /\ EntriesInv /\ CancelReachesWorker /\ NoLeakedEntry
        /\ JoinedAreCancelled
  BY ServerAssumption
     DEF Init, ServerInit, WorkersInv, EntriesInv, CancelReachesWorker,
         NoLeakedEntry, JoinedAreCancelled, Live
<1> QED
  BY <1>1, <1>2, <1>3 DEF IInv

\* IInv looks at nothing but the variables of the specification.
LEMMA StutterIInv == IInv /\ UNCHANGED vars => IInv'
<1> SUFFICES ASSUME IInv, UNCHANGED vars PROVE IInv'
  OBVIOUS
<1> USE DEF vars, serverVars, receiverVars, workerVars, ownerVars, IInv, Live,
        Admitting
<1>1. TypeOK' /\ ReceiversInv' /\ OwnerInv' /\ ShutdownInv'
  BY DEF TypeOK, ReceiversInv, OwnerInv, ShutdownInv
<1>2. WorkersInv' /\ EntriesInv' /\ CancelReachesWorker' /\ NoLeakedEntry'
        /\ JoinedAreCancelled'
  BY DEF WorkersInv, EntriesInv, CancelReachesWorker, NoLeakedEntry,
         JoinedAreCancelled
<1> QED
  BY <1>1, <1>2

\* One step of the server, whoever takes it.
LEMMA ServerNextIInv == IInv /\ ServerNext => IInv'
<1> SUFFICES ASSUME IInv, ServerNext PROVE IInv'
  OBVIOUS
<1>1. CASE OwnerNext
  BY <1>1, SubscribeGoalStep, SubscribeCancelStep, SubscribeCancelThrowsStep,
     FinalizeStep, BeginDestroyStep, CancelAllAndTakeWorkersStep,
     JoinAndReleaseStep, FreeStateStep
     DEF OwnerNext
<1>2. CASE ReceiverNext
  BY <1>2, ReceiveGoalStep, AcceptGoalStep, IgnoreDuplicateStep,
     SpawnWorkerStep, SpawnThrowsStep, PushWorkerStep, HandleCancelStep
     DEF ReceiverNext
<1>3. ASSUME NEW w \in Workers, WorkerNext(w) PROVE IInv'
  BY <1>3, StartExecuteStep, PublishFeedbackStep, ExecuteReturnsStep,
     PublishResultStep, PublishResultThrowsStep, EraseActiveStep
     DEF WorkerNext
<1> QED
  BY <1>1, <1>2, <1>3 DEF ServerNext

\* IInv holds in every reachable state of the server.
THEOREM Invariance == Spec => []IInv
<1>1. IInv /\ [Next]_vars => IInv'
  BY ServerNextIInv, StutterIInv DEF Next
<1> QED
  BY <1>1, InitIInv, PTL DEF Spec

\* Every variable of the server stays in its range.
THEOREM TypeCorrect == Spec => []TypeOK
<1>1. IInv => TypeOK
  BY DEF IInv
<1> QED
  BY <1>1, Invariance, PTL

\* A running worker's cancel flag is the one its goal's entry in active holds:
\* a cancel, or the destructor, that looks the goal up reaches the thread.
THEOREM CancelAlwaysReachesWorker == Spec => []CancelReachesWorker
<1>1. IInv => CancelReachesWorker
  BY DEF IInv
<1> QED
  BY <1>1, Invariance, PTL

\* Two live workers never execute the same goal id: both would own the entry.
THEOREM GoalsExecuteOneAtATime == Spec => []OneWorkerPerGoal
<1>1. IInv => OneWorkerPerGoal
  BY DEF IInv, CancelReachesWorker, OneWorkerPerGoal
<1> QED
  BY <1>1, Invariance, PTL

\* An entry without a live worker belongs to a thread that never got the State.
THEOREM EntriesLeakOnlyWithoutState == Spec => []NoLeakedEntry
<1>1. IInv => NoLeakedEntry
  BY DEF IInv
<1> QED
  BY <1>1, Invariance, PTL

\* The destructor joins only threads whose cancel flag it has set.
THEOREM JoinWaitsForCancelled == Spec => []JoinedAreCancelled
<1>1. IInv => JoinedAreCancelled
  BY DEF IInv
<1> QED
  BY <1>1, Invariance, PTL

\* A destructor that no goal callback races leaves no thread behind and never
\* destroys a joinable one.
THEOREM ShutdownIsQuiet == Spec => []QuietShutdown
<1>1. IInv => QuietShutdown
  <2> SUFFICES ASSUME IInv, racing = {}, ~threw, NEW w \in Workers,
                      phase \in {"released", "freed"}, Live(w)
               PROVE  FALSE
    BY DEF QuietShutdown, IInv, ShutdownInv
  <2>1. workers = {} /\ \A r \in Receivers : rpc[r] = "idle"
    BY DEF IInv, ShutdownInv, OwnerInv
  <2>2. w \in joining
    BY <2>1 DEF IInv, WorkersInv, Admitting
  <2>3. wpc[w] = "finished"
    BY <2>2 DEF IInv, OwnerInv
  <2> QED
    BY <2>3 DEF Live
<1> QED
  BY <1>1, Invariance, PTL

-----------------------------------------------------------------------------
(* A goal that is cancelled ends.  Unblocked is what ServerFairness says   *)
(* of the worker threads, with ENABLED written out: a worker's own code    *)
(* never waits, and an execute function returns once its flag is set.      *)

GoesOn(w) == wpc[w] \in {"ready", "returned", "published"} /\ ~terminated
Heeding(w) == wpc[w] = "executing" /\ cancel_flag[w] /\ ~terminated

Runs(w) ==
  []<>~GoesOn(w) \/ []<><<StartExecute(w) \/ PublishResult(w) \/ EraseActive(w)>>_vars
Heeds(w) == []<>~Heeding(w) \/ []<><<CancelledExecuteReturns(w)>>_vars

Unblocked == \A w \in Workers : Runs(w) /\ Heeds(w)

Told(w, at) == wpc[w] = at /\ cancel_flag[w]
Reported(w) == w \in reported
Published(w) == Told(w, "published") /\ w \in reported
Finished(w) == wpc[w] = "finished"
Joins(w)    == phase = "joining" /\ w \in joining

\* A worker's thread is moved by nobody else, its flag is never cleared, and its report
\* is never taken back.
LEMMA WorkerMoves ==
  ASSUME IInv, [Next]_vars, NEW w \in Workers
  PROVE  /\ cancel_flag[w] => cancel_flag'[w]
         /\ w \in reported => w \in reported'
         /\ wpc[w] = "ready" => wpc'[w] \in {"ready", "executing", "finished"}
         /\ wpc[w] = "executing" => wpc'[w] \in {"executing", "returned"}
         /\ wpc[w] = "returned" =>
              wpc'[w] = "returned" \/ (wpc'[w] = "published" /\ w \in reported')
         /\ wpc[w] = "published" => wpc'[w] \in {"published", "finished"}
         /\ wpc[w] = "finished" => wpc'[w] = "finished"
<1> USE DEF IInv, TypeOK, Advance, receiverVars, workerVars, ownerVars, serverVars
<1>1. CASE OwnerNext
  BY <1>1 DEF OwnerNext, SubscribeGoal, SubscribeCancel, SubscribeCancelThrows, Finalize,
     BeginDestroy, CancelAllAndTakeWorkers, JoinAndRelease, FreeState
<1>2. ASSUME NEW g \in Goals, HandleCancel(g) \/ \E r \in Receivers : ReceiveGoal(r, g)
      PROVE  /\ cancel_flag[w] => cancel_flag'[w]
             /\ wpc' = wpc /\ reported' = reported
  BY <1>2 DEF ReceiveGoal, HandleCancel
<1>3. ASSUME NEW r \in Receivers, NEW v \in Workers, AcceptGoal(r, v)
      PROVE  /\ wpc[w] # "unborn" => wpc'[w] = wpc[w]
             /\ cancel_flag' = cancel_flag /\ reported' = reported
  BY <1>3 DEF AcceptGoal
<1>4. ASSUME NEW r \in Receivers,
             IgnoreDuplicate(r) \/ SpawnWorker(r) \/ SpawnThrows(r) \/ PushWorker(r)
      PROVE  /\ wpc[w] # "reserved" => wpc'[w] = wpc[w]
             /\ cancel_flag' = cancel_flag /\ reported' = reported
  BY <1>4 DEF IgnoreDuplicate, SpawnWorker, SpawnThrows, PushWorker, ReceiversInv
<1>5. ASSUME NEW v \in Workers, WorkerNext(v)
      PROVE  /\ v = w \/ wpc'[w] = wpc[w]
             /\ cancel_flag' = cancel_flag
             /\ w \in reported => w \in reported'
  BY <1>5 DEF WorkerNext, StartExecute, PublishFeedback, ExecuteReturns, PublishResult,
     PublishResultThrows, EraseActive
<1>6. ASSUME WorkerNext(w)
      PROVE  /\ wpc[w] = "ready" => wpc'[w] \in {"ready", "executing", "finished"}
             /\ wpc[w] = "executing" => wpc'[w] \in {"executing", "returned"}
             /\ wpc[w] = "returned" =>
                  wpc'[w] = "returned" \/ (wpc'[w] = "published" /\ w \in reported')
             /\ wpc[w] = "published" => wpc'[w] \in {"published", "finished"}
             /\ wpc[w] = "finished" => wpc'[w] = "finished"
  BY <1>6 DEF WorkerNext, StartExecute, PublishFeedback, ExecuteReturns, PublishResult,
     PublishResultThrows, EraseActive
<1>7. CASE UNCHANGED vars
  BY <1>7 DEF vars
<1>8. CASE ReceiverNext
  BY <1>2, <1>3, <1>4, <1>8 DEF ReceiverNext
<1> QED BY <1>1, <1>5, <1>6, <1>7, <1>8 DEF Next, ServerNext

\* A worker whose flag is set ends: it runs at most until its execute function has seen
\* the flag, and publishes its result on the way.
LEMMA ToldWorkerMovesOn ==
  ASSUME NEW w \in Workers
  PROVE  Spec /\ Unblocked =>
           /\ Told(w, "ready") ~> (Told(w, "executing") \/ Finished(w) \/ terminated)
           /\ Told(w, "executing") ~> (Told(w, "returned") \/ terminated)
           /\ Told(w, "returned") ~> (Published(w) \/ terminated)
           /\ Told(w, "published") ~> (Finished(w) \/ terminated)
<1>1. Unblocked => Runs(w) /\ Heeds(w)
  BY DEF Unblocked
<1>2. Spec /\ Unblocked =>
        (Told(w, "ready") ~> Told(w, "executing") \/ Finished(w) \/ terminated)
  <2>1. IInv /\ Told(w, "ready") /\ [Next]_vars
          => Told(w, "ready")' \/ Told(w, "executing")' \/ Finished(w)'
    BY WorkerMoves DEF Told, Finished, Reported
  <2>2. IInv /\ Told(w, "ready") /\ [Next]_vars
          /\ <<StartExecute(w) \/ PublishResult(w) \/ EraseActive(w)>>_vars =>
             Told(w, "executing")' \/ Finished(w)'
    BY WorkerMoves DEF Told, Finished, Reported, StartExecute, PublishResult, EraseActive,
       IInv, TypeOK
  <2>3. Told(w, "ready") => GoesOn(w) \/ terminated
    BY DEF Told, GoesOn
  <2> QED BY <1>1, <2>1, <2>2, <2>3, Invariance, PTL DEF Spec, Runs
<1>3. Spec /\ Unblocked => (Told(w, "executing") ~> Told(w, "returned") \/ terminated)
  <2>1. IInv /\ Told(w, "executing") /\ [Next]_vars
          => Told(w, "executing")' \/ Told(w, "returned")'
    BY WorkerMoves DEF Told, Finished, Reported
  <2>2. IInv /\ Told(w, "executing") /\ [Next]_vars /\ <<CancelledExecuteReturns(w)>>_vars
          => Told(w, "returned")'
    BY WorkerMoves DEF Told, Finished, Reported, CancelledExecuteReturns, ExecuteReturns,
       IInv, TypeOK
  <2>3. Told(w, "executing") => Heeding(w) \/ terminated
    BY DEF Told, Heeding
  <2> QED BY <1>1, <2>1, <2>2, <2>3, Invariance, PTL DEF Spec, Heeds
<1>4. Spec /\ Unblocked => (Told(w, "returned") ~> Published(w) \/ terminated)
  <2>1. IInv /\ Told(w, "returned") /\ [Next]_vars
          => Told(w, "returned")' \/ Published(w)'
    BY WorkerMoves DEF Told, Published
  <2>2. IInv /\ Told(w, "returned") /\ [Next]_vars
          /\ <<StartExecute(w) \/ PublishResult(w) \/ EraseActive(w)>>_vars => Published(w)'
    BY WorkerMoves DEF Told, StartExecute, PublishResult, EraseActive,
       IInv, TypeOK, Published
  <2>3. Told(w, "returned") => GoesOn(w) \/ terminated
    BY DEF Told, GoesOn
  <2> QED BY <1>1, <2>1, <2>2, <2>3, Invariance, PTL DEF Spec, Runs
<1>5. Spec /\ Unblocked => (Told(w, "published") ~> Finished(w) \/ terminated)
  <2>1. IInv /\ Told(w, "published") /\ [Next]_vars
          => Told(w, "published")' \/ Finished(w)'
    BY WorkerMoves DEF Told, Finished, Reported
  <2>2. IInv /\ Told(w, "published") /\ [Next]_vars
          /\ <<StartExecute(w) \/ PublishResult(w) \/ EraseActive(w)>>_vars => Finished(w)'
    BY WorkerMoves DEF Told, Finished, Reported, StartExecute, PublishResult, EraseActive,
       IInv, TypeOK
  <2>3. Told(w, "published") => GoesOn(w) \/ terminated
    BY DEF Told, GoesOn
  <2> QED BY <1>1, <2>1, <2>2, <2>3, Invariance, PTL DEF Spec, Runs
<1> QED BY <1>2, <1>3, <1>4, <1>5, PTL

\* A goal whose execution a cancel has found gets a result, whatever the other goals,
\* callbacks and the destructor do meanwhile.
THEOREM CancelledGoalsEnd == Spec /\ Unblocked => CancelEndsGoal
<1> SUFFICES ASSUME NEW w \in Workers
             PROVE  Spec /\ Unblocked =>
                      (Told(w, "executing") ~> (Reported(w) \/ terminated))
  BY DEF CancelEndsGoal, Told, Reported
<1>1. Published(w) => Reported(w)
  BY DEF Published, Reported
<1> QED BY <1>1, ToldWorkerMovesOn, PTL

\* Every thread the destructor joins ends: the join loop waits for nobody for ever.
THEOREM JoinedThreadsEnd ==
  ASSUME NEW w \in Workers
  PROVE  Spec /\ Unblocked => (Joins(w) ~> (Finished(w) \/ terminated))
<1>1. IInv /\ Joins(w) =>
        \/ Told(w, "ready") \/ Told(w, "executing") \/ Told(w, "returned")
        \/ Told(w, "published") \/ Finished(w)
  BY DEF IInv, TypeOK, OwnerInv, JoinedAreCancelled, Joins, Told, Finished, Live, WPcs
<1>2. Published(w) => Told(w, "published")
  BY DEF Published
<1> QED BY <1>1, <1>2, ToldWorkerMovesOn, Invariance, PTL
===============================================================================
