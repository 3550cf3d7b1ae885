----------------------------- MODULE ActionServer -----------------------------
(***************************************************************************)
(* talos::ActionServer (include/talosos/action.h): one thread per goal,    *)
(* goals and cancels arriving on transport threads, a constructor that     *)
(* subscribes before it is finished, and a destructor that cancels and     *)
(* joins.  Every action is the code between two points where another       *)
(* thread can act: a lock region, or an atomic load or store.              *)
(***************************************************************************)
EXTENDS ActionNet

CONSTANTS
  Receivers,   \* transport threads that run the goal callback
  None,
  MayThrow     \* the transport or the OS may fail a call (put, declare, thread)

ASSUME ServerAssumption == /\ None \notin Workers \cup Goals \cup Statuses
                           /\ MayThrow \in BOOLEAN

VARIABLES
  phase,          \* where the server's owner is, from constructor to release
  shutting_down,  \* State::shutting_down
  shared_self,    \* State::shared_self is set (Finalize ran)
  active,         \* State::active: goal id -> owner of its cancel_flag, or None
  cancel_flag,    \* the flag of each worker
  workers,        \* State::workers, the std::thread objects not yet joined
  joining,        \* the destructor's local vector of threads
  rpc, rgoal, rworker,     \* each transport thread inside HandleGoal
  wpc, wgoal, wself, wstatus,  \* each worker thread; wself: its weak_ptr is set
  reported,       \* history: workers that published a result
  racing,         \* history: callbacks inside HandleGoal when shutdown began
  threw,          \* history: a call of the transport or the OS failed
  terminated      \* std::terminate ended the process

receiverVars == <<rpc, rgoal, rworker>>
workerVars   == <<wpc, wgoal, wself, wstatus, reported>>
ownerVars    == <<phase, shutting_down, shared_self, joining, racing>>
serverVars   == <<receiverVars, workerVars, ownerVars, active, cancel_flag,
                  workers, threw, terminated>>

Phases == {"new", "goal_sub", "subscribed", "live",
           "stopping", "joining", "released", "freed"}
RPcs   == {"idle", "checked", "accepted", "spawned"}
WPcs   == {"unborn", "reserved", "ready", "executing", "returned", "published",
           "finished"}

\* The worker owns its goal: from HandleGoal's insertion to the worker's erase.
Live(w) == wpc[w] \in {"reserved", "ready", "executing", "returned", "published"}

\* A callback whose weak.lock() succeeded, or a worker that holds s.
Referenced == \/ \E r \in Receivers : rpc[r] # "idle"
              \/ \E w \in Workers : wpc[w] \in {"executing", "returned", "published"}

\* The shared_ptr of the server, or one that a weak_ptr was locked to.
StateExists == phase \notin {"released", "freed"} \/ Referenced

\* weak.lock() of a subscription callback succeeds.
Reachable(subscribed) == /\ ~terminated
                         /\ phase \in subscribed
                         /\ StateExists

ServerInit ==
  /\ phase = "new"
  /\ shutting_down = FALSE
  /\ shared_self = FALSE
  /\ active = [g \in Goals |-> None]
  /\ cancel_flag = [w \in Workers |-> FALSE]
  /\ workers = {}
  /\ joining = {}
  /\ rpc = [r \in Receivers |-> "idle"]
  /\ rgoal = [r \in Receivers |-> None]
  /\ rworker = [r \in Receivers |-> None]
  /\ wpc = [w \in Workers |-> "unborn"]
  /\ wgoal = [w \in Workers |-> None]
  /\ wself = [w \in Workers |-> FALSE]
  /\ wstatus = [w \in Workers |-> None]
  /\ reported = {}
  /\ racing = {}
  /\ threw = FALSE
  /\ terminated = FALSE

-----------------------------------------------------------------------------
(* The owner: MakeActionServer, then the destructor.                       *)

Advance(from, to) == phase = from /\ phase' = to /\ ~terminated

\* goal_sub = node->Subscribe(...): goals can be delivered from here on.
SubscribeGoal ==
  /\ Advance("new", "goal_sub")
  /\ UNCHANGED <<receiverVars, workerVars, active, cancel_flag, workers, threw,
                 terminated, shutting_down, shared_self, joining, racing, net>>

SubscribeCancel ==
  /\ Advance("goal_sub", "subscribed")
  /\ UNCHANGED <<receiverVars, workerVars, active, cancel_flag, workers, threw,
                 terminated, shutting_down, shared_self, joining, racing, net>>

\* The second Subscribe throws: the constructor unwinds, which drops state_
\* without running ~ActionServer.
SubscribeCancelThrows ==
  /\ MayThrow
  /\ Advance("goal_sub", "released")
  /\ threw' = TRUE
  /\ UNCHANGED <<receiverVars, workerVars, active, cancel_flag, workers,
                 terminated, shutting_down, shared_self, joining, racing, net>>

Finalize ==
  /\ Advance("subscribed", "live")
  /\ shared_self' = TRUE
  /\ UNCHANGED <<receiverVars, workerVars, active, cancel_flag, workers, threw,
                 terminated, shutting_down, joining, racing, net>>

BeginDestroy ==
  /\ Advance("live", "stopping")
  /\ shutting_down' = TRUE
  /\ racing' = {r \in Receivers : rpc[r] # "idle"}
  /\ UNCHANGED <<receiverVars, workerVars, active, cancel_flag, workers, threw,
                 terminated, shared_self, joining, net>>

\* Variant with a bug, for the properties to catch: the flags are not set.
TakeWorkersOnly ==
  /\ Advance("stopping", "joining")
  /\ joining' = workers
  /\ workers' = {}
  /\ UNCHANGED <<receiverVars, workerVars, active, cancel_flag, threw, terminated,
                 shutting_down, shared_self, racing, net>>

\* Under mu: cancel every active goal and move the threads out.
CancelAllAndTakeWorkers ==
  /\ Advance("stopping", "joining")
  /\ cancel_flag' = [w \in Workers |->
                       cancel_flag[w] \/ \E g \in Goals : active[g] = w]
  /\ joining' = workers
  /\ workers' = {}
  /\ UNCHANGED <<receiverVars, workerVars, active, threw, terminated,
                 shutting_down, shared_self, racing, net>>

\* Variant with a bug: the threads are detached.
DetachAndRelease ==
  /\ Advance("joining", "released")
  /\ UNCHANGED <<receiverVars, workerVars, active, cancel_flag, workers, threw,
                 terminated, shutting_down, shared_self, joining, racing, net>>

\* The join loop is over and the owner's shared_ptr is gone.
JoinAndRelease ==
  /\ Advance("joining", "released")
  /\ \A w \in joining : wpc[w] = "finished"
  /\ UNCHANGED <<receiverVars, workerVars, active, cancel_flag, workers, threw,
                 terminated, shutting_down, shared_self, joining, racing, net>>

\* The last reference to State is dropped; destroying a joinable std::thread
\* calls std::terminate.
FreeState ==
  /\ Advance("released", "freed")
  /\ ~Referenced
  /\ terminated' = (workers # {})
  /\ UNCHANGED <<receiverVars, workerVars, active, cancel_flag, workers, threw,
                 shutting_down, shared_self, joining, racing, net>>

OwnerNext == \/ SubscribeGoal \/ SubscribeCancel \/ SubscribeCancelThrows
             \/ Finalize \/ BeginDestroy \/ CancelAllAndTakeWorkers
             \/ JoinAndRelease \/ FreeState

-----------------------------------------------------------------------------
(* HandleGoal, on a transport thread.                                      *)

\* Variant with a bug: shutting_down is not looked at.
ReceiveDuringShutdown(r, g) ==
  /\ Reachable(Phases \ {"new", "freed"})
  /\ rpc[r] = "idle"
  /\ Deliver(GoalMsg(g))
  /\ rpc' = [rpc EXCEPT ![r] = "checked"]
  /\ rgoal' = [rgoal EXCEPT ![r] = g]
  /\ UNCHANGED <<rworker, workerVars, ownerVars, active, cancel_flag, workers,
                 threw, terminated>>

\* weak.lock(), then the unlocked read of shutting_down.
ReceiveGoal(r, g) ==
  /\ Reachable(Phases \ {"new", "freed"})
  /\ rpc[r] = "idle"
  /\ Deliver(GoalMsg(g))
  /\ IF shutting_down
       THEN UNCHANGED receiverVars
       ELSE /\ rpc' = [rpc EXCEPT ![r] = "checked"]
            /\ rgoal' = [rgoal EXCEPT ![r] = g]
            /\ UNCHANGED rworker
  /\ UNCHANGED <<workerVars, ownerVars, active, cancel_flag, workers, threw,
                 terminated>>

Return(r) ==
  /\ rpc' = [rpc EXCEPT ![r] = "idle"]
  /\ rgoal' = [rgoal EXCEPT ![r] = None]
  /\ rworker' = [rworker EXCEPT ![r] = None]

\* Under mu: the id is already being executed.
IgnoreDuplicate(r) ==
  /\ ~terminated
  /\ rpc[r] = "checked"
  /\ active[rgoal[r]] # None
  /\ Return(r)
  /\ UNCHANGED <<workerVars, ownerVars, active, cancel_flag, workers, threw,
                 terminated, net>>

\* Variant with a bug: the id is inserted without the look at active.
AcceptGoalTwice(r, w) ==
  /\ ~terminated
  /\ rpc[r] = "checked"
  /\ wpc[w] = "unborn"
  /\ active' = [active EXCEPT ![rgoal[r]] = w]
  /\ wpc' = [wpc EXCEPT ![w] = "reserved"]
  /\ wgoal' = [wgoal EXCEPT ![w] = rgoal[r]]
  /\ rpc' = [rpc EXCEPT ![r] = "accepted"]
  /\ rworker' = [rworker EXCEPT ![r] = w]
  /\ UNCHANGED <<ownerVars, rgoal, wself, wstatus, reported, cancel_flag,
                 workers, threw, terminated, net>>

\* Under mu: insert the id with a fresh cancel_flag, the one of worker w.
AcceptGoal(r, w) ==
  /\ ~terminated
  /\ rpc[r] = "checked"
  /\ active[rgoal[r]] = None
  /\ wpc[w] = "unborn"
  /\ active' = [active EXCEPT ![rgoal[r]] = w]
  /\ wpc' = [wpc EXCEPT ![w] = "reserved"]
  /\ wgoal' = [wgoal EXCEPT ![w] = rgoal[r]]
  /\ rpc' = [rpc EXCEPT ![r] = "accepted"]
  /\ rworker' = [rworker EXCEPT ![r] = w]
  /\ UNCHANGED <<ownerVars, rgoal, wself, wstatus, reported, cancel_flag,
                 workers, threw, terminated, net>>

\* std::thread(...): the lambda captures shared_self as it is now.
SpawnWorker(r) ==
  /\ ~terminated
  /\ rpc[r] = "accepted"
  /\ rpc' = [rpc EXCEPT ![r] = "spawned"]
  /\ wpc' = [wpc EXCEPT ![rworker[r]] = "ready"]
  /\ wself' = [wself EXCEPT ![rworker[r]] = shared_self]
  /\ UNCHANGED <<ownerVars, rgoal, rworker, wgoal, wstatus, reported, active,
                 cancel_flag, workers, threw, terminated, net>>

\* The thread cannot be created: the exception leaves HandleGoal and is
\* swallowed by the subscription; the active entry stays.
SpawnThrows(r) ==
  /\ MayThrow
  /\ ~terminated
  /\ rpc[r] = "accepted"
  /\ wpc' = [wpc EXCEPT ![rworker[r]] = "finished"]
  /\ Return(r)
  /\ threw' = TRUE
  /\ UNCHANGED <<ownerVars, wgoal, wself, wstatus, reported, active,
                 cancel_flag, workers, terminated, net>>

\* Under mu, and only now: the thread object goes into State::workers.
PushWorker(r) ==
  /\ ~terminated
  /\ rpc[r] = "spawned"
  /\ workers' = workers \cup {rworker[r]}
  /\ Return(r)
  /\ UNCHANGED <<workerVars, ownerVars, active, cancel_flag, threw, terminated,
                 net>>

\* HandleCancel: one lock region; an unknown id is ignored.
HandleCancel(g) ==
  /\ Reachable(Phases \ {"new", "goal_sub", "freed"})
  /\ phase = "released" => shared_self   \* the constructor did subscribe
  /\ Deliver(CancelMsg(g))
  /\ cancel_flag' = IF active[g] # None
                      THEN [cancel_flag EXCEPT ![active[g]] = TRUE]
                      ELSE cancel_flag
  /\ UNCHANGED <<receiverVars, workerVars, ownerVars, active, workers, threw,
                 terminated>>

ReceiverNext == \/ \E r \in Receivers, g \in Goals : ReceiveGoal(r, g)
                \/ \E r \in Receivers, w \in Workers : AcceptGoal(r, w)
                \/ \E r \in Receivers : \/ IgnoreDuplicate(r)
                                        \/ SpawnWorker(r)
                                        \/ SpawnThrows(r)
                                        \/ PushWorker(r)
                \/ \E g \in Goals : HandleCancel(g)

-----------------------------------------------------------------------------
(* The worker thread's lambda.                                             *)

\* this_state.lock(): null when Finalize had not run at the thread's creation.
StartExecute(w) ==
  /\ ~terminated
  /\ wpc[w] = "ready"
  /\ wpc' = [wpc EXCEPT ![w] = IF wself[w] /\ StateExists
                                 THEN "executing" ELSE "finished"]
  /\ UNCHANGED <<receiverVars, ownerVars, wgoal, wself, wstatus, reported,
                 active, cancel_flag, workers, threw, terminated, net>>

PublishFeedback(w) ==
  /\ ~terminated
  /\ wpc[w] = "executing"
  /\ Publish(FeedbackMsg(wgoal[w]))
  /\ UNCHANGED serverVars

\* The execute function returns a status, or throws (kAborted).
ExecuteReturns(w, st) ==
  /\ ~terminated
  /\ wpc[w] = "executing"
  /\ wpc' = [wpc EXCEPT ![w] = "returned"]
  /\ wstatus' = [wstatus EXCEPT ![w] = st]
  /\ UNCHANGED <<receiverVars, ownerVars, wgoal, wself, reported, active,
                 cancel_flag, workers, threw, terminated, net>>

\* Variants with a bug: the entry is erased before the result is out ...
EraseThenPublish(w) ==
  /\ ~terminated
  /\ wpc[w] = "returned"
  /\ Publish(ResultMsg(wgoal[w], w, wstatus[w]))
  /\ active' = [active EXCEPT ![wgoal[w]] = None]
  /\ wpc' = [wpc EXCEPT ![w] = "published"]
  /\ reported' = reported \cup {w}
  /\ UNCHANGED <<receiverVars, ownerVars, wgoal, wself, wstatus, cancel_flag,
                 workers, threw, terminated>>

\* ... or a cancelled goal gets no result.
DropCancelledResult(w) ==
  /\ ~terminated
  /\ wpc[w] = "returned"
  /\ wpc' = [wpc EXCEPT ![w] = "published"]
  /\ reported' = IF cancel_flag[w] THEN reported ELSE reported \cup {w}
  /\ UNCHANGED <<receiverVars, ownerVars, wgoal, wself, wstatus, active, cancel_flag,
                 workers, threw, terminated, net>>

PublishResult(w) ==
  /\ ~terminated
  /\ wpc[w] = "returned"
  /\ Publish(ResultMsg(wgoal[w], w, wstatus[w]))
  /\ wpc' = [wpc EXCEPT ![w] = "published"]
  /\ reported' = reported \cup {w}
  /\ UNCHANGED <<receiverVars, ownerVars, wgoal, wself, wstatus, active,
                 cancel_flag, workers, threw, terminated>>

\* result_pub.Publish is outside the lambda's try: an exception ends the process.
PublishResultThrows(w) ==
  /\ MayThrow
  /\ ~terminated
  /\ wpc[w] = "returned"
  /\ threw' = TRUE
  /\ terminated' = TRUE
  /\ UNCHANGED <<receiverVars, workerVars, ownerVars, active, cancel_flag,
                 workers, net>>

\* Variant with a bug: the entry stays.
KeepActive(w) ==
  /\ ~terminated
  /\ wpc[w] = "published"
  /\ wpc' = [wpc EXCEPT ![w] = "finished"]
  /\ UNCHANGED <<receiverVars, ownerVars, wgoal, wself, wstatus, reported, active,
                 cancel_flag, workers, threw, terminated, net>>

\* Under mu: active.erase(id); then the lambda returns and drops s.
EraseActive(w) ==
  /\ ~terminated
  /\ wpc[w] = "published"
  /\ active' = [active EXCEPT ![wgoal[w]] = None]
  /\ wpc' = [wpc EXCEPT ![w] = "finished"]
  /\ UNCHANGED <<receiverVars, ownerVars, wgoal, wself, wstatus, reported,
                 cancel_flag, workers, threw, terminated, net>>

WorkerNext(w) == \/ StartExecute(w)
                 \/ PublishFeedback(w)
                 \/ \E st \in Statuses : ExecuteReturns(w, st)
                 \/ PublishResult(w)
                 \/ PublishResultThrows(w)
                 \/ EraseActive(w)

ServerNext == OwnerNext \/ ReceiverNext \/ \E w \in Workers : WorkerNext(w)

-----------------------------------------------------------------------------
(* The server alone, against clients that have published every goal and    *)
(* every cancel: with a duplicating transport any of them may arrive at    *)
(* any time, any number of times.                                          *)

Init == /\ ServerInit
        /\ net = {GoalMsg(g) : g \in Goals} \cup {CancelMsg(g) : g \in Goals}
Next == ServerNext
vars == <<serverVars, net>>

\* The owner's statements and each thread's code run to the next one; only
\* when BeginDestroy comes, and what the transport delivers, is left open.
\* Of the user's execute function only this is assumed: it polls canceling()
\* and returns once the flag is set.
CancelledExecuteReturns(w) ==
  cancel_flag[w] /\ \E st \in Statuses : ExecuteReturns(w, st)

ServerFairness ==
  /\ WF_vars(CancelAllAndTakeWorkers) /\ WF_vars(JoinAndRelease) /\ WF_vars(FreeState)
  /\ \A r \in Receivers :
       /\ WF_vars(\E w \in Workers : AcceptGoal(r, w))
       /\ WF_vars(IgnoreDuplicate(r) \/ SpawnWorker(r) \/ PushWorker(r))
  /\ \A w \in Workers :
       /\ WF_vars(StartExecute(w) \/ PublishResult(w) \/ EraseActive(w))
       /\ WF_vars(CancelledExecuteReturns(w))

Spec     == Init /\ [][Next]_vars
FairSpec == Spec /\ ServerFairness

-----------------------------------------------------------------------------
(* Properties.                                                             *)

\* Every variable stays in its range (State and thread locals of action.h).
TypeOK ==
  /\ phase \in Phases
  /\ shutting_down \in BOOLEAN /\ shared_self \in BOOLEAN
  /\ active \in [Goals -> Workers \cup {None}]
  /\ cancel_flag \in [Workers -> BOOLEAN]
  /\ workers \subseteq Workers /\ joining \subseteq Workers
  /\ rpc \in [Receivers -> RPcs]
  /\ rgoal \in [Receivers -> Goals \cup {None}]
  /\ rworker \in [Receivers -> Workers \cup {None}]
  /\ wpc \in [Workers -> WPcs]
  /\ wgoal \in [Workers -> Goals \cup {None}]
  /\ wself \in [Workers -> BOOLEAN]
  /\ wstatus \in [Workers -> Statuses \cup {None}]
  /\ reported \subseteq Workers
  /\ racing \subseteq Receivers
  /\ threw \in BOOLEAN /\ terminated \in BOOLEAN
  /\ net \subseteq Message

\* However goals are resent and callbacks interleave, a goal id is executed
\* by one thread at a time (the duplicate check of HandleGoal).
OneWorkerPerGoal ==
  \A v, w \in Workers : v # w /\ Live(v) /\ Live(w) => wgoal[v] # wgoal[w]

\* From its admission until its result is out, a goal's entry in active holds
\* that very worker's cancel flag: HandleCancel and the destructor, which look
\* the flag up there, reach the thread that runs.
CancelReachesWorker ==
  \A w \in Workers : Live(w) => active[wgoal[w]] = w

\* While the server has its owner, an entry of active outlives its worker (and
\* makes the server ignore the id for good) only if the thread never got the
\* State: it was created before Finalize, or could not be created.
NoLeakedEntry ==
  phase \notin {"released", "freed"} =>
    \A g \in Goals, w \in Workers :
      active[g] = w /\ ~Live(w) => ~wself[w] /\ w \notin reported

\* The destructor never joins a thread it has not told to stop.
JoinedAreCancelled ==
  phase = "joining" => \A w \in joining : Live(w) => cancel_flag[w]

\* A destructor that starts while no goal callback is inside HandleGoal ends
\* the server: nothing executes once it has returned, and no joinable thread
\* is destroyed.  (A callback that had already read shutting_down may still
\* create a thread the destructor does not see.)
QuietShutdown ==
  racing = {} /\ ~threw =>
    /\ ~terminated
    /\ phase \in {"released", "freed"} => \A w \in Workers : ~Live(w)

\* With execute functions that return once cancelled, the destructor returns.
DestructorReturns ==
  phase = "stopping" ~> (phase \in {"released", "freed"} \/ terminated)

\* A cancel that found its goal makes the server publish that goal's result.
CancelEndsGoal ==
  \A w \in Workers :
    (wpc[w] = "executing" /\ cancel_flag[w]) ~> (w \in reported \/ terminated)

-----------------------------------------------------------------------------
(* The inductive invariant behind the safety properties.                   *)

\* Callback r created worker w and has not handed it to State::workers yet.
Admitting(r, w) == rpc[r] \in {"accepted", "spawned"} /\ rworker[r] = w

ReceiversInv ==
  \A r \in Receivers :
    /\ rpc[r] # "idle" => rgoal[r] \in Goals
    /\ rpc[r] = "accepted" => rworker[r] \in Workers /\ wpc[rworker[r]] = "reserved"
    /\ rpc[r] = "spawned" => /\ rworker[r] \in Workers
                             /\ wpc[rworker[r]] \notin {"unborn", "reserved"}
    /\ \A q \in Receivers, w \in Workers :
         Admitting(r, w) /\ Admitting(q, w) => r = q

WorkersInv ==
  \A w \in Workers :
    /\ wpc[w] # "unborn" => wgoal[w] \in Goals
    /\ wpc[w] \in {"unborn", "reserved"} => ~wself[w]
    /\ wpc[w] \in {"executing", "returned", "published"} => wself[w]
    /\ wpc[w] \in {"returned", "published"} => wstatus[w] \in Statuses
    /\ w \in reported => wpc[w] \in {"published", "finished"}
    /\ Live(w) => \/ w \in workers \cup joining
                  \/ \E r \in Receivers : Admitting(r, w)

EntriesInv ==
  \A g \in Goals, w \in Workers :
    active[g] = w => /\ wpc[w] # "unborn"
                     /\ wgoal[w] = g

OwnerInv ==
  /\ \A w \in workers \cup joining : wpc[w] \notin {"unborn", "reserved"}
  /\ shutting_down => phase \in {"stopping", "joining", "released", "freed"}
  /\ phase \in {"stopping", "joining"} => shutting_down
  /\ phase \in {"released", "freed"} => shutting_down \/ threw
  /\ phase \notin {"joining", "released", "freed"} => joining = {}
  /\ phase \in {"released", "freed"} => \A w \in joining : wpc[w] = "finished"
  /\ phase = "freed" /\ ~terminated => \A w \in Workers : ~Live(w)
  /\ phase = "freed" => \A r \in Receivers : rpc[r] = "idle"

ShutdownInv ==
  racing = {} /\ ~threw =>
    /\ ~terminated
    /\ shutting_down => \A r \in Receivers : rpc[r] = "idle"
    /\ phase \in {"joining", "released", "freed"} => workers = {}

IInv == /\ TypeOK /\ ReceiversInv /\ WorkersInv /\ EntriesInv /\ OwnerInv
        /\ ShutdownInv /\ CancelReachesWorker /\ NoLeakedEntry
        /\ JoinedAreCancelled
=============================================================================
