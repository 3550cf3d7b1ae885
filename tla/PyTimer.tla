-------------------------------- MODULE PyTimer --------------------------------
(***************************************************************************)
(* talosos.runtime.Timer (python/talosos/runtime.py): a daemon thread that *)
(* waits on an Event, application threads that cancel, the callback that   *)
(* may cancel too, and the application's last reference, whose loss should *)
(* stop the timer.  The interpreter lock makes each step atomic.           *)
(***************************************************************************)
CONSTANTS
  Callers,       \* application threads that may call cancel
  Collector      \* the thread that runs __del__

ASSUME PyTimerAssumption == Collector \notin Callers

VARIABLES
  oneshot,     \* _oneshot
  stop,        \* the Event _stop
  tpc,         \* _run; "none": no thread was created
  referenced,  \* the application still has a reference
  deleted,     \* __del__ was called
  cpc,         \* cancel, on each thread that calls it
  selfset,     \* history: the callback cancelled its own timer
  late         \* history: a callback was started with stop set

vars == <<oneshot, stop, tpc, referenced, deleted, cpc, selfset, late>>

Cancellers == Callers \cup {Collector}
TPcs == {"none", "checking", "waiting", "due", "in_cb", "ended"}
CPcs == {"out", "set", "joining", "joined", "timed_out"}
Running == tpc \notin {"none", "ended"}

\* The thread's bound method keeps the Timer alive; so does a call of cancel.
Garbage == ~referenced /\ ~Running /\ \A c \in Callers : cpc[c] \notin {"set", "joining"}

\* No thread for a period that is not positive or a callback that is none.
Init ==
  /\ oneshot \in BOOLEAN
  /\ \/ tpc = "none" /\ stop = TRUE
     \/ tpc = "checking" /\ stop = FALSE
  /\ referenced = TRUE /\ deleted = FALSE
  /\ cpc = [c \in Cancellers |-> "out"]
  /\ selfset = FALSE /\ late = FALSE

-----------------------------------------------------------------------------
(* _run, on the timer's thread.                                            *)

\* Variant with a bug, for the properties to catch: a late thread does not
\* look at the Event.
CheckUnlessLate ==
  /\ tpc = "checking"
  /\ \/ tpc' = "due"
     \/ tpc' = IF stop THEN "ended" ELSE "waiting"
  /\ UNCHANGED <<oneshot, stop, referenced, deleted, cpc, selfset, late>>

\* while not self._stop.is_set(); a thread behind its schedule does not wait.
Check ==
  /\ tpc = "checking"
  /\ tpc' \in IF stop THEN {"ended"} ELSE {"waiting", "due"}
  /\ UNCHANGED <<oneshot, stop, referenced, deleted, cpc, selfset, late>>

\* Variant with a bug: a sleep in place of the wait.
SleepOn ==
  /\ tpc = "waiting"
  /\ ~stop
  /\ tpc' = "due"
  /\ UNCHANGED <<oneshot, stop, referenced, deleted, cpc, selfset, late>>

\* _stop.wait(timeout) returns at a set, or at the deadline.
WaitReturns ==
  /\ tpc = "waiting"
  /\ tpc' = IF stop THEN "ended" ELSE "due"
  /\ UNCHANGED <<oneshot, stop, referenced, deleted, cpc, selfset, late>>

StartCallback ==
  /\ tpc = "due"
  /\ tpc' = "in_cb"
  /\ late' = (late \/ stop)
  /\ UNCHANGED <<oneshot, stop, referenced, deleted, cpc, selfset>>

\* cancel inside the callback: current_thread() is not joined.
SelfCancel ==
  /\ tpc = "in_cb"
  /\ stop' = TRUE
  /\ selfset' = TRUE
  /\ UNCHANGED <<oneshot, tpc, referenced, deleted, cpc, late>>

\* It returns, raises an Exception, which is printed, or a BaseException such
\* as SystemExit, which ends the thread.
CallbackReturns ==
  /\ tpc = "in_cb"
  /\ tpc' \in IF oneshot THEN {"ended"} ELSE {"checking", "ended"}
  /\ UNCHANGED <<oneshot, stop, referenced, deleted, cpc, selfset, late>>

TimerNext == Check \/ WaitReturns \/ StartCallback \/ SelfCancel \/ CallbackReturns

-----------------------------------------------------------------------------
(* cancel on any other thread, and the end of the object.                  *)

MayCancel(c) == IF c = Collector THEN deleted ELSE referenced

\* Variant with a bug: the thread's end is waited for, but never asked for.
JoinOnly(c) ==
  /\ MayCancel(c)
  /\ cpc[c] \in {"out", "joined", "timed_out"}
  /\ cpc' = [cpc EXCEPT ![c] = "set"]
  /\ UNCHANGED <<oneshot, stop, tpc, referenced, deleted, selfset, late>>

\* _stop.set().
Set(c) ==
  /\ MayCancel(c)
  /\ cpc[c] \in {"out", "joined", "timed_out"}
  /\ stop' = TRUE
  /\ cpc' = [cpc EXCEPT ![c] = "set"]
  /\ UNCHANGED <<oneshot, tpc, referenced, deleted, selfset, late>>

\* A thread that is alive is joined ...
LookAlive(c) ==
  /\ cpc[c] = "set"
  /\ cpc' = [cpc EXCEPT ![c] = IF Running THEN "joining" ELSE "joined"]
  /\ UNCHANGED <<oneshot, stop, tpc, referenced, deleted, selfset, late>>

Joined(c) ==
  /\ cpc[c] = "joining"
  /\ ~Running
  /\ cpc' = [cpc EXCEPT ![c] = "joined"]
  /\ UNCHANGED <<oneshot, stop, tpc, referenced, deleted, selfset, late>>

\* ... for at most a second.
JoinTimesOut(c) ==
  /\ cpc[c] = "joining"
  /\ Running
  /\ cpc' = [cpc EXCEPT ![c] = "timed_out"]
  /\ UNCHANGED <<oneshot, stop, tpc, referenced, deleted, selfset, late>>

\* The application loses its last reference.
Drop ==
  /\ referenced
  /\ referenced' = FALSE
  /\ UNCHANGED <<oneshot, stop, tpc, deleted, cpc, selfset, late>>

\* The reference count is zero: __del__, which calls cancel.
Delete ==
  /\ Garbage /\ ~deleted
  /\ deleted' = TRUE
  /\ UNCHANGED <<oneshot, stop, tpc, referenced, cpc, selfset, late>>

CallerNext == \/ \E c \in Cancellers : \/ Set(c) \/ LookAlive(c)
                                       \/ Joined(c) \/ JoinTimesOut(c)
              \/ Drop \/ Delete

Next == TimerNext \/ CallerNext

\* Threads run, callbacks return, the Event wakes the thread when it is set
\* (the deadline alone is left unfair), and a join that ended returns.
Fairness ==
  /\ WF_vars(Check \/ StartCallback \/ CallbackReturns \/ (stop /\ WaitReturns))
  /\ \A c \in Cancellers : WF_vars(LookAlive(c) \/ Joined(c))

\* For the claim about the garbage collector, everything is fair.
AllFair == /\ Fairness
           /\ WF_vars(WaitReturns) /\ WF_vars(Delete) /\ WF_vars(Set(Collector))

Spec          == Init /\ [][Next]_vars
FairSpec      == Spec /\ Fairness
CollectedSpec == Spec /\ AllFair

-----------------------------------------------------------------------------
(* Properties.                                                             *)

\* Every variable stays in its range (the attributes of Timer).
TypeOK ==
  /\ oneshot \in BOOLEAN /\ stop \in BOOLEAN
  /\ referenced \in BOOLEAN /\ deleted \in BOOLEAN
  /\ selfset \in BOOLEAN /\ late \in BOOLEAN
  /\ tpc \in TPcs
  /\ cpc \in [Cancellers -> CPcs]

\* A cancel stops the thread, also when its join gave up after a second: no
\* look at the Event is missed, however far behind its schedule the thread is.
CancelStops == stop ~> ~Running

\* After a cancel the thread calls back at most once, and never after a
\* cancel whose join succeeded.
AtMostOneLateCallback == [][late => ~(tpc = "due" /\ tpc' = "in_cb")]_vars

\* A cancel that returned before its second was over leaves no thread that
\* runs; and __del__ meets none: it never joins, nor is it cut short.
JoinedIsStopped == /\ \A c \in Cancellers : cpc[c] = "joined" => ~Running
                   /\ deleted => ~Running

\* The timer keeps the contract it shares with the one in C++: one callback
\* of a one-shot, at most one after a cancel, and none once a cancel has
\* joined the thread or the object was collected.
Stage == CASE tpc = "in_cb" -> "calling"
           [] ~Running      -> "over"
           [] OTHER         -> "waiting"
Told  == {c \in Cancellers : cpc[c] = "joined"}

Contract == INSTANCE TimerContract WITH
  once <- oneshot, stage <- Stage, cancelled <- stop, told <- Told, gone <- deleted

ImplementsContract == Contract!Spec

\* runtime.py: a timer that is lost to its owner stops when it is collected.
DroppedTimerStops == ~referenced ~> ~Running

-----------------------------------------------------------------------------
(* The inductive invariant behind the safety properties.                   *)

StopInv == /\ \A c \in Cancellers : cpc[c] # "out" => stop
           /\ late => stop /\ tpc \in {"in_cb", "checking", "ended"}
           /\ selfset => stop
           /\ tpc = "none" => stop
           /\ deleted => ~referenced

IInv == TypeOK /\ StopInv /\ JoinedIsStopped
=============================================================================
