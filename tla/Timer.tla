-------------------------------- MODULE Timer --------------------------------
(***************************************************************************)
(* talos::Timer (include/talosos/timer.h): a thread that sleeps on a       *)
(* condition variable until its deadline or a cancel, application threads  *)
(* that call Cancel, the callback that may call it too, and the owner's    *)
(* destructor.  An action is one region of mu_, or one statement outside.  *)
(***************************************************************************)
CONSTANTS
  Callers,   \* application threads that may call Cancel
  Owner,     \* the thread that destroys the timer (or moves another onto it)
  TimerThread,   \* the timer's own thread, when its callback calls Cancel
  None

ASSUME TimerAssumption == /\ Owner \notin Callers
                          /\ {TimerThread, None} \cap (Callers \cup {Owner}) = {}
                          /\ TimerThread # None

VARIABLES
  oneshot,     \* oneshot_
  cancelled_,
  tpc,         \* the thread's code; "none": the constructor created no thread
  joined,      \* thread_ is not joinable any more
  cpc,         \* Cancel, on each thread that calls it
  phase,       \* of the Timer object
  terminated,  \* std::terminate ended the process
  canceller,   \* history: whose Cancel set the flag
  late         \* history: a callback was started with cancelled_ set

vars == <<oneshot, cancelled_, tpc, joined, cpc, phase, terminated, canceller, late>>

Threads == Callers \cup {Owner}
TPcs    == {"none", "checking", "asleep", "due", "in_cb", "ended"}
CPcs    == {"out", "flagged", "notified", "back"}
Inside(c) == cpc[c] \in {"flagged", "notified"}

\* No thread for a period that is not positive or an empty callback; a rate
\* that is not positive is cancelled by the constructor, too.
Init ==
  /\ oneshot \in BOOLEAN
  /\ \/ tpc = "none" /\ cancelled_ \in BOOLEAN
     \/ tpc = "checking" /\ cancelled_ = FALSE
  /\ joined = FALSE
  /\ cpc = [c \in Threads |-> "out"]
  /\ phase = "alive"
  /\ terminated = FALSE
  /\ canceller = None
  /\ late = FALSE

-----------------------------------------------------------------------------
(* Run, on the timer's thread.  wait_until looks at cancelled_ before it   *)
(* sleeps, after every notify, and once more when the deadline passes.     *)

Check ==
  /\ tpc = "checking"
  /\ tpc' = IF cancelled_ THEN "ended" ELSE "asleep"
  /\ UNCHANGED <<oneshot, cancelled_, joined, cpc, phase, terminated, canceller, late>>

Deadline ==
  /\ tpc = "asleep"
  /\ tpc' = IF cancelled_ THEN "ended" ELSE "due"
  /\ UNCHANGED <<oneshot, cancelled_, joined, cpc, phase, terminated, canceller, late>>

\* mu_ was released: a cancel can come between the check and the call.
StartCallback ==
  /\ tpc = "due"
  /\ tpc' = "in_cb"
  /\ late' = (late \/ cancelled_)
  /\ UNCHANGED <<oneshot, cancelled_, joined, cpc, phase, terminated, canceller>>

\* cb_ calls Cancel on its own timer: no join, it would wait for itself.
SelfCancel ==
  /\ tpc = "in_cb"
  /\ ~cancelled_
  /\ cancelled_' = TRUE
  /\ canceller' = TimerThread
  /\ UNCHANGED <<oneshot, tpc, joined, cpc, phase, terminated, late>>

\* Variant with a bug, for the properties to catch: a one-shot is armed again.
RunOn ==
  /\ tpc = "in_cb"
  /\ tpc' = "checking"
  /\ UNCHANGED <<oneshot, cancelled_, joined, cpc, phase, terminated, canceller, late>>

\* cb_ returns or throws, which Run catches.
CallbackReturns ==
  /\ tpc = "in_cb"
  /\ tpc' = IF oneshot THEN "ended" ELSE "checking"
  /\ UNCHANGED <<oneshot, cancelled_, joined, cpc, phase, terminated, canceller, late>>

TimerNext == Check \/ Deadline \/ StartCallback \/ SelfCancel \/ CallbackReturns

-----------------------------------------------------------------------------
(* Impl::Cancel on any other thread.                                       *)

\* A caller uses the timer while it exists; the owner's call is the one of
\* the destructor.
MayCall(c) == phase = (IF c = Owner THEN "destroying" ELSE "alive")

\* The lock region: whoever comes second returns at once.
EnterCancel(c) ==
  /\ MayCall(c)
  /\ cpc[c] \in {"out", "back"}
  /\ IF cancelled_
       THEN /\ cpc' = [cpc EXCEPT ![c] = "back"]
            /\ UNCHANGED <<cancelled_, canceller>>
       ELSE /\ cpc' = [cpc EXCEPT ![c] = "flagged"]
            /\ cancelled_' = TRUE
            /\ canceller' = c
  /\ UNCHANGED <<oneshot, tpc, joined, phase, terminated, late>>

\* Variants with a bug: the notification is missing ...
NotifyNobody(c) ==
  /\ cpc[c] = "flagged"
  /\ cpc' = [cpc EXCEPT ![c] = "notified"]
  /\ UNCHANGED <<oneshot, cancelled_, tpc, joined, phase, terminated, canceller, late>>

Notify(c) ==
  /\ cpc[c] = "flagged"
  /\ cpc' = [cpc EXCEPT ![c] = "notified"]
  /\ tpc' = IF tpc = "asleep" THEN "checking" ELSE tpc
  /\ UNCHANGED <<oneshot, cancelled_, joined, phase, terminated, canceller, late>>

\* ... or a detach takes the place of the join.
Detach(c) ==
  /\ cpc[c] = "notified"
  /\ joined' = (tpc # "none")
  /\ cpc' = [cpc EXCEPT ![c] = "back"]
  /\ UNCHANGED <<oneshot, cancelled_, tpc, phase, terminated, canceller, late>>

\* joinable() is false without a thread; otherwise join() waits for its end.
Join(c) ==
  /\ cpc[c] = "notified"
  /\ tpc \in {"none", "ended"}
  /\ joined' = (tpc = "ended")
  /\ cpc' = [cpc EXCEPT ![c] = "back"]
  /\ UNCHANGED <<oneshot, cancelled_, tpc, phase, terminated, canceller, late>>

\* ~Timer, or a move assignment: nobody else is inside a call of the timer.
BeginDestroy ==
  /\ phase = "alive"
  /\ \A c \in Callers : ~Inside(c)
  /\ phase' = "destroying"
  /\ UNCHANGED <<oneshot, cancelled_, tpc, joined, cpc, terminated, canceller, late>>

\* After the Cancel of ~Timer, the one of ~Impl returns at once; then thread_
\* is destroyed, and a joinable std::thread calls std::terminate.
Destroy ==
  /\ phase = "destroying"
  /\ cpc[Owner] = "back"
  /\ phase' = "destroyed"
  /\ terminated' = (tpc # "none" /\ ~joined)
  /\ UNCHANGED <<oneshot, cancelled_, tpc, joined, cpc, canceller, late>>

CallerNext == \/ \E c \in Threads : EnterCancel(c) \/ Notify(c) \/ Join(c)
              \/ BeginDestroy
              \/ Destroy

Next == ~terminated /\ (TimerNext \/ CallerNext)

\* Threads run and callbacks return; the deadline is left unfair, for a
\* period may be longer than anyone waits.
Fairness ==
  /\ WF_vars(~terminated /\ (Check \/ StartCallback))
  /\ WF_vars(~terminated /\ CallbackReturns)
  /\ \A c \in Threads : WF_vars(~terminated /\ (Notify(c) \/ Join(c)))

Spec     == Init /\ [][Next]_vars
FairSpec == Spec /\ Fairness

-----------------------------------------------------------------------------
(* Properties.                                                             *)

\* Every variable stays in its range (the members of Timer::Impl).
TypeOK ==
  /\ oneshot \in BOOLEAN /\ cancelled_ \in BOOLEAN /\ joined \in BOOLEAN
  /\ tpc \in TPcs
  /\ cpc \in [Threads -> CPcs]
  /\ phase \in {"alive", "destroying", "destroyed"}
  /\ terminated \in BOOLEAN /\ late \in BOOLEAN
  /\ canceller \in Threads \cup {None, TimerThread}

Stopped == tpc \in {"none", "ended"}

\* When the Cancel that set the flag has returned to another thread, the
\* timer's thread is over: what the callback uses may be destroyed.
CancelStopsThread ==
  canceller \in Threads => (cpc[canceller] = "back" => Stopped)

\* However a cancel races the deadline, the thread calls back at most once
\* after the flag was set (it had looked at the flag before).
AtMostOneLateCallback == [][late => ~(tpc = "due" /\ tpc' = "in_cb")]_vars

\* Destroying a timer ends its thread first and never ends the process,
\* unless the callback had cancelled the timer itself.
DestructorIsClean ==
  phase = "destroyed" /\ canceller # TimerThread => Stopped /\ ~terminated

\* The timer keeps the contract it shares with the one in Python: one
\* callback of a one-shot, at most one after a cancel, and none once a Cancel
\* that set the flag has returned or the destructor has come to its end.
Stage == CASE tpc = "in_cb" -> "calling"
           [] Stopped       -> "over"
           [] OTHER         -> "waiting"
Told  == {c \in Threads : canceller = c /\ cpc[c] = "back"}
Gone  == phase = "destroyed" /\ ~terminated

Contract == INSTANCE TimerContract WITH
  Cancellers <- Threads, once <- oneshot, stage <- Stage, cancelled <- cancelled_,
  told <- Told, gone <- Gone

ImplementsContract == Contract!Spec

\* A Cancel that found the timer running returns, also when the next
\* deadline never comes: the notification is not lost.
CancelReturns == \A c \in Threads : cpc[c] = "flagged" ~> cpc[c] = "back"

\* timer.h: the destructor cancels and joins, nothing leaks.
DestructorJoins == ~terminated

-----------------------------------------------------------------------------
(* The inductive invariant behind the safety properties.                   *)

CancelInv ==
  /\ \A c \in Threads : Inside(c) => cancelled_ /\ canceller = c
  /\ canceller # None => cancelled_
  /\ canceller \in Threads => cpc[canceller] # "out"
  /\ canceller \in Threads /\ cpc[canceller] = "back" /\ tpc # "none" => joined
  /\ cancelled_ /\ tpc # "none" => canceller # None
  /\ joined => tpc = "ended"

LateInv == late => cancelled_ /\ tpc \in {"in_cb", "checking", "ended"}

DestroyInv ==
  /\ phase # "alive" => \A c \in Callers : ~Inside(c)
  /\ cpc[Owner] = "back" => cancelled_
  /\ phase = "destroyed" => cpc[Owner] = "back"
  /\ terminated => phase = "destroyed" /\ canceller = TimerThread

IInv == TypeOK /\ CancelInv /\ LateInv /\ DestroyInv /\ CancelStopsThread
          /\ DestructorIsClean
=============================================================================
