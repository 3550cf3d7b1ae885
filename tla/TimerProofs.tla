----------------------------- MODULE TimerProofs -----------------------------
(***************************************************************************)
(* The timer of Timer.tla, for any number of threads that call Cancel: the *)
(* invariant IInv is inductive, and with it a returned Cancel has stopped  *)
(* the thread, the destructor is clean, and a cancel is followed by at     *)
(* most one callback.                                                      *)
(***************************************************************************)
EXTENDS Timer, TLAPS

\* A freshly constructed timer satisfies the invariant.
LEMMA InitIInv == Init => IInv
BY TimerAssumption DEF Init, IInv, TypeOK, CancelInv, LateInv, DestroyInv, CancelStopsThread,
   DestructorIsClean, Inside, Stopped, Threads, TPcs, CPcs

\* The timer's own thread: it ends only by itself, and starts a callback
\* after a cancel only from "due", which it leaves for good.
LEMMA TimerStep ==
  ASSUME IInv, ~terminated, TimerNext
  PROVE  IInv'
<1> USE TimerAssumption DEF IInv, TypeOK, CancelInv, LateInv, DestroyInv,
        CancelStopsThread, DestructorIsClean, Inside, Stopped, Threads, TPcs, CPcs
<1>1. CASE Check
  BY <1>1 DEF Check
<1>2. CASE Deadline
  BY <1>2 DEF Deadline
<1>3. CASE StartCallback
  BY <1>3 DEF StartCallback
<1>4. CASE SelfCancel
  BY <1>4 DEF SelfCancel
<1>5. CASE CallbackReturns
  BY <1>5 DEF CallbackReturns
<1> QED
  BY <1>1, <1>2, <1>3, <1>4, <1>5 DEF TimerNext

\* The lock region of Cancel: the first caller becomes the canceller.
LEMMA EnterCancelStep ==
  ASSUME IInv, NEW c \in Threads, EnterCancel(c)
  PROVE  IInv'
<1> USE TimerAssumption DEF IInv, TypeOK, CancelInv, LateInv, DestroyInv,
        CancelStopsThread, DestructorIsClean, Inside, Stopped, Threads, TPcs, CPcs,
        EnterCancel, MayCall
<1>1. CASE cancelled_
  BY <1>1
<1>2. CASE ~cancelled_
  BY <1>2
<1> QED
  BY <1>1, <1>2

\* notify_all and join: only the canceller gets here, and it leaves when the
\* thread has ended or never existed.
LEMMA NotifyJoinStep ==
  ASSUME IInv, NEW c \in Threads, Notify(c) \/ Join(c)
  PROVE  IInv'
<1> USE TimerAssumption DEF IInv, TypeOK, CancelInv, LateInv, DestroyInv,
        CancelStopsThread, DestructorIsClean, Inside, Stopped, Threads, TPcs, CPcs
<1>1. CASE Notify(c)
  BY <1>1 DEF Notify
<1>2. CASE Join(c)
  BY <1>2 DEF Join
<1> QED
  BY <1>1, <1>2

\* The destructor: its Cancel came back, so somebody's Cancel was the first.
LEMMA DestroyStep ==
  ASSUME IInv, BeginDestroy \/ Destroy
  PROVE  IInv'
<1> USE TimerAssumption DEF IInv, TypeOK, CancelInv, LateInv, DestroyInv,
        CancelStopsThread, DestructorIsClean, Inside, Stopped, Threads, TPcs, CPcs
<1>1. CASE BeginDestroy
  BY <1>1 DEF BeginDestroy
<1>2. CASE Destroy
  BY <1>2 DEF Destroy
<1> QED
  BY <1>1, <1>2

\* IInv is inductive.
LEMMA NextIInv == IInv /\ [Next]_vars => IInv'
<1> SUFFICES ASSUME IInv, [Next]_vars PROVE IInv'
  OBVIOUS
<1>1. CASE Next
  BY <1>1, TimerStep, EnterCancelStep, NotifyJoinStep, DestroyStep
  DEF Next, CallerNext
<1>2. CASE UNCHANGED vars
  BY <1>2 DEF vars, IInv, TypeOK, CancelInv, LateInv, DestroyInv,
     CancelStopsThread, DestructorIsClean, Inside, Stopped
<1> QED
  BY <1>1, <1>2

\* IInv holds in every state of the timer.
THEOREM TimerInvariance == Spec => []IInv
BY InitIInv, NextIInv, PTL DEF Spec

\* The members of Timer::Impl stay in their ranges.
THEOREM TimerTypeCorrect == Spec => []TypeOK
<1>1. IInv => TypeOK
  BY DEF IInv
<1> QED
  BY <1>1, TimerInvariance, PTL

\* However many threads cancel, the one that was first returns to find the
\* timer's thread over.
THEOREM FirstCancelStops == Spec => []CancelStopsThread
<1>1. IInv => CancelStopsThread
  BY DEF IInv
<1> QED
  BY <1>1, TimerInvariance, PTL

\* A timer whose callback does not cancel it is destroyed with its thread
\* ended and without std::terminate.
THEOREM DestructionIsClean == Spec => []DestructorIsClean
<1>1. IInv => DestructorIsClean
  BY DEF IInv
<1> QED
  BY <1>1, TimerInvariance, PTL

\* At most one callback is started after the flag was set.
THEOREM OneLateCallback == Spec => AtMostOneLateCallback
<1>1. IInv => [late => ~(tpc = "due" /\ tpc' = "in_cb")]_vars
  BY DEF IInv, LateInv
<1> QED
  BY <1>1, TimerInvariance, PTL DEF AtMostOneLateCallback

-----------------------------------------------------------------------------
(* The timer keeps TimerContract.                                          *)

\* A new timer is one of the contract.
LEMMA ContractInit == Init => Contract!Init
BY TimerAssumption DEF Init, Contract!Init, Stage, Told, Gone, Stopped, Threads

\* The timer's thread: a wake-up is nothing to the contract, nor a deadline
\* that comes before a cancel.
LEMMA ContractTimer ==
  ASSUME IInv, ~terminated, TimerNext
  PROVE  Contract!Next \/ UNCHANGED Contract!vars
<1> USE DEF IInv, TypeOK, TPcs, Stage, Stopped, Gone, Told, Contract!vars
<1>1. CASE Check \/ Deadline
  <2>1. CASE cancelled_
    BY <1>1, <2>1 DEF Check, Deadline, Contract!Next, Contract!Heed
  <2>2. CASE ~cancelled_
    BY <1>1, <2>2 DEF Check, Deadline
  <2> QED BY <2>1, <2>2
<1>2. CASE StartCallback
  <2>1. ~late /\ late' = cancelled_
    BY <1>2, Zenon DEF StartCallback, LateInv
  <2> QED BY <1>2, <2>1 DEF StartCallback, Contract!Next, Contract!Call
<1>3. CASE SelfCancel
  <2>1. Told' = Told
    BY <1>3, TimerAssumption DEF SelfCancel, CancelInv, Threads
  <2> QED BY <1>3, <2>1 DEF SelfCancel, Contract!Next, Contract!CancelInside
<1>4. CASE CallbackReturns
  BY <1>4 DEF CallbackReturns, Contract!Next, Contract!Return
<1> QED BY <1>1, <1>2, <1>3, <1>4 DEF TimerNext

\* Cancel: the first tells the contract, its return that the thread is over.
LEMMA ContractCancel ==
  ASSUME IInv, NEW c \in Threads, EnterCancel(c) \/ Notify(c) \/ Join(c)
  PROVE  Contract!Next \/ UNCHANGED Contract!vars
<1> USE TimerAssumption DEF IInv, TypeOK, CancelInv, TPcs, CPcs, Inside, Stage, Stopped,
        Gone, Told, Contract!vars
<1>1. CASE EnterCancel(c) /\ cancelled_
  BY <1>1 DEF EnterCancel
<1>2. CASE EnterCancel(c) /\ ~cancelled_
  <2>1. Told = {} /\ Told' = {}
    BY <1>2 DEF EnterCancel, Threads
  <2> QED BY <1>2, <2>1 DEF EnterCancel, Contract!Next, Contract!Cancel
<1>3. CASE Notify(c)
  BY <1>3 DEF Notify
<1>4. CASE Join(c)
  <2>1. cancelled_ /\ canceller = c /\ Told = {} /\ Told' = {c}
    BY <1>4 DEF Join
  <2> QED BY <1>4, <2>1 DEF Join, Contract!Next, Contract!Tell
<1> QED BY <1>1, <1>2, <1>3, <1>4

\* The destructor: either the thread was joined, or the process ends.
LEMMA ContractDestroy ==
  ASSUME IInv, ~terminated, BeginDestroy \/ Destroy
  PROVE  Contract!Next \/ UNCHANGED Contract!vars
<1> USE DEF IInv, TypeOK, CancelInv, Stage, Stopped, Gone, Told, Contract!vars
<1>1. CASE BeginDestroy
  BY <1>1 DEF BeginDestroy
<1>2. CASE Destroy
  <2>1. CASE terminated'
    BY <1>2, <2>1 DEF Destroy
  <2>2. CASE ~terminated'
    BY <1>2, <2>2 DEF Destroy, Contract!Next, Contract!Destroy
  <2> QED BY <2>1, <2>2
<1> QED BY <1>1, <1>2

\* Every behaviour of the timer is one the contract allows: a one-shot calls
\* back once, a cancelled timer once more at most, and one whose Cancel has
\* returned, or that was destroyed, never again.
THEOREM TimerKeepsContract == Spec => ImplementsContract
<1>1. IInv /\ [Next]_vars => [Contract!Next]_(Contract!vars)
  <2> SUFFICES ASSUME IInv, [Next]_vars
               PROVE  Contract!Next \/ UNCHANGED Contract!vars
    OBVIOUS
  <2>1. CASE Next
    BY <2>1, ContractTimer, ContractCancel, ContractDestroy DEF Next, CallerNext
  <2>2. CASE UNCHANGED vars
    BY <2>2 DEF vars, Contract!vars, Stage, Stopped, Gone, Told
  <2> QED BY <2>1, <2>2
<1> QED BY <1>1, ContractInit, TimerInvariance, PTL
        DEF Spec, ImplementsContract, Contract!Spec

-----------------------------------------------------------------------------
(* A Cancel that set the flag returns.  Unblocked is Fairness with every   *)
(* ENABLED written out: whoever could go on for ever goes on, and only     *)
(* wait_until and join() block.                                            *)

RunGoesOn == tpc \in {"checking", "due"} /\ ~terminated
CancelGoesOn(c) == /\ ~terminated
                   /\ cpc[c] = "flagged" \/ (cpc[c] = "notified" /\ tpc \in {"none", "ended"})

Runs == []<>~RunGoesOn \/ []<><<Check \/ StartCallback>>_vars
CallbacksReturn == []<>~(tpc = "in_cb" /\ ~terminated) \/ []<><<CallbackReturns>>_vars
Proceeds(c) == []<>~CancelGoesOn(c) \/ []<><<Notify(c) \/ Join(c)>>_vars

Unblocked == Runs /\ CallbacksReturn /\ \A c \in Threads : Proceeds(c)

\* The thread sleeps with the flag set only while whoever set it has not notified.
NoLostWakeup ==
  cancelled_ /\ tpc = "asleep" => canceller \in Threads /\ cpc[canceller] = "flagged"

Flagged(c) == cpc[c] = "flagged"
Joining(c) == cpc[c] = "notified"
Back(c)    == cpc[c] = "back"

LEMMA NextNoLostWakeup == IInv /\ NoLostWakeup /\ [Next]_vars => NoLostWakeup'
<1> SUFFICES ASSUME IInv, NoLostWakeup, [Next]_vars PROVE NoLostWakeup'
  OBVIOUS
<1> USE TimerAssumption DEF IInv, TypeOK, CancelInv, NoLostWakeup, Inside, Threads, TPcs, CPcs
<1>1. CASE TimerNext
  BY <1>1 DEF TimerNext, Check, Deadline, StartCallback, SelfCancel, CallbackReturns
<1>2. ASSUME NEW c \in Threads, EnterCancel(c) \/ Notify(c) \/ Join(c) PROVE NoLostWakeup'
  <2>1. CASE EnterCancel(c)
    <3>1. CASE cancelled_
      <4>1. cpc[c] # "flagged" /\ cpc' = [cpc EXCEPT ![c] = "back"]
            /\ UNCHANGED <<cancelled_, canceller, tpc>>
        BY <2>1, <3>1 DEF EnterCancel
      <4> QED BY <4>1
    <3>2. CASE ~cancelled_
      <4>1. cpc' = [cpc EXCEPT ![c] = "flagged"] /\ canceller' = c
        BY <2>1, <3>2 DEF EnterCancel
      <4> QED BY <4>1
    <3> QED BY <3>1, <3>2
  <2>2. CASE Notify(c)
    BY <2>2 DEF Notify
  <2>3. CASE Join(c)
    BY <2>3 DEF Join
  <2> QED BY <1>2, <2>1, <2>2, <2>3
<1>3. CASE BeginDestroy \/ Destroy
  BY <1>3 DEF BeginDestroy, Destroy
<1>4. CASE UNCHANGED vars
  BY <1>4 DEF vars
<1> QED BY <1>1, <1>2, <1>3, <1>4 DEF Next, CallerNext

\* notify_all is not lost: the timer's thread never sleeps on when a Cancel joins it.
THEOREM WakeupNotLost == Spec => []NoLostWakeup
<1>1. Init => NoLostWakeup
  BY DEF Init, NoLostWakeup
<1> QED BY <1>1, NextNoLostWakeup, TimerInvariance, PTL DEF Spec

\* What the other threads leave of a thread that is inside Cancel.
LEMMA CancelStep ==
  ASSUME IInv, NoLostWakeup, [Next]_vars, NEW c \in Threads
  PROVE  /\ Flagged(c) => Flagged(c)' \/ Joining(c)'
         /\ Joining(c) => Joining(c)' \/ Back(c)'
         /\ Inside(c) => ~terminated /\ cancelled_
<1> USE TimerAssumption DEF IInv, TypeOK, CancelInv, DestroyInv, Inside, Threads, CPcs,
        Flagged, Joining, Back
<1>1. Inside(c) => ~terminated /\ cancelled_
  OBVIOUS
<1>2. CASE TimerNext
  BY <1>1, <1>2 DEF TimerNext, Check, Deadline, StartCallback, SelfCancel, CallbackReturns
<1>3. ASSUME NEW d \in Threads, EnterCancel(d) \/ Notify(d) \/ Join(d)
      PROVE  /\ Flagged(c) => Flagged(c)' \/ Joining(c)'
             /\ Joining(c) => Joining(c)' \/ Back(c)'
  BY <1>3 DEF EnterCancel, Notify, Join
<1>4. CASE BeginDestroy \/ Destroy
  BY <1>1, <1>4 DEF BeginDestroy, Destroy
<1>5. CASE UNCHANGED vars
  BY <1>1, <1>5 DEF vars
<1> QED BY <1>1, <1>2, <1>3, <1>4, <1>5 DEF Next, CallerNext

\* The thread's way out: once the flag is set it leads from anywhere but the sleep
\* to the end, through at most one callback.
LEMMA WayOut ==
  ASSUME IInv, NoLostWakeup, [Next]_vars, NEW c \in Threads, Joining(c)
  PROVE  /\ tpc \in {"none", "checking", "due", "in_cb", "ended"}
         /\ Stopped => Stopped'
         /\ tpc = "checking" => tpc' \in {"checking", "ended"}
         /\ tpc = "in_cb" => tpc' \in {"in_cb", "checking", "ended"}
         /\ tpc = "due" => tpc' \in {"due", "in_cb"}
<1> USE TimerAssumption DEF IInv, TypeOK, CancelInv, NoLostWakeup, Inside, Threads, TPcs, CPcs,
        Joining, Stopped
<1>1. cancelled_ /\ canceller = c /\ tpc \in {"none", "checking", "due", "in_cb", "ended"}
  OBVIOUS
<1>2. CASE TimerNext
  BY <1>1, <1>2 DEF TimerNext, Check, Deadline, StartCallback, SelfCancel, CallbackReturns
<1>3. ASSUME NEW d \in Threads, EnterCancel(d) \/ Notify(d) \/ Join(d)
      PROVE  tpc' = tpc
  BY <1>1, <1>3 DEF EnterCancel, Notify, Join
<1>4. CASE BeginDestroy \/ Destroy
  BY <1>1, <1>4 DEF BeginDestroy, Destroy
<1>5. CASE UNCHANGED vars
  BY <1>1, <1>5 DEF vars
<1> QED BY <1>1, <1>2, <1>3, <1>4, <1>5 DEF Next, CallerNext

\* A Cancel that found the timer running returns, whether or not another deadline ever
\* comes: its notification wakes the thread, which is at most in one more callback.
THEOREM CancelsReturn == Spec /\ Unblocked => CancelReturns
<1> SUFFICES ASSUME NEW c \in Threads
             PROVE  Spec /\ Unblocked => (Flagged(c) ~> Back(c))
  BY DEF CancelReturns, Flagged, Back
<1> DEFINE Inv == IInv /\ NoLostWakeup
           Due == Joining(c) /\ tpc = "due"
           Calling == Joining(c) /\ tpc = "in_cb"
           Checking == Joining(c) /\ tpc = "checking"
           Over == Joining(c) /\ Stopped
<1>1. Spec => []Inv
  BY TimerInvariance, WakeupNotLost, PTL
<1>2. Unblocked => Runs /\ CallbacksReturn /\ Proceeds(c)
  BY DEF Unblocked
<1>3. Spec /\ Proceeds(c) => (Flagged(c) ~> Joining(c))
  <2>1. Inv /\ Flagged(c) /\ [Next]_vars => Flagged(c)' \/ Joining(c)'
    BY CancelStep
  <2>2. Inv /\ Flagged(c) /\ <<Notify(c) \/ Join(c)>>_vars => Joining(c)'
    BY DEF IInv, TypeOK, Flagged, Joining, Notify, Join
  <2>3. Inv /\ Flagged(c) => CancelGoesOn(c)
    BY DEF IInv, CancelInv, DestroyInv, Flagged, CancelGoesOn, Inside, Threads
  <2> QED BY <1>1, <2>1, <2>2, <2>3, PTL DEF Spec, Proceeds
<1>4. Inv /\ Joining(c) => Due \/ Calling \/ Checking \/ Over
  BY DEF IInv, TypeOK, CancelInv, NoLostWakeup, Inside, Joining, Stopped, TPcs, Threads
<1>5. Inv /\ Joining(c) => ~terminated /\ cancelled_
  BY DEF IInv, CancelInv, DestroyInv, Inside, Joining, Threads
<1>6. Spec /\ Runs => (Due ~> Calling \/ Back(c))
  <2>1. Inv /\ Due /\ [Next]_vars => Due' \/ Calling' \/ Back(c)'
    BY CancelStep, WayOut
  <2>2. Inv /\ Due /\ [Next]_vars /\ <<Check \/ StartCallback>>_vars => Calling' \/ Back(c)'
    BY CancelStep DEF Check, StartCallback
  <2>3. Inv /\ Due => RunGoesOn
    BY <1>5 DEF RunGoesOn
  <2> QED BY <1>1, <2>1, <2>2, <2>3, PTL DEF Spec, Runs
<1>7. Spec /\ CallbacksReturn => (Calling ~> Checking \/ Over \/ Back(c))
  <2>1. Inv /\ Calling /\ [Next]_vars => Calling' \/ Checking' \/ Over' \/ Back(c)'
    BY CancelStep, WayOut DEF Stopped
  <2>2. Inv /\ Calling /\ [Next]_vars /\ <<CallbackReturns>>_vars
          => Checking' \/ Over' \/ Back(c)'
    BY CancelStep DEF CallbackReturns, Stopped
  <2>3. Inv /\ Calling => tpc = "in_cb" /\ ~terminated
    BY <1>5
  <2> QED BY <1>1, <2>1, <2>2, <2>3, PTL DEF Spec, CallbacksReturn
<1>8. Spec /\ Runs => (Checking ~> Over \/ Back(c))
  <2>1. Inv /\ Checking /\ [Next]_vars => Checking' \/ Over' \/ Back(c)'
    BY CancelStep, WayOut DEF Stopped
  <2>2. Inv /\ Checking /\ [Next]_vars /\ <<Check \/ StartCallback>>_vars => Over' \/ Back(c)'
    BY <1>5, CancelStep DEF Check, StartCallback, Stopped
  <2>3. Inv /\ Checking => RunGoesOn
    BY <1>5 DEF RunGoesOn
  <2> QED BY <1>1, <2>1, <2>2, <2>3, PTL DEF Spec, Runs
<1>9. Spec /\ Proceeds(c) => (Over ~> Back(c))
  <2>1. Inv /\ Over /\ [Next]_vars => Over' \/ Back(c)'
    BY CancelStep, WayOut
  <2>2. Inv /\ Over /\ <<Notify(c) \/ Join(c)>>_vars => Back(c)'
    BY DEF IInv, TypeOK, Joining, Back, Notify, Join
  <2>3. Inv /\ Over => CancelGoesOn(c)
    BY <1>5 DEF CancelGoesOn, Joining, Stopped
  <2> QED BY <1>1, <2>1, <2>2, <2>3, PTL DEF Spec, Proceeds
<1>10. Spec => [](Joining(c) => Due \/ Calling \/ Checking \/ Over)
  BY <1>1, <1>4, PTL
<1> QED BY <1>2, <1>3, <1>6, <1>7, <1>8, <1>9, <1>10, PTL
=============================================================================
