----------------------------- MODULE PyTimerProofs -----------------------------
(* Theorems about PyTimer, for any number of threads that cancel.          *)
EXTENDS PyTimer, TLAPS

LEMMA InitOK == Init => IInv
  BY DEF Init, IInv, TypeOK, StopInv, JoinedIsStopped, TPcs, CPcs, Running, Cancellers

\* The steps of the timer's thread.  Once stop is set, only a thread that is
\* past its look at the Event starts a callback, and it looks again next.
LEMMA TimerSteps == ASSUME IInv, TimerNext PROVE IInv'
<1> USE DEF IInv, TypeOK, StopInv, JoinedIsStopped, TPcs, Running
<1>1. CASE Check
  BY <1>1 DEF Check
<1>2. CASE WaitReturns
  BY <1>2 DEF WaitReturns
<1>3. CASE StartCallback
  BY <1>3 DEF StartCallback
<1>4. CASE SelfCancel
  BY <1>4 DEF SelfCancel
<1>5. CASE CallbackReturns
  BY <1>5 DEF CallbackReturns
<1> QED BY <1>1, <1>2, <1>3, <1>4, <1>5 DEF TimerNext

\* The steps of cancel: a join is over when the thread is, and a thread that
\* ended never runs again.
LEMMA CancelSteps ==
  ASSUME IInv, NEW c \in Cancellers,
         Set(c) \/ LookAlive(c) \/ Joined(c) \/ JoinTimesOut(c)
  PROVE  IInv'
<1> USE DEF IInv, TypeOK, StopInv, JoinedIsStopped, CPcs, Running
<1>1. CASE Set(c)
  BY <1>1 DEF Set, MayCancel
<1>2. CASE LookAlive(c)
  BY <1>2 DEF LookAlive
<1>3. CASE Joined(c)
  BY <1>3 DEF Joined
<1>4. CASE JoinTimesOut(c)
  BY <1>4 DEF JoinTimesOut
<1> QED BY <1>1, <1>2, <1>3, <1>4

LEMMA NextOK == IInv /\ [Next]_vars => IInv'
<1> SUFFICES ASSUME IInv, [Next]_vars PROVE IInv'
  OBVIOUS
<1>1. CASE TimerNext
  BY <1>1, TimerSteps
<1>2. CASE \E c \in Cancellers : Set(c) \/ LookAlive(c) \/ Joined(c) \/ JoinTimesOut(c)
  BY <1>2, CancelSteps
<1>3. CASE Drop
  BY <1>3 DEF Drop, IInv, TypeOK, StopInv, JoinedIsStopped, Running
<1>4. CASE Delete
  BY <1>4 DEF Delete, Garbage, IInv, TypeOK, StopInv, JoinedIsStopped, Running
<1>5. CASE UNCHANGED vars
  BY <1>5 DEF vars, IInv, TypeOK, StopInv, JoinedIsStopped, Running
<1> QED BY <1>1, <1>2, <1>3, <1>4, <1>5 DEF Next, CallerNext

\* The inductive invariant of the Python timer holds in every state.
THEOREM PyTimerInvariance == Spec => []IInv
  BY InitOK, NextOK, PTL DEF Spec

\* A cancel that returned in time leaves no running thread, and __del__ never
\* finds one.
THEOREM JoinMeansStopped == Spec => []JoinedIsStopped
<1>1. IInv => JoinedIsStopped
  BY DEF IInv
<1> QED BY <1>1, PyTimerInvariance, PTL

\* After a cancel at most one more callback starts.
THEOREM LateCallbackIsLast == Spec => AtMostOneLateCallback
<1>1. IInv => (late => ~(tpc = "due" /\ tpc' = "in_cb"))
  BY DEF IInv, StopInv
<1>2. Spec => [][late => ~(tpc = "due" /\ tpc' = "in_cb")]_vars
  BY <1>1, PyTimerInvariance, PTL
<1> QED BY <1>2 DEF AtMostOneLateCallback

-----------------------------------------------------------------------------
(* The timer keeps TimerContract.                                          *)

\* A new timer is one of the contract.
LEMMA ContractInit == Init => Contract!Init
  BY DEF Init, Contract!Init, Stage, Told, Running

\* The timer's thread: coming late, it may go on without a wait.
LEMMA ContractTimer ==
  ASSUME IInv, TimerNext
  PROVE  Contract!Next \/ UNCHANGED Contract!vars
<1> USE DEF IInv, TypeOK, TPcs, Stage, Running, Told, Contract!vars
<1>1. CASE Check \/ WaitReturns
  <2>1. CASE stop
    BY <1>1, <2>1 DEF Check, WaitReturns, Contract!Next, Contract!Heed
  <2>2. CASE ~stop
    BY <1>1, <2>2 DEF Check, WaitReturns
  <2> QED BY <2>1, <2>2
<1>2. CASE StartCallback
  <2>1. ~late /\ late' = stop
    BY <1>2, Zenon DEF StartCallback, StopInv
  <2> QED BY <1>2, <2>1 DEF StartCallback, Contract!Next, Contract!Call
<1>3. CASE SelfCancel
  BY <1>3 DEF SelfCancel, Contract!Next, Contract!CancelInside
<1>4. CASE CallbackReturns
  BY <1>4 DEF CallbackReturns, Contract!Next, Contract!Return
<1> QED BY <1>1, <1>2, <1>3, <1>4 DEF TimerNext

\* cancel: only a join that ended tells its caller that the thread is over.
LEMMA ContractCancel ==
  ASSUME IInv, NEW c \in Cancellers,
         Set(c) \/ LookAlive(c) \/ Joined(c) \/ JoinTimesOut(c)
  PROVE  Contract!Next \/ UNCHANGED Contract!vars
<1> USE DEF IInv, TypeOK, TPcs, CPcs, StopInv, Stage, Running, Contract!vars
<1>1. CASE Set(c)
  <2>1. Told' = Told \ {c}
    BY <1>1 DEF Set, Told
  <2> QED BY <1>1, <2>1 DEF Set, Contract!Next, Contract!Cancel
<1>2. CASE (LookAlive(c) /\ ~Running) \/ Joined(c)
  <2>1. Told' = Told \cup {c}
    BY <1>2 DEF LookAlive, Joined, Told
  <2> QED BY <1>2, <2>1 DEF LookAlive, Joined, Contract!Next, Contract!Tell
<1>3. CASE (LookAlive(c) /\ Running) \/ JoinTimesOut(c)
  <2>1. Told' = Told
    BY <1>3 DEF LookAlive, JoinTimesOut, Told
  <2> QED BY <1>3, <2>1 DEF LookAlive, JoinTimesOut
<1> QED BY <1>1, <1>2, <1>3

\* Every behaviour of the timer is one the contract allows: a one-shot calls
\* back once, a cancelled timer once more at most, and one whose cancel has
\* joined the thread, or that was collected, never again.
THEOREM PyTimerKeepsContract == Spec => ImplementsContract
<1>1. IInv /\ [Next]_vars => [Contract!Next]_(Contract!vars)
  <2> SUFFICES ASSUME IInv, [Next]_vars
               PROVE  Contract!Next \/ UNCHANGED Contract!vars
    OBVIOUS
  <2>1. CASE TimerNext
    BY <2>1, ContractTimer
  <2>2. CASE \E c \in Cancellers : Set(c) \/ LookAlive(c) \/ Joined(c) \/ JoinTimesOut(c)
    BY <2>2, ContractCancel
  <2>3. CASE Drop \/ Delete
    BY <2>3 DEF Drop, Delete, Garbage, Stage, Running, Told, IInv, TypeOK, TPcs,
       Contract!vars, Contract!Next, Contract!Destroy
  <2>4. CASE UNCHANGED vars
    BY <2>4 DEF vars, Contract!vars, Stage, Running, Told
  <2> QED BY <2>1, <2>2, <2>3, <2>4 DEF Next, CallerNext
<1> QED BY <1>1, ContractInit, PyTimerInvariance, PTL
        DEF Spec, ImplementsContract, Contract!Spec

-----------------------------------------------------------------------------
(* A cancel stops the thread.  Unblocked is what Fairness says of the      *)
(* timer's thread, with ENABLED written out: only the wait blocks it, and  *)
(* not once the Event is set.                                              *)

GoesOn == tpc \in {"checking", "due", "in_cb"} \/ (stop /\ tpc = "waiting")
Unblocked ==
  []<>~GoesOn \/
  []<><<Check \/ StartCallback \/ CallbackReturns \/ (stop /\ WaitReturns)>>_vars

Waking == stop /\ tpc = "waiting"
Due == stop /\ tpc = "due"
Calling == stop /\ tpc = "in_cb"
Looking == stop /\ tpc = "checking"
Over == ~Running

\* Nobody clears the Event, and from every place of the thread's loop a set Event
\* leads nearer to the end, through one callback at most.
LEMMA StoppingSteps ==
  ASSUME IInv, [Next]_vars, stop
  PROVE  /\ stop'
         /\ tpc = "waiting" => tpc' \in {"waiting", "ended"}
         /\ tpc = "due" => tpc' \in {"due", "in_cb"}
         /\ tpc = "in_cb" => tpc' \in {"in_cb", "checking", "ended"}
         /\ tpc = "checking" => tpc' \in {"checking", "ended"}
<1>1. CASE TimerNext
  BY <1>1 DEF TimerNext, Check, WaitReturns, StartCallback, SelfCancel, CallbackReturns
<1>2. ASSUME NEW c \in Cancellers, Set(c) \/ LookAlive(c) \/ Joined(c) \/ JoinTimesOut(c)
      PROVE  tpc' = tpc /\ stop'
  BY <1>2 DEF Set, LookAlive, Joined, JoinTimesOut
<1>3. CASE Drop \/ Delete
  BY <1>3 DEF Drop, Delete
<1>4. CASE UNCHANGED vars
  BY <1>4 DEF vars
<1> QED BY <1>1, <1>2, <1>3, <1>4 DEF Next, CallerNext

\* The timer's thread ends after a cancel, from the application, __del__ or the
\* callback itself, whether or not anybody waits for it.
THEOREM CancelIsHeeded == Spec /\ Unblocked => CancelStops
<1> DEFINE A == Check \/ StartCallback \/ CallbackReturns \/ (stop /\ WaitReturns)
<1>1. IInv /\ stop => Waking \/ Due \/ Calling \/ Looking \/ Over
  BY DEF IInv, TypeOK, TPcs, Waking, Due, Calling, Looking, Over, Running
<1>2. Spec /\ Unblocked => (Waking ~> Over)
  <2>1. IInv /\ Waking /\ [Next]_vars => Waking' \/ Over'
    BY StoppingSteps DEF Waking, Over, Running
  <2>2. IInv /\ Waking /\ <<A>>_vars => Over'
    BY DEF Waking, Over, Running, Check, StartCallback, CallbackReturns, WaitReturns
  <2>3. Waking => GoesOn
    BY DEF Waking, GoesOn
  <2> QED BY <2>1, <2>2, <2>3, PyTimerInvariance, PTL DEF Spec, Unblocked
<1>3. Spec /\ Unblocked => (Due ~> Calling)
  <2>1. IInv /\ Due /\ [Next]_vars => Due' \/ Calling'
    BY StoppingSteps DEF Due, Calling
  <2>2. IInv /\ Due /\ <<A>>_vars => Calling'
    BY DEF Due, Calling, Check, StartCallback, CallbackReturns, WaitReturns
  <2>3. Due => GoesOn
    BY DEF Due, GoesOn
  <2> QED BY <2>1, <2>2, <2>3, PyTimerInvariance, PTL DEF Spec, Unblocked
<1>4. Spec /\ Unblocked => (Calling ~> Looking \/ Over)
  <2>1. IInv /\ Calling /\ [Next]_vars => Calling' \/ Looking' \/ Over'
    BY StoppingSteps DEF Calling, Looking, Over, Running
  <2>2. IInv /\ Calling /\ <<A>>_vars => Looking' \/ Over'
    BY DEF Calling, Looking, Over, Running, Check, StartCallback, CallbackReturns, WaitReturns
  <2>3. Calling => GoesOn
    BY DEF Calling, GoesOn
  <2> QED BY <2>1, <2>2, <2>3, PyTimerInvariance, PTL DEF Spec, Unblocked
<1>5. Spec /\ Unblocked => (Looking ~> Over)
  <2>1. IInv /\ Looking /\ [Next]_vars => Looking' \/ Over'
    BY StoppingSteps DEF Looking, Over, Running
  <2>2. IInv /\ Looking /\ <<A>>_vars => Over'
    BY DEF Looking, Over, Running, Check, StartCallback, CallbackReturns, WaitReturns
  <2>3. Looking => GoesOn
    BY DEF Looking, GoesOn
  <2> QED BY <2>1, <2>2, <2>3, PyTimerInvariance, PTL DEF Spec, Unblocked
<1>6. Spec /\ Unblocked => (stop ~> Over)
  BY <1>1, <1>2, <1>3, <1>4, <1>5, PyTimerInvariance, PTL
<1> QED BY <1>6 DEF CancelStops, Over
=============================================================================
