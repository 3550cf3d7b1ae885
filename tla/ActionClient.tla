----------------------------- MODULE ActionClient -----------------------------
(***************************************************************************)
(* talos::ActionClient and its GoalHandles (include/talosos/action.h): the *)
(* application sends goals and waits on handles, transport threads run the *)
(* feedback and result callbacks.  A goal id stands for the one handle     *)
(* SendGoal made for it, and for the application thread that uses it.      *)
(***************************************************************************)
EXTENDS ActionNet

CONSTANTS
  Callbacks,   \* transport threads that run feedback and result callbacks
  kUnknown     \* GoalStatus of a handle that has no result

ASSUME ClientAssumption == kUnknown \notin Workers \cup Goals \cup Statuses

VARIABLES
  alive,        \* the ActionClient object exists
  hpc,          \* SendGoal of each handle
  handles,      \* State::handles: ids that wait for a result
  has_result, result, status,   \* GoalHandle::State
  feedback_cb,  \* handles that have a feedback callback
  cpc, cmsg,    \* each transport thread inside a callback
  ccall,        \* the feedback callback it copied (TRUE: not null)
  waiter,       \* WaitForResult on each handle
  got,          \* what WaitForResult returned: <<result, status>> pairs
  dangling      \* cancel_pub was used after the client's State was freed

handleVars   == <<has_result, result, status, feedback_cb>>
callbackVars == <<cpc, cmsg, ccall>>
appVars      == <<alive, hpc, waiter, got>>
clientVars   == <<appVars, handleVars, callbackVars, handles, dangling>>

CPcs    == {"idle", "fb_found", "fb_copied", "res_taken", "res_stored"}
Waiting == {"away", "asleep", "woken"}

\* State lives while the client or a callback that locked it does.
ClientStateExists == alive \/ \E c \in Callbacks : cpc[c] # "idle"

ClientInit ==
  /\ alive = TRUE
  /\ hpc = [g \in Goals |-> "none"]
  /\ handles = {}
  /\ has_result = [g \in Goals |-> FALSE]
  /\ result = [g \in Goals |-> kUnknown]
  /\ status = [g \in Goals |-> kUnknown]
  /\ feedback_cb = {}
  /\ cpc = [c \in Callbacks |-> "idle"]
  /\ cmsg = [c \in Callbacks |-> kUnknown]
  /\ ccall = [c \in Callbacks |-> FALSE]
  /\ waiter = [g \in Goals |-> "away"]
  /\ got = [g \in Goals |-> {}]
  /\ dangling = FALSE

-----------------------------------------------------------------------------
(* The application.                                                        *)

\* Variant with a bug, for the properties to catch: the handle is not put
\* into the map.
ForgetHandle(g, with_cb) ==
  /\ alive
  /\ hpc[g] = "none"
  /\ hpc' = [hpc EXCEPT ![g] = "registered"]
  /\ feedback_cb' = IF with_cb THEN feedback_cb \cup {g} ELSE feedback_cb
  /\ UNCHANGED <<alive, waiter, got, has_result, result, status, callbackVars,
                 handles, dangling, net>>

\* SendGoal: a new handle, with or without a feedback callback, registered
\* under mu before anything is published.
RegisterHandle(g, with_cb) ==
  /\ alive
  /\ hpc[g] = "none"
  /\ hpc' = [hpc EXCEPT ![g] = "registered"]
  /\ handles' = handles \cup {g}
  /\ feedback_cb' = IF with_cb THEN feedback_cb \cup {g} ELSE feedback_cb
  /\ UNCHANGED <<alive, waiter, got, has_result, result, status, callbackVars,
                 dangling, net>>

PublishGoal(g) ==
  /\ alive
  /\ hpc[g] = "registered"
  /\ hpc' = [hpc EXCEPT ![g] = "sent"]
  /\ Publish(GoalMsg(g))
  /\ UNCHANGED <<alive, waiter, got, handleVars, callbackVars, handles,
                 dangling>>

\* put throws, and SendGoal with it: the caller gets no handle, whose state stays in
\* the map behind it.
PublishGoalThrows(g) ==
  /\ alive
  /\ hpc[g] = "registered"
  /\ hpc' = [hpc EXCEPT ![g] = "failed"]
  /\ UNCHANGED <<alive, waiter, got, handleVars, callbackVars, handles,
                 dangling, net>>

SetFeedbackCallback(g, with_cb) ==
  /\ hpc[g] = "sent"
  /\ feedback_cb' = IF with_cb THEN feedback_cb \cup {g} ELSE feedback_cb \ {g}
  /\ UNCHANGED <<appVars, has_result, result, status, callbackVars, handles,
                 dangling, net>>

\* The handle's raw pointer to the client's publisher is used even if the
\* client is gone.
Cancel(g) ==
  /\ hpc[g] = "sent"
  /\ IF ClientStateExists
       THEN Publish(CancelMsg(g)) /\ UNCHANGED dangling
       ELSE dangling' = TRUE /\ UNCHANGED net
  /\ UNCHANGED <<appVars, handleVars, callbackVars, handles>>

\* WaitForResult: under the handle's mutex, return the result or sleep.
Wait(g) ==
  /\ hpc[g] = "sent"
  /\ waiter[g] \in {"away", "woken"}
  /\ IF has_result[g]
       THEN /\ waiter' = [waiter EXCEPT ![g] = "away"]
            /\ got' = [got EXCEPT ![g] = @ \cup {<<result[g], status[g]>>}]
       ELSE /\ waiter' = [waiter EXCEPT ![g] = "asleep"]
            /\ UNCHANGED got
  /\ UNCHANGED <<alive, hpc, handleVars, callbackVars, handles, dangling, net>>

\* The timed overload wakes up by itself, looks once more, and returns.
WaitTimesOut(g) ==
  /\ waiter[g] \in {"asleep", "woken"}
  /\ waiter' = [waiter EXCEPT ![g] = "away"]
  /\ got' = IF has_result[g]
              THEN [got EXCEPT ![g] = @ \cup {<<result[g], status[g]>>}] ELSE got
  /\ UNCHANGED <<alive, hpc, handleVars, callbackVars, handles, dangling, net>>

\* The ActionClient is destroyed (never inside SendGoal); handles survive it.
DestroyClient ==
  /\ alive
  /\ \A g \in Goals : hpc[g] # "registered"
  /\ alive' = FALSE
  /\ UNCHANGED <<hpc, waiter, got, handleVars, callbackVars, handles,
                 dangling, net>>

AppNext == \/ \E g \in Goals : \/ PublishGoal(g) \/ PublishGoalThrows(g) \/ Cancel(g)
                               \/ Wait(g) \/ WaitTimesOut(g)
           \/ \E g \in Goals, b \in BOOLEAN : \/ RegisterHandle(g, b)
                                              \/ SetFeedbackCallback(g, b)
           \/ DestroyClient

-----------------------------------------------------------------------------
(* The callbacks, on a transport thread.                                   *)

Enter(c, m, to) ==
  /\ cpc' = [cpc EXCEPT ![c] = to]
  /\ cmsg' = [cmsg EXCEPT ![c] = m]

Leave(c) ==
  /\ cpc' = [cpc EXCEPT ![c] = "idle"]
  /\ cmsg' = [cmsg EXCEPT ![c] = kUnknown]
  /\ ccall' = [ccall EXCEPT ![c] = FALSE]

\* Variant with a bug: the feedback callback erases the handle, too.
FindAndEraseHandle(c, m) ==
  /\ ClientStateExists
  /\ cpc[c] = "idle"
  /\ m.topic = "feedback"
  /\ Deliver(m)
  /\ IF m.id \in handles THEN Enter(c, m, "fb_found") ELSE UNCHANGED <<cpc, cmsg>>
  /\ handles' = handles \ {m.id}
  /\ UNCHANGED <<appVars, handleVars, ccall, dangling>>

\* Feedback: look the handle up under the client's mutex ...
FindFeedbackHandle(c, m) ==
  /\ ClientStateExists
  /\ cpc[c] = "idle"
  /\ m.topic = "feedback"
  /\ Deliver(m)
  /\ IF m.id \in handles THEN Enter(c, m, "fb_found") ELSE UNCHANGED <<cpc, cmsg>>
  /\ UNCHANGED <<appVars, handleVars, ccall, handles, dangling>>

\* ... copy its callback under the handle's ...
CopyFeedbackCallback(c) ==
  /\ cpc[c] = "fb_found"
  /\ cpc' = [cpc EXCEPT ![c] = "fb_copied"]
  /\ ccall' = [ccall EXCEPT ![c] = cmsg[c].id \in feedback_cb]
  /\ UNCHANGED <<appVars, handleVars, cmsg, handles, dangling, net>>

\* ... and call the copy, if it is not null, outside both.
CallFeedbackCallback(c) ==
  /\ cpc[c] = "fb_copied"
  /\ Leave(c)
  /\ UNCHANGED <<appVars, handleVars, handles, dangling, net>>

\* Variant with a bug: the handle stays in the map.
PeekHandle(c, m) ==
  /\ ClientStateExists
  /\ cpc[c] = "idle"
  /\ m.topic = "result"
  /\ Deliver(m)
  /\ IF m.id \in handles THEN Enter(c, m, "res_taken") ELSE UNCHANGED <<cpc, cmsg>>
  /\ UNCHANGED <<appVars, handleVars, ccall, handles, dangling>>

\* Result: look the handle up and erase it in one lock region ...
TakeHandle(c, m) ==
  /\ ClientStateExists
  /\ cpc[c] = "idle"
  /\ m.topic = "result"
  /\ Deliver(m)
  /\ IF m.id \in handles THEN Enter(c, m, "res_taken") ELSE UNCHANGED <<cpc, cmsg>>
  /\ handles' = handles \ {m.id}
  /\ UNCHANGED <<appVars, handleVars, ccall, dangling>>

\* Variants with a bug: the status is left as it was ...
StoreWithoutStatus(c) ==
  /\ cpc[c] = "res_taken"
  /\ result' = [result EXCEPT ![cmsg[c].id] = cmsg[c].by]
  /\ has_result' = [has_result EXCEPT ![cmsg[c].id] = TRUE]
  /\ cpc' = [cpc EXCEPT ![c] = "res_stored"]
  /\ UNCHANGED <<appVars, status, feedback_cb, cmsg, ccall, handles, dangling, net>>

\* ... or nobody is notified.
StoreSilently(c) ==
  /\ cpc[c] = "res_taken"
  /\ result' = [result EXCEPT ![cmsg[c].id] = cmsg[c].by]
  /\ status' = [status EXCEPT ![cmsg[c].id] = cmsg[c].status]
  /\ has_result' = [has_result EXCEPT ![cmsg[c].id] = TRUE]
  /\ Leave(c)
  /\ UNCHANGED <<appVars, feedback_cb, handles, dangling, net>>

\* ... fill the handle's state in another ...
StoreResult(c) ==
  /\ cpc[c] = "res_taken"
  /\ result' = [result EXCEPT ![cmsg[c].id] = cmsg[c].by]
  /\ status' = [status EXCEPT ![cmsg[c].id] = cmsg[c].status]
  /\ has_result' = [has_result EXCEPT ![cmsg[c].id] = TRUE]
  /\ cpc' = [cpc EXCEPT ![c] = "res_stored"]
  /\ UNCHANGED <<appVars, feedback_cb, cmsg, ccall, handles, dangling, net>>

\* ... and notify_all after it.
NotifyWaiters(c) ==
  /\ cpc[c] = "res_stored"
  /\ waiter' = [waiter EXCEPT ![cmsg[c].id] = IF @ = "asleep" THEN "woken" ELSE @]
  /\ Leave(c)
  /\ UNCHANGED <<alive, hpc, got, handleVars, handles, dangling, net>>

CallbackNext(c) == \/ \E m \in net : FindFeedbackHandle(c, m) \/ TakeHandle(c, m)
                   \/ CopyFeedbackCallback(c) \/ CallFeedbackCallback(c)
                   \/ StoreResult(c) \/ NotifyWaiters(c)

\* Nothing is said of what follows the use of a freed publisher.
ClientNext == ~dangling /\ (AppNext \/ \E c \in Callbacks : CallbackNext(c))

-----------------------------------------------------------------------------
(* Properties of the client on its own.                                    *)

ClientTypeOK ==
  /\ alive \in BOOLEAN /\ dangling \in BOOLEAN
  /\ hpc \in [Goals -> {"none", "registered", "sent", "failed"}]
  /\ handles \subseteq Goals /\ feedback_cb \subseteq Goals
  /\ has_result \in [Goals -> BOOLEAN]
  /\ result \in [Goals -> Workers \cup {kUnknown}]
  /\ status \in [Goals -> Statuses \cup {kUnknown}]
  /\ cpc \in [Callbacks -> CPcs]
  /\ cmsg \in [Callbacks -> Message \cup {kUnknown}]
  /\ ccall \in [Callbacks -> BOOLEAN]
  /\ waiter \in [Goals -> Waiting]
  /\ got \in [Goals -> SUBSET ((Workers \cup {kUnknown}) \X (Statuses \cup {kUnknown}))]

\* The result a handle shows is final: a second result message for the same
\* goal, on the same or on another thread, changes nothing.
ResultIsFinal ==
  [][\A g \in Goals : has_result[g] =>
       /\ has_result'[g]
       /\ result'[g] = result[g]
       /\ status'[g] = status[g]]_handleVars

\* Once a goal has its result no further feedback callback is entered for it:
\* the only feedback still to come is that of threads past their lookup.
InFeedback(g) == {c \in Callbacks : cpc[c] \in {"fb_found", "fb_copied"} /\ cmsg[c].id = g}
FeedbackDriesUp ==
  [][\A g \in Goals : has_result[g] => InFeedback(g)' \subseteq InFeedback(g)]_clientVars

\* A goal that was sent can always still be answered: its handle waits in the
\* map, or has its result, or a callback thread is bringing it.
NoOrphanedHandle ==
  \A g \in Goals : hpc[g] = "sent" =>
    \/ g \in handles
    \/ has_result[g]
    \/ \E c \in Callbacks : cpc[c] = "res_taken" /\ cmsg[c].id = g

\* WaitForResult never sleeps on a result that is there, unless the thread
\* that stored it is about to notify.
NoLostWakeup ==
  \A g \in Goals : waiter[g] = "asleep" /\ has_result[g] =>
    \E c \in Callbacks : cpc[c] = "res_stored" /\ cmsg[c].id = g
=============================================================================
