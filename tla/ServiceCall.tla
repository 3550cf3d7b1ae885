------------------------------ MODULE ServiceCall ------------------------------
(***************************************************************************)
(* A service call (src/node.cc, service.h, the Python bindings): threads   *)
(* that call CallBytes and sleep on a condition variable, transport        *)
(* threads that run on_reply and on_drop, services that answer, fail or    *)
(* disappear, and one Python process whose threads share the interpreter   *)
(* lock, which changes hands in the middle of a handler too.  A thread     *)
(* makes several calls: a reply may come when its call has timed out and   *)
(* the thread is in the next one.                                          *)
(***************************************************************************)
EXTENDS Naturals

CONSTANTS
  Threads, PyThreads,   \* callers; those of the Python process
  Servers, PyServers,   \* services under the key called; those of that process
  MaxCalls,             \* bounds the calls a thread makes
  Failed,               \* CallBytes returned false, or threw
  None

Call == Threads \X (1..MaxCalls)

\* The payload is abstracted to the call and the service it comes from.
Reply == [call : Call, by : Servers, kind : {"ok", "err"}]

ASSUME ServiceAssumption == /\ PyThreads \subseteq Threads
                            /\ PyServers \subseteq Servers
                            /\ MaxCalls \in Nat \ {0}
                            /\ {None, Failed} \cap (Reply \cup Servers) = {} /\ None # Failed
                            /\ None \notin (Call \X Servers) \cup PyThreads
                            /\ PyThreads \cap (Call \X Servers) = {}

VARIABLES
  tpc, n,                \* each thread's place in CallBytes, and its call number
  done, ok, payload,     \* CallBytes' State, one for each call
  outcome,               \* what CallBytes returned
  up,                    \* services that are declared
  query,                 \* the transport's query of each call, at each service
  open,                  \* queries whose on_drop has not been called
  replies,               \* replies on their way
  notifying,             \* on_drop between its lock region and notify_all
  gil,                   \* the thread or handler that has the interpreter lock
  captured               \* history: calls that got an answer before they returned

stateVars  == <<done, ok, payload, captured>>
serverVars == <<up, query, gil>>
netVars    == <<open, replies, notifying>>
vars == <<tpc, n, stateVars, outcome, serverVars, netVars>>

TPcs   == {"out", "ready", "sent", "asleep", "woken", "back"}
QPcs   == {"none", "asked", "handling", "answered"}

Current(t) == <<t, n[t]>>
Pending(c) == \/ \E s \in Servers : query[c][s] \in {"asked", "handling"}
              \/ \E r \in replies : r.call = c

Init ==
  /\ tpc = [t \in Threads |-> "out"]
  /\ n = [t \in Threads |-> 0]
  /\ done = [c \in Call |-> FALSE]
  /\ ok = [c \in Call |-> FALSE]
  /\ payload = [c \in Call |-> None]
  /\ outcome = [c \in Call |-> None]
  /\ up \in SUBSET Servers
  /\ query = [c \in Call |-> [s \in Servers |-> "none"]]
  /\ open = {} /\ replies = {} /\ notifying = {}
  /\ gil = None
  /\ captured = {}

-----------------------------------------------------------------------------
(* The caller.                                                             *)

\* The thread comes to the call; a Python one has the interpreter lock there.
\* What it runs before, with the lock or waiting for it, is left out.
Enter(t) ==
  /\ tpc[t] = "out"
  /\ n[t] < MaxCalls
  /\ tpc' = [tpc EXCEPT ![t] = "ready"]
  /\ IF t \in PyThreads THEN gil = None /\ gil' = t ELSE UNCHANGED gil
  /\ UNCHANGED <<n, stateVars, outcome, up, query, netVars>>

\* Variant with a bug, for the properties to catch: no gil_scoped_release.
KeepLock(t) == gil

\* The lock once thread t has given it up.
Released(t) == IF gil = t THEN None ELSE gil

\* A fresh State, and session->get to the services declared at this moment.
\* A Python caller gives the interpreter lock up before that.
Get(t) ==
  /\ tpc[t] = "ready"
  /\ n' = [n EXCEPT ![t] = @ + 1]
  /\ tpc' = [tpc EXCEPT ![t] = "sent"]
  /\ query' = [query EXCEPT ![<<t, n[t] + 1>>] =
                 [s \in Servers |-> IF s \in up THEN "asked" ELSE "none"]]
  /\ open' = open \cup {<<t, n[t] + 1>>}
  /\ gil' = Released(t)
  /\ UNCHANGED <<stateVars, outcome, up, replies, notifying>>

\* The client is not valid, or session->get throws: there is no query.
GetFails(t) ==
  /\ tpc[t] = "ready"
  /\ n' = [n EXCEPT ![t] = @ + 1]
  /\ tpc' = [tpc EXCEPT ![t] = "back"]
  /\ outcome' = [outcome EXCEPT ![<<t, n[t] + 1>>] = Failed]
  /\ gil' = Released(t)
  /\ UNCHANGED <<stateVars, up, query, netVars>>

\* Variant with a bug: an answer counts only when the query is over.
ReturnIfDone(t) ==
  LET c == Current(t) IN
  /\ tpc' = [tpc EXCEPT ![t] = "back"]
  /\ outcome' = [outcome EXCEPT ![c] = IF done[c] /\ ok[c] THEN payload[c] ELSE Failed]
  /\ UNCHANGED <<n, stateVars, serverVars, netVars>>

\* What CallBytes returns: the payload is moved out of the State.
Return(t) ==
  LET c == Current(t) IN
  /\ tpc' = [tpc EXCEPT ![t] = "back"]
  /\ outcome' = [outcome EXCEPT ![c] = IF ok[c] THEN payload[c] ELSE Failed]
  /\ UNCHANGED <<n, stateVars, serverVars, netVars>>

\* wait_for, under the lock: look at done, and sleep.
Look(t) ==
  /\ tpc[t] \in {"sent", "woken"}
  /\ IF done[Current(t)]
       THEN Return(t)
       ELSE /\ tpc' = [tpc EXCEPT ![t] = "asleep"]
            /\ UNCHANGED <<n, stateVars, outcome, serverVars, netVars>>

\* wait_for gives up (timeout + 100 ms); what was captured by then counts.
Deadline(t) == tpc[t] \in {"asleep", "woken"} /\ Return(t)

\* The wrapper gets the interpreter lock back before it returns to Python, where
\* the thread runs, and loses the lock, until it calls again.
Back(t) ==
  /\ tpc[t] = "back"
  /\ t \in PyThreads => gil = None
  /\ tpc' = [tpc EXCEPT ![t] = "out"]
  /\ UNCHANGED <<n, stateVars, outcome, serverVars, netVars>>

-----------------------------------------------------------------------------
(* Services.                                                               *)

Advertise(s) ==
  /\ s \notin up
  /\ up' = up \cup {s}
  /\ UNCHANGED <<tpc, n, stateVars, outcome, query, gil, netVars>>

\* The Service is destroyed: queries it has not looked at end there.
Withdraw(s) ==
  /\ s \in up
  /\ up' = up \ {s}
  /\ query' = [c \in Call |-> [query[c] EXCEPT ![s] = IF @ = "asked" THEN "none" ELSE @]]
  /\ UNCHANGED <<tpc, n, stateVars, outcome, gil, netVars>>

\* The process of a C++ service dies, its handlers with it.
Crash(s) ==
  /\ s \in up \ PyServers
  /\ up' = up \ {s}
  /\ query' = [c \in Call |->
                 [query[c] EXCEPT ![s] = IF @ = "answered" THEN @ ELSE "none"]]
  /\ UNCHANGED <<tpc, n, stateVars, outcome, gil, netVars>>

\* on_query starts.
Serve(c, s) ==
  /\ query[c][s] = "asked"
  /\ query' = [query EXCEPT ![c][s] = "handling"]
  /\ UNCHANGED <<tpc, n, stateVars, outcome, up, gil, netVars>>

\* A Python handler gets the interpreter lock, at its start or to go on.
Take(c, s) ==
  /\ query[c][s] = "handling" /\ s \in PyServers
  /\ gil = None
  /\ gil' = <<c, s>>
  /\ UNCHANGED <<tpc, n, stateVars, outcome, up, query, netVars>>

\* It loses the lock half-way, to the switch interval, in blocking I/O or in a
\* call of its own; other handlers of the process may run meanwhile.
Give(c, s) ==
  /\ gil = <<c, s>>
  /\ gil' = None
  /\ UNCHANGED <<tpc, n, stateVars, outcome, up, query, netVars>>

\* Its handler comes to an end, and a reply goes out while the query is open.
Send(c, s, kind) ==
  /\ query[c][s] = "handling"
  /\ s \in PyServers => gil = <<c, s>>
  /\ query' = [query EXCEPT ![c][s] = "answered"]
  /\ replies' = IF c \in open
                  THEN replies \cup {[call |-> c, by |-> s, kind |-> kind]}
                  ELSE replies
  /\ gil' = IF s \in PyServers THEN None ELSE gil
  /\ UNCHANGED <<tpc, n, stateVars, outcome, up, open, notifying>>

\* The handler returns.
Answer(c, s) == Send(c, s, "ok")

\* Variant with a bug: the exception leaves with the interpreter lock held.
FailWithLock(c, s) ==
  /\ query[c][s] = "handling"
  /\ query' = [query EXCEPT ![c][s] = "answered"]
  /\ UNCHANGED <<tpc, n, stateVars, outcome, up, gil, netVars>>

\* The handler throws, or reply does after it: reply_err.  A Python handler that
\* raises has answered all the same, with an empty payload.
Fail(c, s) ==
  \E kind \in IF s \in PyServers THEN {"ok", "err"} ELSE {"err"} : Send(c, s, kind)

-----------------------------------------------------------------------------
(* Callbacks of the query, on a transport thread.                          *)

\* Variant with a bug: one State per thread, used again by its next call.
OnReplyToCurrent(r) ==
  LET c == Current(r.call[1]) IN
  /\ r \in replies
  /\ replies' = replies \ {r}
  /\ IF ~done[c] /\ r.kind = "ok"
       THEN /\ payload' = [payload EXCEPT ![c] = r]
            /\ ok' = [ok EXCEPT ![c] = TRUE]
       ELSE UNCHANGED <<payload, ok>>
  /\ UNCHANGED <<tpc, n, done, outcome, captured, serverVars, open, notifying>>

\* on_reply: its closure holds the State of its own call.
OnReply(r) ==
  /\ r \in replies
  /\ r.call \in open
  /\ replies' = replies \ {r}
  /\ IF ~done[r.call] /\ r.kind = "ok"
       THEN /\ payload' = [payload EXCEPT ![r.call] = r]
            /\ ok' = [ok EXCEPT ![r.call] = TRUE]
            /\ captured' = IF outcome[r.call] = None THEN captured \cup {r.call}
                                                     ELSE captured
       ELSE UNCHANGED <<payload, ok, captured>>
  /\ UNCHANGED <<tpc, n, done, outcome, serverVars, open, notifying>>

\* Variant with a bug: the lock region is empty.
DropWithoutDone(c) ==
  /\ c \in open
  /\ open' = open \ {c}
  /\ replies' = {r \in replies : r.call # c}
  /\ notifying' = notifying \cup {c}
  /\ UNCHANGED <<tpc, n, stateVars, outcome, serverVars>>

\* The transport ends the query when nobody is left to answer, or at
\* timeout_ms; replies that come later are its own to drop.  on_drop's lock
\* region sets done.
OnDrop(c) ==
  /\ c \in open
  /\ open' = open \ {c}
  /\ replies' = {r \in replies : r.call # c}
  /\ done' = [done EXCEPT ![c] = TRUE]
  /\ notifying' = notifying \cup {c}
  /\ UNCHANGED <<tpc, n, ok, payload, captured, outcome, serverVars>>

Finish(c) == ~Pending(c) /\ OnDrop(c)
Expire(c) == Pending(c) /\ OnDrop(c)

Notify(c) ==
  /\ c \in notifying
  /\ notifying' = notifying \ {c}
  /\ tpc' = [t \in Threads |-> IF tpc[t] = "asleep" /\ Current(t) = c
                                 THEN "woken" ELSE tpc[t]]
  /\ UNCHANGED <<n, stateVars, outcome, serverVars, open, replies>>

-----------------------------------------------------------------------------
CallerNext == \E t \in Threads : \/ Enter(t) \/ Get(t) \/ GetFails(t)
                                \/ Look(t) \/ Deadline(t) \/ Back(t)
ServerNext == \/ \E s \in Servers : Advertise(s) \/ Withdraw(s) \/ Crash(s)
              \/ \E c \in Call, s \in Servers : \/ Serve(c, s) \/ Take(c, s) \/ Give(c, s)
                                            \/ Answer(c, s) \/ Fail(c, s)
NetNext    == \/ \E r \in replies : OnReply(r)
              \/ \E c \in Call : Finish(c) \/ Expire(c) \/ Notify(c)

Next == CallerNext \/ ServerNext \/ NetNext

\* Threads run, handlers return, the transport delivers what it has.  A thread
\* that waits for the interpreter lock gets it if it stays free; of the Python
\* handlers that are given it again and again, one comes to its end.  Neither of
\* the two timeouts is assumed to come, and no service to be there.
Ends(c, s) == Answer(c, s) \/ Fail(c, s)
Fairness ==
  /\ \A t \in Threads : /\ WF_vars(Get(t) \/ GetFails(t))
                         /\ WF_vars(Look(t)) /\ WF_vars(Back(t))
  /\ \A c \in Call, s \in Servers : WF_vars(Serve(c, s)) /\ WF_vars(Take(c, s))
  /\ \A c \in Call, s \in Servers \ PyServers : WF_vars(Ends(c, s))
  /\ SF_vars(\E c \in Call, s \in PyServers : Ends(c, s))
  /\ \A c \in Call : /\ WF_vars(Finish(c)) /\ WF_vars(Notify(c))
                     /\ WF_vars(\E r \in replies : r.call = c /\ OnReply(r))

Spec     == Init /\ [][Next]_vars
FairSpec == Spec /\ Fairness

-----------------------------------------------------------------------------
(* Properties.                                                             *)

\* Every variable stays in its range (CallBytes' State and the query).
TypeOK ==
  /\ tpc \in [Threads -> TPcs]
  /\ n \in [Threads -> 0..MaxCalls]
  /\ done \in [Call -> BOOLEAN] /\ ok \in [Call -> BOOLEAN]
  /\ payload \in [Call -> Reply \cup {None}]
  /\ outcome \in [Call -> Reply \cup {None, Failed}]
  /\ up \subseteq Servers
  /\ query \in [Call -> [Servers -> QPcs]]
  /\ open \subseteq Call /\ notifying \subseteq Call
  /\ replies \subseteq Reply
  /\ gil \in {None} \cup PyThreads \cup (Call \X PyServers)
  /\ captured \subseteq Call

\* However replies are delayed past a timeout, a call that returns true
\* returns what a handler answered to that very request, never the answer to
\* an earlier call of the thread, nor an error.
AnswerIsOwn ==
  \A c \in Call : outcome[c] \notin {None, Failed} =>
    /\ outcome[c].call = c
    /\ outcome[c].kind = "ok"
    /\ query[c][outcome[c].by] = "answered"

\* A call returns false only if no answer had reached it: also when one
\* service answered and another one kept the query open until the deadline.
CapturedIsReturned == \A c \in Call : outcome[c] = Failed => c \notin captured

\* A caller never sleeps on a query that is over, unless the notification is
\* on its way.
NoSleepOnDone ==
  \A t \in Threads : tpc[t] = "asleep" /\ done[Current(t)] =>
    Current(t) \in notifying

\* Whoever has the interpreter lock is running: a thread on its way to a call, never
\* one that waits for an answer, or a handler that has begun and not ended, its
\* service withdrawn or not; a lock nobody would give back is with nobody
\* (the release at bindings.cc:84, the acquire at bindings.cc:135).
LockIsRunners ==
  /\ \A t \in PyThreads : gil = t <=> tpc[t] = "ready"
  /\ \A c \in Call, s \in PyServers : gil = <<c, s>> => query[c][s] = "handling"

\* ... and it always comes free again, whatever becomes of the calls: a Python
\* process that serves the calls it waits for does not lock itself up.
LockComesFree == []<>(gil = None)

\* Every call returns by itself, without either timeout, if the handlers it
\* reached do: no service, a failing one, one that vanishes, one in the
\* caller's own Python process.
CallReturns == \A t \in Threads : tpc[t] = "sent" ~> tpc[t] = "out"

\* A call keeps its contract: no service handles a request twice, whatever
\* comes and goes meanwhile; a call returns once, and before the thread makes
\* the next one; and it returns an answer to itself, or fails without one.
Requests(stage) == {p \in Call \X Servers : query[p[1]][p[2]] \in stage}
Kept     == [c \in Call |-> IF ok[c] THEN payload[c].by ELSE None]
Outcomes == [c \in Call |-> IF outcome[c] \in Reply THEN outcome[c].by ELSE outcome[c]]

Contract == INSTANCE CallContract WITH
  calls <- n, due <- Requests({"asked", "handling"}), answered <- Requests({"answered"}),
  kept <- Kept, returned <- Outcomes

ImplementsContract == Contract!Spec

-----------------------------------------------------------------------------
(* The inductive invariant behind the safety properties.                   *)

\* A call that has not begun has no State and no query yet.
BegunInv ==
  \A t \in Threads : \A k \in 1..MaxCalls : k > n[t] =>
    /\ outcome[<<t, k>>] = None
    /\ ~done[<<t, k>>] /\ ~ok[<<t, k>>]
    /\ <<t, k>> \notin open

\* The current call has no outcome while its thread is inside the wait.
WaitingInv ==
  \A t \in Threads :
    /\ tpc[t] = "ready" => n[t] < MaxCalls
    /\ tpc[t] \notin {"out", "ready"} => n[t] \in 1..MaxCalls
    /\ tpc[t] \in {"sent", "asleep", "woken"} => outcome[Current(t)] = None

\* Replies and payloads are answers to the call they are kept for.
AnswersInv ==
  /\ \A r \in replies : r.call \in open /\ query[r.call][r.by] = "answered"
  /\ \A c \in Call :
       /\ c \in open => ~done[c]
       /\ ok[c] => /\ payload[c] \in Reply
                   /\ payload[c].call = c /\ payload[c].kind = "ok"
                   /\ query[c][payload[c].by] = "answered"
       /\ c \in captured => ok[c]

CallInv == /\ TypeOK /\ BegunInv /\ WaitingInv /\ AnswersInv /\ AnswerIsOwn
           /\ CapturedIsReturned /\ NoSleepOnDone

\* A call that has not begun has no query anywhere.
NotAsked == \A t \in Threads, k \in 1..MaxCalls, s \in Servers :
              k > n[t] => query[<<t, k>>][s] = "none"

LockInv == LockIsRunners /\ NotAsked

\* Only the call a thread waits for has no outcome.
OnceInv == \A t \in Threads, k \in 1..MaxCalls :
             k <= n[t] /\ outcome[<<t, k>>] = None =>
               k = n[t] /\ tpc[t] \in {"sent", "asleep", "woken"}

IInv == CallInv /\ LockInv /\ OnceInv
=============================================================================
