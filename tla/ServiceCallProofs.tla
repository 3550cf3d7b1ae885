--------------------------- MODULE ServiceCallProofs ---------------------------
(***************************************************************************)
(* What a service call may return, for any number of threads, calls and    *)
(* services: IInv is inductive.                                            *)
(***************************************************************************)
EXTENDS ServiceCall, TLAPS

\* The number of the current call, once there is one, names a call.
LEMMA CurrentIsCall ==
  ASSUME CallInv, NEW t \in Threads, tpc[t] \notin {"out", "ready"}
  PROVE  Current(t) \in Call
  BY DEF CallInv, TypeOK, WaitingInv, Current, Call

\* A call is the pair of its thread and its number.
LEMMA CallIsPair ==
  ASSUME NEW c \in Call
  PROVE  /\ c = <<c[1], c[2]>>
         /\ c[1] \in Threads /\ c[2] \in 1..MaxCalls
  BY DEF Call

-----------------------------------------------------------------------------
\* The thread comes to the call, perhaps with the interpreter lock.
LEMMA EnterStep ==
  ASSUME CallInv, NEW t \in Threads, Enter(t)
  PROVE  CallInv'
<1>1. /\ tpc[t] = "out" /\ tpc' = [tpc EXCEPT ![t] = "ready"] /\ n[t] < MaxCalls
      /\ gil' \in {t} \cup {gil} /\ (gil' = t => t \in PyThreads \/ gil' = gil)
      /\ UNCHANGED <<n, stateVars, outcome, up, query, netVars>>
  BY DEF Enter
<1>2. TypeOK'
  BY <1>1 DEF CallInv, TypeOK, TPcs, stateVars, netVars
<1>3. BegunInv' /\ AnswersInv' /\ AnswerIsOwn' /\ CapturedIsReturned'
  BY <1>1 DEF CallInv, BegunInv, AnswersInv, AnswerIsOwn, CapturedIsReturned, stateVars, netVars
<1>4. WaitingInv' /\ NoSleepOnDone'
  BY <1>1 DEF CallInv, TypeOK, WaitingInv, NoSleepOnDone, Current, stateVars, netVars
<1> QED
  BY <1>2, <1>3, <1>4 DEF CallInv

\* Get begins a call whose State is fresh.
LEMMA GetStep ==
  ASSUME CallInv, NEW t \in Threads, Get(t)
  PROVE  CallInv'
<1> DEFINE c == <<t, n[t] + 1>>
<1>1. c \in Call /\ n[t] \in Nat /\ n'[t] = n[t] + 1
  BY ServiceAssumption DEF CallInv, TypeOK, WaitingInv, Get, Call
<1>2. c \notin open /\ ~done[c] /\ ~ok[c] /\ outcome[c] = None
  BY <1>1 DEF CallInv, TypeOK, BegunInv, Call
<1>3. TypeOK'
  <2>1. query' \in [Call -> [Servers -> QPcs]]
    <3> DEFINE q == [s \in Servers |-> IF s \in up THEN "asked" ELSE "none"]
    <3>1. q \in [Servers -> QPcs]
      BY DEF QPcs
    <3> HIDE DEF q
    <3>2. query' = [query EXCEPT ![c] = q]
      BY DEF Get, q
    <3> QED
      BY <1>1, <3>1, <3>2 DEF CallInv, TypeOK
  <2>2. n' \in [Threads -> 0..MaxCalls]
    BY <1>1, ServiceAssumption DEF CallInv, TypeOK, WaitingInv, Get
  <2>3. tpc' \in [Threads -> TPcs]
    BY DEF CallInv, TypeOK, Get, TPcs
  <2>4. gil' \in {None} \cup PyThreads \cup (Call \X PyServers)
    BY DEF CallInv, TypeOK, Get, Released
  <2> QED
    BY <1>1, <2>1, <2>2, <2>3, <2>4 DEF CallInv, TypeOK, Get, stateVars
<1>4. BegunInv'
  BY <1>1 DEF CallInv, TypeOK, BegunInv, Get, stateVars, Call
<1>5. WaitingInv'
  <2>1. /\ outcome' = outcome /\ n'[t] \in 1..MaxCalls
        /\ \A u \in Threads \ {t} : n'[u] = n[u] /\ tpc'[u] = tpc[u]
    BY <1>1, ServiceAssumption DEF CallInv, TypeOK, WaitingInv, Get
  <2>2. tpc'[t] = "sent"
    BY DEF CallInv, TypeOK, Get
  <2> QED
    BY <1>1, <1>2, <2>1, <2>2 DEF CallInv, WaitingInv, Current
<1>6. AnswersInv'
  <2>1. \A r \in replies : r.call # c
    BY <1>2 DEF CallInv, AnswersInv
  <2>2. \A d \in Call : d # c => query'[d] = query[d]
    BY <1>1 DEF CallInv, TypeOK, Get
  <2>3. \A r \in replies : r.call \in Call
    BY DEF CallInv, TypeOK, Reply
  <2>4. open' = open \cup {c} /\ UNCHANGED <<stateVars, replies>>
    BY DEF Get
  <2> HIDE DEF c
  <2>5. \A r \in replies : r.call \in open' /\ query'[r.call][r.by] = "answered"
    BY <2>1, <2>2, <2>3, <2>4 DEF CallInv, AnswersInv
  <2>6. ASSUME NEW d \in Call
        PROVE  /\ d \in open' => ~done'[d]
               /\ ok'[d] => /\ payload'[d] \in Reply
                            /\ payload'[d].call = d /\ payload'[d].kind = "ok"
                            /\ query'[d][payload'[d].by] = "answered"
               /\ d \in captured' => ok'[d]
    <3>1. CASE d = c
      <4>1. ~done'[c] /\ ~ok'[c] /\ c \notin captured'
        BY <1>1, <1>2, <2>4 DEF CallInv, AnswersInv, stateVars
      <4> QED
        BY <3>1, <4>1
    <3>2. CASE d # c
      BY <2>2, <2>4, <3>2 DEF CallInv, AnswersInv, stateVars
    <3> QED
      BY <3>1, <3>2
  <2> QED
    BY <2>4, <2>5, <2>6 DEF AnswersInv
<1>7. AnswerIsOwn'
  <2>1. \A d \in Call : d # c => query'[d] = query[d]
    BY <1>1 DEF CallInv, TypeOK, Get
  <2> QED
    BY <1>2, <2>1 DEF CallInv, AnswerIsOwn, Get
<1>8. CapturedIsReturned'
  BY DEF CallInv, CapturedIsReturned, Get, stateVars
<1>9. NoSleepOnDone'
  BY DEF CallInv, TypeOK, NoSleepOnDone, Get, Current, stateVars
<1> QED
  BY <1>3, <1>4, <1>5, <1>6, <1>7, <1>8, <1>9 DEF CallInv

\* A call that cannot be made fails, its State as it was.
LEMMA GetFailsStep ==
  ASSUME CallInv, NEW t \in Threads, GetFails(t)
  PROVE  CallInv'
<1> DEFINE c == <<t, n[t] + 1>>
<1>1. /\ c \in Call /\ c[1] = t /\ c[2] = n[t] + 1
      /\ n[t] \in Nat /\ n[t] + 1 \in 1..MaxCalls /\ n[t] + 1 > n[t]
  BY ServiceAssumption DEF CallInv, TypeOK, WaitingInv, GetFails, Call
<1>2. c \notin open /\ ~done[c] /\ ~ok[c] /\ outcome[c] = None
  BY <1>1 DEF CallInv, BegunInv
<1>3. c \notin captured
  BY <1>1, <1>2 DEF CallInv, AnswersInv
<1>4. /\ n' = [n EXCEPT ![t] = @ + 1] /\ tpc' = [tpc EXCEPT ![t] = "back"]
      /\ outcome' = [outcome EXCEPT ![c] = Failed] /\ gil' \in {gil, None}
      /\ UNCHANGED <<stateVars, up, query, netVars>>
  BY DEF GetFails, Released
<1>5. \A u \in Threads, k \in 1..MaxCalls : <<u, k>> = c <=> u = t /\ k = n[t] + 1
  OBVIOUS
<1> HIDE DEF c
<1>6. TypeOK'
  <2>1. n' \in [Threads -> 0..MaxCalls] /\ tpc' \in [Threads -> TPcs]
    BY <1>1, <1>4 DEF CallInv, TypeOK, TPcs
  <2>2. outcome' \in [Call -> Reply \cup {None, Failed}]
    BY <1>1, <1>4 DEF CallInv, TypeOK
  <2> QED
    BY <1>4, <2>1, <2>2 DEF CallInv, TypeOK, stateVars, netVars
<1>7. BegunInv'
  <2>1. \A u \in Threads, k \in 1..MaxCalls : k > n'[u] => k > n[u] /\ <<u, k>> # c
    BY <1>1, <1>4, <1>5 DEF CallInv, TypeOK
  <2>2. \A u \in Threads, k \in 1..MaxCalls : <<u, k>> \in Call
    BY DEF Call
  <2> QED
    BY <1>4, <2>1, <2>2 DEF CallInv, TypeOK, BegunInv, stateVars, netVars
<1>8. WaitingInv'
  <2>1. n'[t] \in 1..MaxCalls /\ tpc'[t] = "back"
    BY <1>1, <1>4 DEF CallInv, TypeOK
  <2>2. ASSUME NEW u \in Threads, u # t
        PROVE  n'[u] = n[u] /\ tpc'[u] = tpc[u] /\ outcome'[<<u, n[u]>>] = outcome[<<u, n[u]>>]
    BY <1>1, <1>4, <2>2 DEF CallInv, TypeOK
  <2> QED
    BY <2>1, <2>2 DEF CallInv, WaitingInv, Current
<1>9. AnswersInv'
  BY <1>4 DEF CallInv, AnswersInv, stateVars, netVars
<1>10. AnswerIsOwn' /\ CapturedIsReturned'
  BY <1>1, <1>3, <1>4 DEF CallInv, TypeOK, AnswerIsOwn, CapturedIsReturned, stateVars
<1>11. NoSleepOnDone'
  BY <1>4 DEF CallInv, TypeOK, NoSleepOnDone, Current, stateVars, netVars
<1> QED
  BY <1>6, <1>7, <1>8, <1>9, <1>10, <1>11 DEF CallInv

\* Return hands out the answer the State has, or reports that it has none.
LEMMA ReturnStep ==
  ASSUME CallInv, NEW t \in Threads, tpc[t] \in {"sent", "asleep", "woken"}, Return(t)
  PROVE  CallInv'
<1> DEFINE c == Current(t)
<1>1. c \in Call /\ outcome[c] = None
  BY CurrentIsCall DEF CallInv, WaitingInv
<1>2. ok[c] => /\ payload[c] \in Reply
               /\ payload[c].call = c /\ payload[c].kind = "ok"
               /\ query[c][payload[c].by] = "answered"
  BY <1>1 DEF CallInv, AnswersInv
<1>3. c \in captured => ok[c]
  BY <1>1 DEF CallInv, AnswersInv
<1> HIDE DEF c
<1>4. /\ outcome' = [outcome EXCEPT ![c] = IF ok[c] THEN payload[c] ELSE Failed]
      /\ tpc' = [tpc EXCEPT ![t] = "back"]
      /\ UNCHANGED <<n, stateVars, serverVars, netVars>>
  BY DEF Return, c
<1>5. TypeOK'
  BY <1>1, <1>2, <1>4 DEF CallInv, TypeOK, TPcs, stateVars, serverVars, netVars
<1>6. BegunInv'
  <2>1. \A k \in 1..MaxCalls : k > n[t] => <<t, k>> # c
    BY DEF c, Current, CallInv, TypeOK
  <2>2. \A u \in Threads \ {t} : \A k \in 1..MaxCalls : <<u, k>> # c
    BY DEF c, Current
  <2> QED
    BY <1>4, <2>1, <2>2 DEF CallInv, TypeOK, BegunInv, Call, stateVars, netVars
<1>7. WaitingInv'
  <2>1. \A u \in Threads \ {t} : Current(u) # c /\ tpc'[u] = tpc[u]
    BY <1>4 DEF c, Current, CallInv, TypeOK
  <2> QED
    BY <1>4, <2>1, CurrentIsCall DEF CallInv, TypeOK, WaitingInv, Current
<1>8. AnswersInv'
  BY <1>4 DEF CallInv, AnswersInv, stateVars, serverVars, netVars
<1>9. AnswerIsOwn' /\ CapturedIsReturned'
  BY <1>1, <1>2, <1>3, <1>4, ServiceAssumption
     DEF CallInv, TypeOK, AnswerIsOwn, CapturedIsReturned, stateVars, serverVars
<1>10. NoSleepOnDone'
  BY <1>4 DEF CallInv, TypeOK, NoSleepOnDone, Current, stateVars, netVars
<1> QED
  BY <1>5, <1>6, <1>7, <1>8, <1>9, <1>10 DEF CallInv

\* The caller looks once more, and sleeps only while done is unset.
LEMMA LookStep ==
  ASSUME CallInv, NEW t \in Threads, Look(t)
  PROVE  CallInv'
<1>1. CASE done[Current(t)]
  BY <1>1, ReturnStep DEF Look
<1>2. CASE ~done[Current(t)]
  <2>1. /\ tpc' = [tpc EXCEPT ![t] = "asleep"]
        /\ UNCHANGED <<n, stateVars, outcome, serverVars, netVars>>
    BY <1>2 DEF Look
  <2>2. TypeOK' /\ BegunInv' /\ AnswersInv' /\ AnswerIsOwn' /\ CapturedIsReturned'
    BY <2>1 DEF CallInv, TypeOK, BegunInv, AnswersInv, AnswerIsOwn, CapturedIsReturned,
                stateVars, serverVars, netVars, TPcs
  <2>3. WaitingInv'
    BY <2>1 DEF CallInv, TypeOK, WaitingInv, Current, Look
  <2>4. NoSleepOnDone'
    BY <1>2, <2>1 DEF CallInv, TypeOK, NoSleepOnDone, Current, stateVars, netVars
  <2> QED
    BY <2>2, <2>3, <2>4 DEF CallInv
<1> QED
  BY <1>1, <1>2

\* A caller that gives up returns what was captured by then.
LEMMA DeadlineStep ==
  ASSUME CallInv, NEW t \in Threads, Deadline(t)
  PROVE  CallInv'
  BY ReturnStep DEF Deadline

\* The thread leaves the wrapper.
LEMMA BackStep ==
  ASSUME CallInv, NEW t \in Threads, Back(t)
  PROVE  CallInv'
<1>1. TypeOK' /\ BegunInv' /\ AnswersInv' /\ AnswerIsOwn' /\ CapturedIsReturned'
  BY DEF Back, CallInv, TypeOK, BegunInv, AnswersInv, AnswerIsOwn, CapturedIsReturned,
         stateVars, serverVars, netVars, TPcs
<1>2. WaitingInv' /\ NoSleepOnDone'
  BY DEF Back, CallInv, TypeOK, WaitingInv, NoSleepOnDone, Current, stateVars, netVars
<1> QED
  BY <1>1, <1>2 DEF CallInv

-----------------------------------------------------------------------------
\* Whatever services do, they disturb CallInv only through query and replies: an
\* answered query stays answered, and a reply is sent for an open call.
LEMMA ServiceSide ==
  ASSUME CallInv, TypeOK',
         UNCHANGED <<tpc, n, stateVars, outcome, open, notifying>>,
         \A c \in Call, s \in Servers :
           query[c][s] = "answered" => query'[c][s] = "answered",
         \A r \in replies' \ replies :
           r.call \in open /\ query'[r.call][r.by] = "answered"
  PROVE  CallInv'
<1>1. BegunInv' /\ WaitingInv' /\ CapturedIsReturned' /\ NoSleepOnDone'
  BY DEF CallInv, BegunInv, WaitingInv, CapturedIsReturned, NoSleepOnDone, Current, stateVars
<1>2. \A r \in Reply : r.call \in Call /\ r.by \in Servers
  BY DEF Reply
<1>3. AnswersInv'
  BY <1>2 DEF CallInv, TypeOK, AnswersInv, stateVars
<1>4. AnswerIsOwn'
  BY <1>2 DEF CallInv, TypeOK, AnswerIsOwn
<1> QED
  BY <1>1, <1>3, <1>4 DEF CallInv

\* A service appears.
LEMMA AdvertiseStep ==
  ASSUME CallInv, NEW s \in Servers, Advertise(s)
  PROVE  CallInv'
<1>1. TypeOK'
  BY DEF CallInv, TypeOK, Advertise, stateVars, netVars
<1> QED
  BY <1>1, ServiceSide DEF Advertise, netVars

\* A service is withdrawn: only queries it has not looked at are affected.
LEMMA WithdrawStep ==
  ASSUME CallInv, NEW s \in Servers, Withdraw(s)
  PROVE  CallInv'
<1>1. query' \in [Call -> [Servers -> QPcs]]
  BY DEF CallInv, TypeOK, Withdraw, QPcs
<1>2. TypeOK'
  BY <1>1 DEF CallInv, TypeOK, Withdraw, stateVars, netVars
<1>3. \A c \in Call, q \in Servers :
        query[c][q] = "answered" => query'[c][q] = "answered"
  BY DEF CallInv, TypeOK, Withdraw
<1> QED
  BY <1>2, <1>3, ServiceSide DEF Withdraw, netVars

\* A service dies: what it had answered stays answered.
LEMMA CrashStep ==
  ASSUME CallInv, NEW s \in Servers, Crash(s)
  PROVE  CallInv'
<1>1. query' \in [Call -> [Servers -> QPcs]]
  BY DEF CallInv, TypeOK, Crash, QPcs
<1>2. TypeOK'
  BY <1>1 DEF CallInv, TypeOK, Crash, stateVars, netVars
<1>3. \A c \in Call, q \in Servers :
        query[c][q] = "answered" => query'[c][q] = "answered"
  BY DEF CallInv, TypeOK, Crash
<1> QED
  BY <1>2, <1>3, ServiceSide DEF Crash, netVars

\* A handler starts, on a query that was not answered.
LEMMA ServeStep ==
  ASSUME CallInv, NEW c \in Call, NEW s \in Servers, Serve(c, s)
  PROVE  CallInv'
<1>1. query' \in [Call -> [Servers -> QPcs]]
  BY DEF CallInv, TypeOK, Serve, QPcs
<1>2. TypeOK'
  BY <1>1 DEF CallInv, TypeOK, Serve, stateVars, netVars
<1>3. \A d \in Call, q \in Servers :
        query[d][q] = "answered" => query'[d][q] = "answered"
  BY DEF CallInv, TypeOK, Serve
<1> QED
  BY <1>2, <1>3, ServiceSide DEF Serve, netVars

\* The interpreter lock changes hands in the middle of a handler.
LEMMA SwitchStep ==
  ASSUME CallInv, NEW c \in Call, NEW s \in Servers, Take(c, s) \/ Give(c, s)
  PROVE  CallInv'
<1>1. /\ gil' \in {None} \cup (Call \X PyServers)
      /\ UNCHANGED <<tpc, n, stateVars, outcome, up, query, netVars>>
  BY DEF Take, Give
<1>2. TypeOK'
  BY <1>1 DEF CallInv, TypeOK, stateVars, netVars
<1> QED
  BY <1>1, <1>2, ServiceSide DEF netVars

\* A reply goes out only while its call is open.
LEMMA SendStep ==
  ASSUME CallInv, NEW c \in Call, NEW s \in Servers, NEW kind \in {"ok", "err"},
         Send(c, s, kind)
  PROVE  CallInv'
<1> DEFINE r == [call |-> c, by |-> s, kind |-> kind]
<1>1. r \in Reply /\ r.call = c /\ r.by = s
  BY DEF Reply
<1>2. replies' = IF c \in open THEN replies \cup {r} ELSE replies
  BY DEF Send
<1> HIDE DEF r
<1>3. query' \in [Call -> [Servers -> QPcs]] /\ query'[c][s] = "answered"
  BY DEF CallInv, TypeOK, Send, QPcs
<1>4. TypeOK'
  BY <1>1, <1>2, <1>3 DEF CallInv, TypeOK, Send, stateVars
<1>5. \A d \in Call, q \in Servers :
        query[d][q] = "answered" => query'[d][q] = "answered"
  BY DEF CallInv, TypeOK, Send
<1>6. \A q \in replies' \ replies : q.call \in open /\ query'[q.call][q.by] = "answered"
  BY <1>1, <1>2, <1>3
<1> QED
  BY <1>4, <1>5, <1>6, ServiceSide DEF Send

-----------------------------------------------------------------------------
\* on_reply stores into the State of the reply's own call.
LEMMA OnReplyStep ==
  ASSUME CallInv, NEW r \in replies, OnReply(r)
  PROVE  CallInv'
<1> DEFINE c == r.call
<1>1. /\ r \in Reply /\ c \in Call /\ c \in open
      /\ query[c][r.by] = "answered" /\ r.call = c
  BY DEF CallInv, TypeOK, AnswersInv, Reply
<1>2. c = <<c[1], c[2]>> /\ c[1] \in Threads /\ c[2] \in 1..MaxCalls
  BY <1>1, CallIsPair
<1>3. ~(c[2] > n[c[1]])
  BY <1>1, <1>2 DEF CallInv, BegunInv
<1>4. CASE ~done[c] /\ r.kind = "ok"
  <2> HIDE DEF c
  <2>1. /\ payload' = [payload EXCEPT ![c] = r]
        /\ ok' = [ok EXCEPT ![c] = TRUE]
        /\ captured' = IF outcome[c] = None THEN captured \cup {c} ELSE captured
        /\ replies' = replies \ {r}
        /\ UNCHANGED <<tpc, n, done, outcome, serverVars, open, notifying>>
    BY <1>4 DEF OnReply, c
  <2>2. TypeOK'
    BY <1>1, <2>1 DEF CallInv, TypeOK, serverVars
  <2>3. BegunInv'
    BY <1>2, <1>3, <2>1 DEF CallInv, TypeOK, BegunInv
  <2>4. WaitingInv' /\ NoSleepOnDone' /\ AnswerIsOwn'
    BY <2>1 DEF CallInv, WaitingInv, NoSleepOnDone, AnswerIsOwn, Current, serverVars
  <2>5. AnswersInv'
    BY <1>1, <1>4, <2>1 DEF CallInv, TypeOK, AnswersInv, serverVars
  <2>6. CapturedIsReturned'
    BY <2>1, ServiceAssumption DEF CallInv, CapturedIsReturned
  <2> QED
    BY <2>2, <2>3, <2>4, <2>5, <2>6 DEF CallInv
<1>5. CASE ~(~done[c] /\ r.kind = "ok")
  <2>1. /\ replies' = replies \ {r}
        /\ UNCHANGED <<tpc, n, stateVars, outcome, serverVars, open, notifying>>
    BY <1>5 DEF OnReply, stateVars
  <2>2. TypeOK' /\ BegunInv'
    BY <2>1 DEF CallInv, TypeOK, BegunInv, stateVars, serverVars
  <2>3. WaitingInv' /\ NoSleepOnDone'
    BY <2>1 DEF CallInv, WaitingInv, NoSleepOnDone, Current, stateVars
  <2>4. AnswersInv'
    BY <2>1 DEF CallInv, AnswersInv, stateVars, serverVars
  <2>5. AnswerIsOwn' /\ CapturedIsReturned'
    BY <2>1 DEF CallInv, AnswerIsOwn, CapturedIsReturned, stateVars, serverVars
  <2> QED
    BY <2>2, <2>3, <2>4, <2>5 DEF CallInv
<1> QED
  BY <1>4, <1>5

\* on_drop ends the query: no reply is kept, and the caller will be notified.
LEMMA OnDropStep ==
  ASSUME CallInv, NEW c \in Call, OnDrop(c)
  PROVE  CallInv'
<1>1. TypeOK'
  BY DEF CallInv, TypeOK, OnDrop, serverVars
<1>2. c = <<c[1], c[2]>> /\ c[1] \in Threads /\ c[2] \in 1..MaxCalls
  BY CallIsPair
<1>3. ~(c[2] > n[c[1]])
  BY <1>2 DEF CallInv, BegunInv, OnDrop
<1>4. BegunInv'
  BY <1>2, <1>3 DEF CallInv, TypeOK, BegunInv, OnDrop
<1>5. WaitingInv' /\ AnswerIsOwn' /\ CapturedIsReturned'
  BY DEF CallInv, WaitingInv, AnswerIsOwn, CapturedIsReturned, Current, OnDrop, serverVars
<1>6. AnswersInv'
  BY DEF CallInv, TypeOK, AnswersInv, OnDrop, serverVars
<1>7. NoSleepOnDone'
  BY DEF CallInv, TypeOK, NoSleepOnDone, Current, OnDrop
<1> QED
  BY <1>1, <1>4, <1>5, <1>6, <1>7 DEF CallInv

\* notify_all wakes the thread if it sleeps on this very call.
LEMMA NotifyStep ==
  ASSUME CallInv, NEW c \in Call, Notify(c)
  PROVE  CallInv'
<1>1. TypeOK'
  BY DEF CallInv, TypeOK, Notify, TPcs, stateVars, serverVars
<1>2. BegunInv' /\ AnswersInv' /\ AnswerIsOwn' /\ CapturedIsReturned'
  BY DEF CallInv, BegunInv, AnswersInv, AnswerIsOwn, CapturedIsReturned, Notify,
         stateVars, serverVars
<1>3. \A t \in Threads :
        /\ tpc'[t] # tpc[t] => tpc[t] = "asleep" /\ tpc'[t] = "woken"
        /\ tpc'[t] = "asleep" => Current(t) # c
  BY DEF Notify
<1>4. WaitingInv' /\ NoSleepOnDone'
  BY <1>3 DEF CallInv, WaitingInv, NoSleepOnDone, Current, Notify, stateVars
<1> QED
  BY <1>1, <1>2, <1>4 DEF CallInv

-----------------------------------------------------------------------------
\* Before the first call there is nothing.
LEMMA InitCallInv == Init => CallInv
<1> SUFFICES ASSUME Init PROVE CallInv
  OBVIOUS
<1>1. TypeOK
  BY ServiceAssumption DEF Init, TypeOK, TPcs, QPcs
<1>2. BegunInv /\ WaitingInv /\ AnswersInv /\ NoSleepOnDone
  BY DEF Init, BegunInv, WaitingInv, AnswersInv, NoSleepOnDone, Call
<1>3. AnswerIsOwn /\ CapturedIsReturned
  BY ServiceAssumption DEF Init, AnswerIsOwn, CapturedIsReturned
<1> QED
  BY <1>1, <1>2, <1>3 DEF CallInv

\* CallInv looks at nothing but the variables of the specification.
LEMMA StutterCallInv == CallInv /\ UNCHANGED vars => CallInv'
<1> SUFFICES ASSUME CallInv, UNCHANGED vars PROVE CallInv'
  OBVIOUS
<1> USE DEF CallInv, vars, stateVars, serverVars, netVars
<1>1. TypeOK' /\ BegunInv'
  BY DEF TypeOK, BegunInv
<1>2. WaitingInv' /\ NoSleepOnDone'
  BY DEF WaitingInv, NoSleepOnDone, Current
<1>3. AnswersInv'
  BY DEF AnswersInv
<1>4. AnswerIsOwn' /\ CapturedIsReturned'
  BY DEF AnswerIsOwn, CapturedIsReturned
<1> QED
  BY <1>1, <1>2, <1>3, <1>4

\* One step of a call, whoever takes it.
LEMMA NextCallInv == CallInv /\ Next => CallInv'
<1> SUFFICES ASSUME CallInv, Next PROVE CallInv'
  OBVIOUS
<1>1. CASE CallerNext
  BY <1>1, EnterStep, GetStep, GetFailsStep, LookStep, DeadlineStep, BackStep DEF CallerNext
<1>2. CASE ServerNext
  BY <1>2, AdvertiseStep, WithdrawStep, CrashStep, ServeStep, SwitchStep, SendStep
     DEF ServerNext, Answer, Fail
<1>3. CASE NetNext
  BY <1>3, OnReplyStep, OnDropStep, NotifyStep DEF NetNext, Finish, Expire
<1> QED
  BY <1>1, <1>2, <1>3 DEF Next

\* CallInv holds in every reachable state of a service call.
LEMMA CallInvariance == Spec => []CallInv
<1>1. CallInv /\ [Next]_vars => CallInv'
  BY NextCallInv, StutterCallInv
<1> QED
  BY <1>1, InitCallInv, PTL DEF Spec

\* What a call returns is an answer to its own request, however late replies
\* of earlier calls come in.
THEOREM AnswersAreOwn == Spec => []AnswerIsOwn
<1>1. CallInv => AnswerIsOwn
  BY DEF CallInv
<1> QED
  BY <1>1, CallInvariance, PTL

\* A call fails only if no answer had reached it.
THEOREM CapturedAnswersReturn == Spec => []CapturedIsReturned
<1>1. CallInv => CapturedIsReturned
  BY DEF CallInv
<1> QED
  BY <1>1, CallInvariance, PTL

\* No caller sleeps through the end of its query.
THEOREM NoLostNotification == Spec => []NoSleepOnDone
<1>1. CallInv => NoSleepOnDone
  BY DEF CallInv
<1> QED
  BY <1>1, CallInvariance, PTL

-----------------------------------------------------------------------------
(* A call that nobody will answer any more returns.  Unblocked is what     *)
(* Fairness says of the callers and the transport, with ENABLED written    *)
(* out.                                                                    *)

Looks(t)    == []<>~(tpc[t] \in {"sent", "woken"}) \/ []<><<Look(t)>>_vars
Finishes(c) == []<>~(c \in open /\ ~Pending(c)) \/ []<><<Finish(c)>>_vars
Notifies(c) == []<>~(c \in notifying) \/ []<><<Notify(c)>>_vars

Unblocked == /\ \A t \in Threads : Looks(t)
             /\ \A c \in Call : Finishes(c) /\ Notifies(c)

\* Thread t is in the wait of its k-th call, or has left it.
InCall(t, k)   == n[t] = k /\ tpc[t] \in {"sent", "asleep", "woken"}
Returned(t, k) == n[t] = k /\ tpc[t] = "back"

Unanswered(t, k) == InCall(t, k) /\ ~Pending(<<t, k>>)
Quiet(t, k)      == Unanswered(t, k) /\ <<t, k>> \in open
Sleeping(t, k)   == n[t] = k /\ tpc[t] = "asleep" /\ done[<<t, k>>] /\ <<t, k>> \in notifying
Awake(t, k)      == n[t] = k /\ tpc[t] \in {"sent", "woken"} /\ done[<<t, k>>]

\* A call that is waited for has its query open, or is done.
OpenOrDone ==
  \A t \in Threads : tpc[t] \in {"sent", "asleep", "woken"} =>
    Current(t) \in open \/ done[Current(t)]

\* The thread that waits, whoever moves.
LEMMA WaitMoves ==
  ASSUME CallInv, [Next]_vars, NEW t \in Threads, NEW k \in 1..MaxCalls, InCall(t, k)
  PROVE  LET c == <<t, k>> IN
         /\ InCall(t, k)' \/ Returned(t, k)'
         /\ done[c] => done'[c]
         /\ c \in open => c \in open' \/ done'[c]
         /\ tpc[t] = "asleep" /\ c \in notifying =>
              tpc'[t] \in {"woken", "back"} \/ (tpc'[t] = "asleep" /\ c \in notifying')
         /\ tpc[t] \in {"sent", "woken"} /\ done[c] => tpc'[t] \in {"sent", "woken", "back"}
<1> DEFINE c == <<t, k>>
<1>1. /\ c \in Call /\ c = Current(t) /\ n[t] = k /\ tpc[t] \in {"sent", "asleep", "woken"}
      /\ n \in [Threads -> 0..MaxCalls] /\ tpc \in [Threads -> TPcs] /\ done \in [Call -> BOOLEAN]
  BY DEF InCall, Call, Current, CallInv, TypeOK
<1> HIDE DEF c
<1> USE DEF InCall, Returned
<1>2. ASSUME NEW u \in Threads,
             Enter(u) \/ Get(u) \/ GetFails(u) \/ Look(u) \/ Deadline(u) \/ Back(u)
      PROVE  /\ u = t \/ (tpc'[t] = tpc[t] /\ n'[t] = n[t])
             /\ u = t => n'[t] = n[t] /\ tpc'[t] \in {"asleep", "back"}
             /\ u = t /\ done[c] => tpc'[t] = "back"
             /\ u = t /\ tpc[t] = "asleep" => tpc'[t] = "back"
             /\ done' = done /\ open \subseteq open' /\ notifying' = notifying
  BY <1>1, <1>2 DEF Enter, Get, GetFails, Look, Deadline, Back, Return, stateVars, netVars
<1>3. ASSUME ServerNext
      PROVE  UNCHANGED <<tpc, n, done, open, notifying>>
  BY <1>3 DEF ServerNext, Advertise, Withdraw, Crash, Serve, Take, Give, Answer, Fail, Send,
     stateVars, netVars
<1>4. ASSUME NEW r \in replies, OnReply(r)
      PROVE  UNCHANGED <<tpc, n, done, open, notifying>>
  BY <1>4 DEF OnReply
<1>5. ASSUME NEW d \in Call, OnDrop(d)
      PROVE  /\ UNCHANGED <<tpc, n>> /\ notifying \subseteq notifying'
             /\ done[c] => done'[c]
             /\ c \in open => c \in open' \/ done'[c]
  BY <1>1, <1>5 DEF OnDrop
<1>6. ASSUME NEW d \in Call, Notify(d)
      PROVE  /\ UNCHANGED <<n, done, open>>
             /\ tpc'[t] = tpc[t] \/ (tpc[t] = "asleep" /\ tpc'[t] = "woken")
             /\ d = c /\ tpc[t] = "asleep" => tpc'[t] = "woken"
             /\ d # c => (c \in notifying => c \in notifying')
  BY <1>1, <1>6 DEF Notify, stateVars
<1>7. ASSUME UNCHANGED vars PROVE UNCHANGED <<tpc, n, done, open, notifying>>
  BY <1>7 DEF vars, stateVars, netVars
<1>8. CASE CallerNext
  BY <1>1, <1>2, <1>8 DEF CallerNext, c
<1>9. CASE NetNext
  BY <1>1, <1>4, <1>5, <1>6, <1>9 DEF NetNext, Finish, Expire, c
<1> QED BY <1>1, <1>3, <1>7, <1>8, <1>9 DEF Next, c

\* Nobody takes a query up again, and no answer comes to it from nowhere.
LEMMA StaysUnanswered ==
  ASSUME CallInv, [Next]_vars, NEW t \in Threads, NEW k \in 1..MaxCalls, InCall(t, k),
         ~Pending(<<t, k>>)
  PROVE  ~Pending(<<t, k>>)'
<1> DEFINE c == <<t, k>>
<1>1. /\ c \in Call /\ c[1] = t /\ tpc[t] # "ready"
      /\ query \in [Call -> [Servers -> QPcs]]
      /\ \A s \in Servers : query[c][s] \notin {"asked", "handling"}
      /\ \A r \in replies : r.call # c
  BY DEF InCall, Call, CallInv, TypeOK, Pending
<1> HIDE DEF c
<1> SUFFICES /\ \A s \in Servers : query'[c][s] \notin {"asked", "handling"}
             /\ \A r \in replies' : r.call # c
  BY DEF Pending, c
<1>2. ASSUME NEW u \in Threads, Get(u) PROVE query'[c] = query[c] /\ replies' = replies
  <2>1. <<u, n[u] + 1>> # c
    BY <1>1, <1>2 DEF Get, c
  <2> QED BY <1>1, <1>2, <2>1 DEF Get
<1>3. ASSUME NEW u \in Threads, Enter(u) \/ GetFails(u) \/ Look(u) \/ Deadline(u) \/ Back(u)
      PROVE  UNCHANGED <<query, replies>>
  BY <1>3 DEF Enter, GetFails, Look, Deadline, Back, Return, serverVars, netVars
<1>4. ASSUME NEW s \in Servers, Advertise(s) \/ Withdraw(s) \/ Crash(s)
      PROVE  /\ \A v \in Servers : query'[c][v] \notin {"asked", "handling"}
             /\ replies' = replies
  BY <1>1, <1>4 DEF Advertise, Withdraw, Crash, netVars
<1>5. ASSUME NEW d \in Call, NEW s \in Servers,
             \/ Serve(d, s) \/ Take(d, s) \/ Give(d, s) \/ Answer(d, s) \/ Fail(d, s)
      PROVE  /\ query'[c] = query[c]
             /\ \A r \in replies' : r.call # c
  <2>1. CASE Take(d, s) \/ Give(d, s)
    BY <1>1, <2>1 DEF Take, Give, netVars
  <2>2. CASE Serve(d, s) \/ Answer(d, s) \/ Fail(d, s)
    <3>1. d # c
      BY <1>1, <2>2 DEF Serve, Answer, Fail, Send
    <3> QED BY <1>1, <2>2, <3>1 DEF Serve, Answer, Fail, Send, netVars
  <2> QED BY <1>5, <2>1, <2>2
<1>6. ASSUME (\E r \in replies : OnReply(r)) \/ (\E d \in Call : Finish(d) \/ Expire(d) \/ Notify(d))
      PROVE  query' = query /\ replies' \subseteq replies
  BY <1>6 DEF OnReply, Finish, Expire, OnDrop, Notify, serverVars
<1>7. ASSUME UNCHANGED vars PROVE UNCHANGED <<query, replies>>
  BY <1>7 DEF vars, serverVars, netVars
<1>8. CASE CallerNext
  BY <1>1, <1>2, <1>3, <1>8 DEF CallerNext
<1>9. CASE ServerNext
  BY <1>1, <1>4, <1>5, <1>9 DEF ServerNext
<1>10. CASE NetNext
  BY <1>1, <1>6, <1>10 DEF NetNext
<1> QED BY <1>1, <1>7, <1>8, <1>9, <1>10 DEF Next

\* A call that is waited for is still asked, or over.
LEMMA CallsOpenOrDone == Spec => []OpenOrDone
<1>1. Init => OpenOrDone
  BY DEF Init, OpenOrDone
<1>2. CallInv /\ OpenOrDone /\ [Next]_vars => OpenOrDone'
  <2> SUFFICES ASSUME CallInv, OpenOrDone, [Next]_vars, NEW t \in Threads,
                      tpc'[t] \in {"sent", "asleep", "woken"}
               PROVE  <<t, n'[t]>> \in open' \/ done'[<<t, n'[t]>>]
    BY DEF OpenOrDone, Current
  <2>1. CASE tpc[t] \in {"sent", "asleep", "woken"}
    <3> DEFINE k == n[t]
    <3>1. k \in 1..MaxCalls /\ InCall(t, k)
      BY <2>1 DEF CallInv, WaitingInv, InCall
    <3>2. <<t, k>> \in open \/ done[<<t, k>>]
      BY <2>1 DEF OpenOrDone, Current
    <3> HIDE DEF k
    <3>3. <<t, k>> \in open' \/ done'[<<t, k>>]
      BY <3>1, <3>2, WaitMoves
    <3>4. n'[t] = k
      BY <3>1, WaitMoves DEF InCall, Returned
    <3> QED BY <3>3, <3>4
  <2>2. CASE tpc[t] \in {"out", "ready", "back"}
    <3>1. ASSUME NEW u \in Threads, Get(u) PROVE u = t \/ tpc'[t] = tpc[t]
      BY <3>1 DEF Get, CallInv, TypeOK
    <3>2. ASSUME NEW u \in Threads, Enter(u) \/ GetFails(u) \/ Look(u) \/ Deadline(u) \/ Back(u)
          PROVE  tpc'[t] \in {"out", "ready", "back"}
      BY <2>2, <3>2 DEF Enter, GetFails, Look, Deadline, Back, Return, CallInv, TypeOK
    <3>3. ServerNext \/ NetNext \/ UNCHANGED vars => tpc'[t] = tpc[t]
      BY <2>2 DEF ServerNext, Advertise, Withdraw, Crash, Serve, Take, Give, Answer, Fail, Send,
         NetNext, OnReply, Finish, Expire, OnDrop, Notify, vars, CallInv, TypeOK
    <3>4. Get(t)
      BY <2>2, <3>1, <3>2, <3>3 DEF Next, CallerNext
    <3> QED BY <3>4 DEF Get, CallInv, TypeOK
  <2> QED BY <2>1, <2>2 DEF CallInv, TypeOK, TPcs
<1> QED BY <1>1, <1>2, CallInvariance, PTL DEF Spec

\* A call that no handler and no reply can still answer returns: there was no service, or
\* it failed, or it is gone, or all answers have been taken.  Neither timeout is needed.
THEOREM UnansweredCallsReturn ==
  ASSUME NEW t \in Threads, NEW k \in 1..MaxCalls
  PROVE  Spec /\ Unblocked => (Unanswered(t, k) ~> Returned(t, k))
<1> DEFINE c == <<t, k>>
<1>1. c \in Call
  BY DEF Call
<1>2. Unblocked => Looks(t) /\ Finishes(c) /\ Notifies(c)
  BY <1>1 DEF Unblocked
<1>3. Spec => [](CallInv /\ OpenOrDone)
  BY CallInvariance, CallsOpenOrDone, PTL
<1>4. Spec /\ Unblocked => (Quiet(t, k) ~> Sleeping(t, k) \/ Awake(t, k) \/ Returned(t, k))
  <2>0. CallInv /\ [Next]_vars => CallInv'
    BY NextCallInv, StutterCallInv
  <2>1. CallInv /\ Quiet(t, k) /\ [Next]_vars
          => Quiet(t, k)' \/ Sleeping(t, k)' \/ Awake(t, k)' \/ Returned(t, k)'
    <3> SUFFICES ASSUME CallInv, Quiet(t, k), [Next]_vars
                 PROVE  Quiet(t, k)' \/ Sleeping(t, k)' \/ Awake(t, k)' \/ Returned(t, k)'
      OBVIOUS
    <3>1. /\ InCall(t, k)' \/ Returned(t, k)'
          /\ c \in open' \/ done'[c]
          /\ ~Pending(c)'
      BY WaitMoves, StaysUnanswered DEF Quiet, Unanswered
    <3>2. InCall(t, k)' /\ done'[c] => Sleeping(t, k)' \/ Awake(t, k)'
      BY <2>0 DEF CallInv, NoSleepOnDone, InCall, Sleeping, Awake, Current
    <3> QED BY <3>1, <3>2 DEF Quiet, Unanswered
  <2>2. CallInv /\ Quiet(t, k) /\ [Next]_vars /\ <<Finish(c)>>_vars
          => Sleeping(t, k)' \/ Awake(t, k)' \/ Returned(t, k)'
    <3> SUFFICES ASSUME CallInv, Quiet(t, k), [Next]_vars, Finish(c)
                 PROVE  Sleeping(t, k)' \/ Awake(t, k)' \/ Returned(t, k)'
      OBVIOUS
    <3>1. InCall(t, k)' \/ Returned(t, k)'
      BY WaitMoves DEF Quiet, Unanswered
    <3>2. done'[c]
      BY <1>1 DEF Finish, OnDrop, CallInv, TypeOK
    <3> QED BY <2>0, <3>1, <3>2 DEF CallInv, NoSleepOnDone, InCall, Sleeping, Awake, Current
  <2>3. Quiet(t, k) => c \in open /\ ~Pending(c)
    BY DEF Quiet, Unanswered
  <2> QED BY <1>2, <1>3, <2>1, <2>2, <2>3, PTL DEF Spec, Finishes
<1>5. Spec /\ Unblocked => (Sleeping(t, k) ~> Awake(t, k) \/ Returned(t, k))
  <2>1. CallInv /\ Sleeping(t, k) /\ [Next]_vars
          => Sleeping(t, k)' \/ Awake(t, k)' \/ Returned(t, k)'
    BY WaitMoves DEF Sleeping, Awake, Returned, InCall
  <2>2. CallInv /\ Sleeping(t, k) /\ <<Notify(c)>>_vars => Awake(t, k)' \/ Returned(t, k)'
    BY DEF Sleeping, Awake, Notify, Current, CallInv, TypeOK, stateVars
  <2>3. Sleeping(t, k) => c \in notifying
    BY DEF Sleeping
  <2> QED BY <1>2, <1>3, <2>1, <2>2, <2>3, PTL DEF Spec, Notifies
<1>6. Spec /\ Unblocked => (Awake(t, k) ~> Returned(t, k))
  <2>1. CallInv /\ Awake(t, k) /\ [Next]_vars => Awake(t, k)' \/ Returned(t, k)'
    BY WaitMoves DEF Awake, Returned, InCall
  <2>2. CallInv /\ Awake(t, k) /\ <<Look(t)>>_vars => Returned(t, k)'
    BY DEF Awake, Returned, Look, Return, Current, CallInv, TypeOK
  <2>3. Awake(t, k) => tpc[t] \in {"sent", "woken"}
    BY DEF Awake
  <2> QED BY <1>2, <1>3, <2>1, <2>2, <2>3, PTL DEF Spec, Looks
<1>7. CallInv /\ OpenOrDone /\ Unanswered(t, k)
        => Quiet(t, k) \/ Sleeping(t, k) \/ Awake(t, k)
  BY DEF Unanswered, Quiet, Sleeping, Awake, InCall, OpenOrDone, CallInv, NoSleepOnDone, Current
<1> QED BY <1>3, <1>4, <1>5, <1>6, <1>7, PTL

-----------------------------------------------------------------------------
(* The interpreter lock of a process whose threads call and serve.         *)

\* A caller takes the lock when nobody has it, and gives it up as it begins to wait; a
\* new query has no handler yet.
LEMMA CallerLock ==
  ASSUME CallInv, LockInv, NEW t \in Threads,
         Enter(t) \/ Get(t) \/ GetFails(t) \/ Look(t) \/ Deadline(t) \/ Back(t)
  PROVE  /\ LockInv'
         /\ gil' = gil \/ gil = None \/ (gil = t /\ gil' = None)
<1>1. /\ query \in [Call -> [Servers -> QPcs]] /\ tpc \in [Threads -> TPcs]
      /\ n \in [Threads -> 0..MaxCalls] /\ n[t] \in Nat
      /\ \A u \in Threads, k \in 1..MaxCalls : <<u, k>> \in Call
      /\ \A u \in PyThreads : u \in Threads /\ u # None
      /\ \A u \in PyThreads : gil = u <=> tpc[u] = "ready"
      /\ \A c \in Call, s \in PyServers : <<c, s>> # None /\ <<c, s>> \notin PyThreads
      /\ \A c \in Call, s \in PyServers : gil = <<c, s>> => query[c][s] = "handling"
  BY ServiceAssumption DEF CallInv, TypeOK, LockInv, LockIsRunners, Call
<1>2. CASE Enter(t)
  <2>1. /\ tpc[t] = "out" /\ tpc' = [tpc EXCEPT ![t] = "ready"] /\ UNCHANGED <<n, query>>
        /\ IF t \in PyThreads THEN gil = None /\ gil' = t ELSE gil' = gil
    BY <1>2 DEF Enter
  <2>2. NotAsked'
    BY <2>1 DEF LockInv, NotAsked
  <2>3. CASE t \in PyThreads
    <3>1. LockIsRunners'
      BY <1>1, <2>1, <2>3 DEF LockIsRunners
    <3> QED BY <2>1, <2>2, <2>3, <3>1 DEF LockInv
  <2>4. CASE t \notin PyThreads
    <3>1. LockIsRunners'
      BY <1>1, <2>1, <2>4 DEF LockIsRunners
    <3> QED BY <2>1, <2>2, <2>4, <3>1 DEF LockInv
  <2> QED BY <2>3, <2>4
<1>3. CASE Get(t) \/ GetFails(t)
  <2>1. \E next \in TPcs \ {"ready"} : tpc' = [tpc EXCEPT ![t] = next]
    BY <1>3 DEF Get, GetFails, TPcs
  <2>2. /\ tpc[t] = "ready" /\ n' = [n EXCEPT ![t] = @ + 1]
        /\ gil' = IF gil = t THEN None ELSE gil
    BY <1>3 DEF Get, GetFails, Released
  <2>3. /\ \A c \in Call, s \in Servers : query[c][s] = "handling" => query'[c][s] = "handling"
        /\ \A u \in Threads, k \in 1..MaxCalls, s \in Servers :
             k > n'[u] /\ query[<<u, k>>][s] = "none" => query'[<<u, k>>][s] = "none"
    <3>1. CASE GetFails(t)
      BY <3>1 DEF GetFails
    <3>2. CASE Get(t)
      <4> DEFINE d == <<t, n[t] + 1>>
                 q == [v \in Servers |-> IF v \in up THEN "asked" ELSE "none"]
      <4>1. query' = [query EXCEPT ![d] = q]
        BY <3>2 DEF Get
      <4>2. d \in Call /\ \A s \in Servers : query[d][s] = "none"
        BY <1>1, <2>2, ServiceAssumption DEF CallInv, WaitingInv, LockInv, NotAsked, Call
      <4>3. \A u \in Threads, k \in 1..MaxCalls : k > n'[u] => <<u, k>> # d
        BY <1>1, <2>2
      <4> HIDE DEF d, q
      <4>4. \A c \in Call : query'[c] = IF c = d THEN q ELSE query[c]
        BY <1>1, <4>1
      <4> QED BY <1>1, <4>2, <4>3, <4>4
    <3> QED BY <1>3, <3>1, <3>2
  <2>4. NotAsked'
    <3>1. \A u \in Threads, k \in 1..MaxCalls : k > n'[u] => k > n[u]
      BY <1>1, <2>2
    <3> QED BY <2>3, <3>1 DEF LockInv, NotAsked
  <2>5. \A u \in PyThreads : gil' = u <=> tpc'[u] = "ready"
    BY <1>1, <2>1, <2>2
  <2>6. \A c \in Call, s \in PyServers : gil' = <<c, s>> => query'[c][s] = "handling"
    BY <1>1, <2>2, <2>3, ServiceAssumption
  <2> QED BY <2>2, <2>4, <2>5, <2>6 DEF LockInv, LockIsRunners
<1>4. CASE Look(t) \/ Deadline(t) \/ Back(t)
  <2>1. UNCHANGED <<n, query, gil>>
    BY <1>4 DEF Look, Deadline, Back, Return, serverVars
  <2>2. \E next \in TPcs \ {"ready"} : tpc' = [tpc EXCEPT ![t] = next]
    BY <1>4 DEF Look, Deadline, Back, Return, TPcs
  <2>3. tpc[t] # "ready"
    BY <1>4 DEF Look, Deadline, Back
  <2>4. \A u \in PyThreads : gil = u <=> tpc'[u] = "ready"
    BY <1>1, <2>2, <2>3
  <2> QED BY <2>1, <2>4 DEF LockInv, LockIsRunners, NotAsked
<1> QED BY <1>2, <1>3, <1>4

\* Services come and go without their handlers: only a process that is not the Python
\* one takes those with it.
LEMMA ServiceLock ==
  ASSUME CallInv, LockInv, NEW v \in Servers, Advertise(v) \/ Withdraw(v) \/ Crash(v)
  PROVE  LockInv' /\ gil' = gil
<1>1. UNCHANGED <<gil, n, tpc>>
  BY DEF Advertise, Withdraw, Crash
<1>2. \A c \in Call, s \in PyServers :
        query[c][s] = "handling" => query'[c][s] = "handling"
  BY ServiceAssumption DEF Advertise, Withdraw, Crash, CallInv, TypeOK
<1>3. \A c \in Call, s \in Servers : query[c][s] = "none" => query'[c][s] = "none"
  BY DEF Advertise, Withdraw, Crash, CallInv, TypeOK
<1>4. LockIsRunners'
  BY <1>1, <1>2 DEF LockInv, LockIsRunners
<1>5. NotAsked'
  BY <1>1, <1>3 DEF LockInv, NotAsked, Call
<1> QED BY <1>1, <1>4, <1>5 DEF LockInv

\* A handler takes the lock when nobody has it, and is the one to give it back.
LEMMA HandlerLock ==
  ASSUME CallInv, LockInv, NEW d \in Call, NEW v \in Servers,
         Serve(d, v) \/ Take(d, v) \/ Give(d, v) \/ Answer(d, v) \/ Fail(d, v)
  PROVE  /\ LockInv'
         /\ gil' = gil \/ gil = None \/ (gil = <<d, v>> /\ gil' = None)
<1>1. /\ query \in [Call -> [Servers -> QPcs]] /\ UNCHANGED <<n, tpc>>
      /\ \A u \in PyThreads : u # None
      /\ \A c \in Call, s \in PyServers : <<c, s>> # None /\ <<c, s>> \notin PyThreads
      /\ \A u \in PyThreads : gil = u <=> tpc[u] = "ready"
      /\ \A c \in Call, s \in PyServers : gil = <<c, s>> => query[c][s] = "handling"
  BY ServiceAssumption
     DEF Serve, Take, Give, Answer, Fail, Send, CallInv, TypeOK, LockInv, LockIsRunners
<1>2. CASE Serve(d, v)
  <2>1. gil' = gil /\ query[d][v] = "asked" /\ query' = [query EXCEPT ![d][v] = "handling"]
    BY <1>2 DEF Serve
  <2>2. \A c \in Call, s \in Servers :
          query'[c][s] = IF c = d /\ s = v THEN "handling" ELSE query[c][s]
    BY <1>1, <2>1
  <2>3. LockIsRunners'
    BY <1>1, <2>1, <2>2, ServiceAssumption DEF LockIsRunners
  <2>4. NotAsked'
    BY <1>1, <2>1, <2>2 DEF LockInv, NotAsked, Call
  <2> QED BY <2>1, <2>3, <2>4 DEF LockInv
<1>3. CASE Take(d, v) \/ Give(d, v)
  <2>1. UNCHANGED query
    BY <1>3 DEF Take, Give
  <2>2. NotAsked'
    BY <1>1, <2>1 DEF LockInv, NotAsked
  <2>3. CASE Take(d, v)
    <3>1. gil = None /\ gil' = <<d, v>> /\ query[d][v] = "handling" /\ v \in PyServers
      BY <2>3 DEF Take
    <3>2. LockIsRunners'
      BY <1>1, <2>1, <3>1 DEF LockIsRunners
    <3> QED BY <2>2, <3>1, <3>2 DEF LockInv
  <2>4. CASE Give(d, v)
    <3>1. gil = <<d, v>> /\ gil' = None
      BY <2>4 DEF Give
    <3>2. <<d, v>> \notin PyThreads
      BY ServiceAssumption
    <3>3. LockIsRunners'
      BY <1>1, <2>1, <3>1, <3>2 DEF LockIsRunners
    <3> QED BY <2>2, <3>1, <3>3 DEF LockInv
  <2> QED BY <1>3, <2>3, <2>4
<1>4. CASE Answer(d, v) \/ Fail(d, v)
  <2>1. /\ query' = [query EXCEPT ![d][v] = "answered"] /\ query[d][v] = "handling"
        /\ v \in PyServers => gil = <<d, v>> /\ gil' = None
        /\ v \notin PyServers => gil' = gil
    BY <1>4 DEF Answer, Fail, Send
  <2>2. \A c \in Call, s \in Servers :
          query'[c][s] = IF c = d /\ s = v THEN "answered" ELSE query[c][s]
    BY <1>1, <2>1
  <2>3. LockIsRunners'
    BY <1>1, <2>1, <2>2, ServiceAssumption DEF LockIsRunners
  <2>4. NotAsked'
    BY <1>1, <2>1, <2>2 DEF LockInv, NotAsked, Call
  <2> QED BY <2>1, <2>3, <2>4 DEF LockInv
<1> QED BY <1>2, <1>3, <1>4

\* Only who has the lock gives it up.
LEMMA LockStep ==
  ASSUME CallInv, LockInv, [Next]_vars
  PROVE  LockInv' /\ (gil' = gil \/ gil = None \/ gil' = None)
<1>1. CASE CallerNext
  BY <1>1, CallerLock DEF CallerNext
<1>2. CASE ServerNext
  BY <1>2, ServiceLock, HandlerLock DEF ServerNext
<1>3. ASSUME NEW c \in Call, Notify(c)
      PROVE  /\ UNCHANGED <<n, query, gil>>
             /\ \A t \in PyThreads : tpc'[t] = "ready" <=> tpc[t] = "ready"
  BY <1>3, ServiceAssumption DEF Notify, serverVars
<1>4. ASSUME (\E r \in replies : OnReply(r)) \/ (\E c \in Call : OnDrop(c)) \/ UNCHANGED vars
      PROVE  UNCHANGED <<n, query, gil, tpc>>
  BY <1>4 DEF OnReply, OnDrop, vars, serverVars
<1>5. CASE NetNext \/ UNCHANGED vars
  <2>1. /\ UNCHANGED <<n, query, gil>>
        /\ \A t \in PyThreads : tpc'[t] = "ready" <=> tpc[t] = "ready"
    BY <1>3, <1>4, <1>5 DEF NetNext, Finish, Expire
  <2> QED BY <2>1 DEF LockInv, LockIsRunners, NotAsked
<1> QED BY <1>1, <1>2, <1>5 DEF Next

LEMMA LockInvariance == Spec => []LockInv
<1>1. Init => LockInv
  <2> SUFFICES ASSUME Init PROVE LockInv
    OBVIOUS
  <2>1. NotAsked
    BY DEF Init, NotAsked, Call
  <2>2. LockIsRunners
    BY ServiceAssumption DEF Init, LockIsRunners
  <2> QED BY <2>1, <2>2 DEF LockInv
<1> QED BY <1>1, LockStep, CallInvariance, PTL DEF Spec

-----------------------------------------------------------------------------
(* A thread is in one call at a time.                                      *)

\* Where the threads are and what they have returned, whoever moves.
LEMMA CallersMove ==
  ASSUME CallInv, [Next]_vars
  PROVE  \/ \E t \in Threads : Get(t) /\ outcome' = outcome
         \/ \E t \in Threads : GetFails(t)
         \/ \E t \in Threads : Return(t) /\ tpc[t] \in {"sent", "asleep", "woken"}
         \/ /\ UNCHANGED <<n, outcome>>
            /\ \A t \in Threads : tpc[t] \in {"sent", "asleep", "woken"} =>
                                   tpc'[t] \in {"sent", "asleep", "woken"}
<1> USE DEF CallInv, TypeOK
<1>1. ASSUME NEW t \in Threads, Look(t)
      PROVE  \/ Return(t) /\ tpc[t] \in {"sent", "woken"}
             \/ UNCHANGED <<n, outcome>> /\ tpc' = [tpc EXCEPT ![t] = "asleep"]
  BY <1>1 DEF Look
<1>2. ASSUME NEW t \in Threads, Back(t) \/ Enter(t)
      PROVE  /\ UNCHANGED <<n, outcome>> /\ tpc[t] \in {"back", "out"}
             /\ tpc' = [tpc EXCEPT ![t] = IF Back(t) THEN "out" ELSE "ready"]
  BY <1>2 DEF Back, Enter
<1>3. CASE CallerNext
  BY <1>1, <1>2, <1>3 DEF CallerNext, Get, Deadline
<1>4. CASE ServerNext
  <2>1. UNCHANGED <<tpc, n, outcome>>
    <3> HIDE DEF CallInv, TypeOK
    <3>1. ASSUME NEW s \in Servers, Advertise(s) \/ Withdraw(s) \/ Crash(s)
          PROVE  UNCHANGED <<tpc, n, outcome>>
      BY <3>1 DEF Advertise, Withdraw, Crash
    <3>2. ASSUME NEW c \in Call, NEW s \in Servers, Serve(c, s) \/ Take(c, s) \/ Give(c, s)
          PROVE  UNCHANGED <<tpc, n, outcome>>
      BY <3>2 DEF Serve, Take, Give
    <3>3. ASSUME NEW c \in Call, NEW s \in Servers, Answer(c, s) \/ Fail(c, s)
          PROVE  UNCHANGED <<tpc, n, outcome>>
      BY <3>3 DEF Answer, Fail, Send
    <3> QED BY <1>4, <3>1, <3>2, <3>3 DEF ServerNext
  <2> QED BY <2>1
<1>5. ASSUME NEW r \in replies, OnReply(r) PROVE UNCHANGED <<tpc, n, outcome>>
  BY <1>5 DEF OnReply
<1>6. ASSUME NEW c \in Call, OnDrop(c) PROVE UNCHANGED <<tpc, n, outcome>>
  BY <1>6 DEF OnDrop
<1>7. ASSUME NEW c \in Call, Notify(c)
      PROVE  /\ UNCHANGED <<n, outcome>>
             /\ \A t \in Threads : tpc'[t] = tpc[t] \/ tpc'[t] = "woken"
  BY <1>7 DEF Notify
<1>8. CASE NetNext
  BY <1>5, <1>6, <1>7, <1>8 DEF NetNext, Finish, Expire
<1>9. CASE UNCHANGED vars
  BY <1>9 DEF vars
<1> QED BY <1>3, <1>4, <1>8, <1>9 DEF Next

LEMMA OnceStep ==
  ASSUME CallInv, OnceInv, [Next]_vars
  PROVE  OnceInv'
<1> SUFFICES ASSUME NEW t \in Threads, NEW k \in 1..MaxCalls,
                    k <= n'[t], outcome'[<<t, k>>] = None
             PROVE  k = n'[t] /\ tpc'[t] \in {"sent", "asleep", "woken"}
  BY DEF OnceInv
<1>1. /\ n \in [Threads -> 0..MaxCalls] /\ tpc \in [Threads -> TPcs]
      /\ outcome \in [Call -> Reply \cup {None, Failed}] /\ <<t, k>> \in Call
  BY DEF CallInv, TypeOK, Call
<1>2. k <= n[t] /\ outcome[<<t, k>>] = None =>
        k = n[t] /\ tpc[t] \in {"sent", "asleep", "woken"}
  BY DEF OnceInv
<1>3. ASSUME NEW u \in Threads, Get(u), outcome' = outcome
      PROVE  k = n'[t] /\ tpc'[t] \in {"sent", "asleep", "woken"}
  <2>1. /\ n' = [n EXCEPT ![u] = @ + 1] /\ tpc' = [tpc EXCEPT ![u] = "sent"]
        /\ tpc[u] = "ready"
    BY <1>3 DEF Get
  <2>2. CASE u = t
    <3>1. n'[t] = n[t] + 1 /\ tpc'[t] = "sent" /\ n[t] \in Nat
      BY <1>1, <2>1, <2>2, ServiceAssumption
    <3>2. ~(k <= n[t])
      BY <1>2, <1>3, <2>1, <2>2
    <3> QED BY <3>1, <3>2
  <2>3. CASE u # t
    BY <1>1, <1>2, <1>3, <2>1, <2>3
  <2> QED BY <2>2, <2>3
<1>4. ASSUME NEW u \in Threads, Return(u), tpc[u] \in {"sent", "asleep", "woken"}
      PROVE  k = n'[t] /\ tpc'[t] \in {"sent", "asleep", "woken"}
  <2>1. /\ n' = n /\ tpc' = [tpc EXCEPT ![u] = "back"]
        /\ outcome' = [outcome EXCEPT ![Current(u)] =
                         IF ok[Current(u)] THEN payload[Current(u)] ELSE Failed]
    BY <1>4 DEF Return
  <2>2. ok[Current(u)] => payload[Current(u)] \in Reply
    BY <1>4, CurrentIsCall DEF CallInv, AnswersInv
  <2>3. Current(u) # <<t, k>>
    BY <1>1, <2>1, <2>2, ServiceAssumption
  <2>4. outcome[<<t, k>>] = None
    BY <1>1, <2>1, <2>3
  <2>5. k = n[t]
    BY <1>2, <2>1, <2>4
  <2>6. u # t
    BY <2>3, <2>5 DEF Current
  <2> QED BY <1>1, <1>2, <2>1, <2>4, <2>6
<1>5. ASSUME NEW u \in Threads, GetFails(u)
      PROVE  k = n'[t] /\ tpc'[t] \in {"sent", "asleep", "woken"}
  <2>1. /\ n' = [n EXCEPT ![u] = @ + 1] /\ tpc' = [tpc EXCEPT ![u] = "back"]
        /\ tpc[u] = "ready" /\ outcome' = [outcome EXCEPT ![<<u, n[u] + 1>>] = Failed]
    BY <1>5 DEF GetFails
  <2>2. <<t, k>> # <<u, n[u] + 1>> /\ outcome[<<t, k>>] = None
    BY <1>1, <2>1, ServiceAssumption
  <2>3. CASE u = t
    <3>1. k <= n[t]
      BY <1>1, <2>1, <2>2, <2>3, ServiceAssumption
    <3> QED BY <1>2, <2>1, <2>2, <2>3, <3>1
  <2>4. CASE u # t
    BY <1>1, <1>2, <2>1, <2>2, <2>4
  <2> QED BY <2>3, <2>4
<1>6. CASE /\ UNCHANGED <<n, outcome>>
           /\ \A u \in Threads : tpc[u] \in {"sent", "asleep", "woken"} =>
                                  tpc'[u] \in {"sent", "asleep", "woken"}
  BY <1>2, <1>6
<1> QED BY <1>3, <1>4, <1>5, <1>6, CallersMove

\* A call is over before its thread makes the next one.
LEMMA OnceInvariance == Spec => []OnceInv
<1>1. Init => OnceInv
  BY ServiceAssumption DEF Init, OnceInv
<1> QED BY <1>1, OnceStep, CallInvariance, PTL DEF Spec

\* IInv holds in every state of the calls, their services and the lock.
THEOREM ServiceInvariance == Spec => []IInv
BY CallInvariance, LockInvariance, OnceInvariance, PTL DEF IInv

\* However calls, handlers, switches, timeouts and vanishing services interleave, the
\* interpreter lock is with a thread on its way to a call or with a handler that has
\* begun and not ended, never with a thread that waits for an answer.
THEOREM LockIsWithARunner == Spec => []LockIsRunners
<1>1. LockInv => LockIsRunners
  BY DEF LockInv
<1> QED BY <1>1, LockInvariance, PTL

-----------------------------------------------------------------------------
(* A service call keeps CallContract.                                      *)

Due      == Requests({"asked", "handling"})
Answered == Requests({"answered"})

LEMMA ContractInit == Init => Contract!Init
<1> SUFFICES ASSUME Init PROVE Contract!Init
  OBVIOUS
<1>1. Due = {} /\ Answered = {}
  BY DEF Init, Due, Answered, Requests
<1>2. Kept = [c \in Call |-> None] /\ Outcomes = [c \in Call |-> None]
  BY ServiceAssumption DEF Init, Kept, Outcomes
<1> QED BY <1>1, <1>2 DEF Init, Contract!Init, Contract!Call, Call, Due, Answered

\* A thread that comes to a call has returned from the earlier ones.
LEMMA EarlierReturned ==
  ASSUME IInv, NEW t \in Threads, tpc[t] = "ready"
  PROVE  \A k \in 1..n[t] : Outcomes[<<t, k>>] # None
<1> SUFFICES ASSUME NEW k \in 1..n[t] PROVE Outcomes[<<t, k>>] # None
  OBVIOUS
<1>1. k \in 1..MaxCalls /\ k <= n[t] /\ <<t, k>> \in Call
  BY ServiceAssumption DEF IInv, CallInv, TypeOK, Call
<1>2. outcome[<<t, k>>] # None /\ outcome[<<t, k>>] \in Reply \cup {Failed, None}
  BY <1>1 DEF IInv, OnceInv, CallInv, TypeOK
<1>3. \A r \in Reply : r.by # None
  BY ServiceAssumption DEF Reply
<1> QED BY <1>1, <1>2, <1>3, ServiceAssumption DEF Outcomes

\* Get begins a call with a request to every service that is declared.
LEMMA ContractGet ==
  ASSUME IInv, NEW t \in Threads, Get(t)
  PROVE  Contract!Next
<1> DEFINE d == <<t, n[t] + 1>>
<1>1. /\ n[t] \in Nat /\ n[t] < MaxCalls /\ d \in Call /\ tpc[t] = "ready"
      /\ n' = [n EXCEPT ![t] = @ + 1] /\ UNCHANGED <<stateVars, outcome>>
      /\ query \in [Call -> [Servers -> QPcs]] /\ up \in SUBSET Servers
      /\ query' = [query EXCEPT ![d] = [s \in Servers |-> IF s \in up THEN "asked" ELSE "none"]]
  BY ServiceAssumption DEF Get, IInv, CallInv, TypeOK, WaitingInv, Call
<1>2. \A s \in Servers : query[d][s] = "none"
  BY <1>1 DEF IInv, LockInv, NotAsked, Call
<1>3. \A k \in 1..n[t] : Outcomes[<<t, k>>] # None
  BY <1>1, EarlierReturned
<1> HIDE DEF d
<1>4. \A c \in Call, s \in Servers :
        query'[c][s] = IF c = d THEN IF s \in up THEN "asked" ELSE "none" ELSE query[c][s]
  BY <1>1
<1>5. Due' = Due \cup ({d} \X up)
  <2>1. ASSUME NEW c \in Call, NEW s \in Servers
        PROVE  query'[c][s] \in {"asked", "handling"} <=>
                 query[c][s] \in {"asked", "handling"} \/ (c = d /\ s \in up)
    BY <1>2, <1>4
  <2> QED BY <1>1, <2>1 DEF Due, Requests
<1>6. Answered' = Answered
  <2>1. ASSUME NEW c \in Call, NEW s \in Servers
        PROVE  query'[c][s] \in {"answered"} <=> query[c][s] \in {"answered"}
    BY <1>2, <1>4
  <2> QED BY <2>1 DEF Answered, Requests
<1>7. Kept' = Kept /\ Outcomes' = Outcomes
  BY <1>1 DEF Kept, Outcomes, stateVars
<1>8. Contract!Begin(t, up)
  BY <1>1, <1>3, <1>5, <1>6, <1>7 DEF Contract!Begin, Due, Answered, d
<1> QED BY <1>1, <1>8 DEF Contract!Next

\* A call that cannot be made is one that fails without a request.
LEMMA ContractRefuse ==
  ASSUME IInv, NEW t \in Threads, GetFails(t)
  PROVE  Contract!Next
<1> DEFINE d == <<t, n[t] + 1>>
<1>1. /\ n[t] \in Nat /\ n[t] < MaxCalls /\ d \in Call /\ tpc[t] = "ready" /\ ~ok[d]
      /\ n' = [n EXCEPT ![t] = @ + 1] /\ UNCHANGED <<stateVars, query>>
      /\ outcome \in [Call -> Reply \cup {None, Failed}]
      /\ outcome' = [outcome EXCEPT ![d] = Failed]
  BY ServiceAssumption
     DEF GetFails, IInv, CallInv, TypeOK, WaitingInv, BegunInv, Call
<1>2. \A k \in 1..n[t] : Outcomes[<<t, k>>] # None
  BY <1>1, EarlierReturned
<1> HIDE DEF d
<1>3. Due' = Due /\ Answered' = Answered /\ Kept' = Kept
  BY <1>1 DEF Due, Answered, Requests, Kept, stateVars
<1>4. Kept[d] = None
  BY <1>1 DEF Kept
<1>5. Outcomes' = [Outcomes EXCEPT ![d] = Failed]
  BY <1>1, ServiceAssumption DEF Outcomes
<1>6. Contract!Refuse(t)
  BY <1>1, <1>2, <1>3, <1>4, <1>5 DEF Contract!Refuse, Due, Answered, d
<1> QED BY <1>6 DEF Contract!Next

\* CallBytes returns what it has kept.
LEMMA ContractReturn ==
  ASSUME IInv, NEW t \in Threads, tpc[t] \in {"sent", "asleep", "woken"}, Return(t)
  PROVE  Contract!Next
<1> DEFINE c == Current(t)
<1>1. /\ c \in Call /\ outcome[c] = None /\ outcome \in [Call -> Reply \cup {None, Failed}]
      /\ ok[c] => payload[c] \in Reply
  BY CurrentIsCall DEF IInv, CallInv, TypeOK, WaitingInv, AnswersInv
<1>2. /\ outcome' = [outcome EXCEPT ![c] = IF ok[c] THEN payload[c] ELSE Failed]
      /\ UNCHANGED <<n, stateVars, query>>
  BY DEF Return, serverVars
<1>3. c = <<t, n[t]>>
  BY DEF Current
<1>4. \A r \in Reply : r.by \in Servers
  BY DEF Reply
<1> HIDE DEF c
<1>5. /\ Due' = Due /\ Answered' = Answered /\ Kept' = Kept
  BY <1>2 DEF Due, Answered, Requests, Kept, stateVars
<1>6. Outcomes[c] = None
  BY <1>1, ServiceAssumption DEF Outcomes
<1>7. Outcomes' = [Outcomes EXCEPT ![c] = IF Kept[c] = None THEN Failed ELSE Kept[c]]
  <2>1. CASE ok[c]
    <3>1. Kept[c] = payload[c].by /\ Kept[c] # None /\ outcome' = [outcome EXCEPT ![c] = payload[c]]
      BY <1>1, <1>2, <1>4, <2>1, ServiceAssumption DEF Kept
    <3> QED BY <1>1, <2>1, <3>1 DEF Outcomes
  <2>2. CASE ~ok[c]
    <3>1. Kept[c] = None /\ outcome' = [outcome EXCEPT ![c] = Failed]
      BY <1>1, <1>2, <2>2 DEF Kept
    <3> QED BY <1>1, <3>1, ServiceAssumption DEF Outcomes
  <2> QED BY <2>1, <2>2
<1>8. Contract!Return(t)
  BY <1>1, <1>2, <1>3, <1>5, <1>6, <1>7 DEF Contract!Return, Contract!Call, Call, Due, Answered
<1> QED BY <1>8 DEF Contract!Next

\* What the contract sees depends on nothing but these.
LEMMA ContractStutter ==
  ASSUME UNCHANGED <<n, query, ok, payload, outcome>>
  PROVE  UNCHANGED Contract!vars
  BY DEF Contract!vars, Requests, Kept, Outcomes

\* What the caller does besides: it sleeps, and leaves the wrapper.
LEMMA ContractCaller ==
  ASSUME IInv, NEW t \in Threads,
         Enter(t) \/ Get(t) \/ GetFails(t) \/ Look(t) \/ Deadline(t) \/ Back(t)
  PROVE  Contract!Next \/ UNCHANGED Contract!vars
<1>1. CASE Get(t) \/ GetFails(t)
  BY <1>1, ContractGet, ContractRefuse
<1>2. CASE Deadline(t) \/ (Look(t) /\ done[Current(t)])
  BY <1>2, ContractReturn DEF Deadline, Look
<1>3. CASE Enter(t) \/ Back(t) \/ (Look(t) /\ ~done[Current(t)])
  <2>1. UNCHANGED <<n, query, ok, payload, outcome>>
    BY <1>3 DEF Enter, Back, Look, stateVars, serverVars
  <2> QED BY <2>1, ContractStutter
<1> QED BY <1>1, <1>2, <1>3

\* A service that goes away gives up what it had not answered.
LEMMA ContractService ==
  ASSUME IInv, NEW v \in Servers, Advertise(v) \/ Withdraw(v) \/ Crash(v)
  PROVE  Contract!Next \/ UNCHANGED Contract!vars
<1>1. CASE Advertise(v)
  <2>1. UNCHANGED <<n, query, ok, payload, outcome>>
    BY <1>1 DEF Advertise, stateVars
  <2> QED BY <2>1, ContractStutter
<1>2. CASE Withdraw(v) \/ Crash(v)
  <2> DEFINE gone == Due \ Due'
  <2>1. query \in [Call -> [Servers -> QPcs]] /\ UNCHANGED <<n, ok, payload, outcome>>
    BY <1>2 DEF Withdraw, Crash, IInv, CallInv, TypeOK, stateVars
  <2>2. ASSUME NEW c \in Call, NEW s \in Servers
        PROVE  /\ query'[c][s] \in {"asked", "handling"} => query[c][s] \in {"asked", "handling"}
               /\ query'[c][s] = "answered" <=> query[c][s] = "answered"
    BY <1>2, <2>1 DEF Withdraw, Crash
  <2>3. Due' \subseteq Due /\ Answered' = Answered
    BY <2>2 DEF Due, Answered, Requests
  <2>4. Due' = Due \ gone /\ gone \in SUBSET Due
    BY <2>3
  <2>5. Kept' = Kept /\ Outcomes' = Outcomes
    BY <2>1 DEF Kept, Outcomes
  <2> HIDE DEF gone
  <2>6. Contract!GiveUp(gone)
    BY <2>1, <2>3, <2>4, <2>5 DEF Contract!GiveUp, Due, Answered
  <2> QED BY <2>4, <2>6 DEF Contract!Next, Due
<1> QED BY <1>1, <1>2

\* A handler starts unseen, and answers or fails once.
LEMMA ContractHandler ==
  ASSUME IInv, NEW d \in Call, NEW v \in Servers,
         Serve(d, v) \/ Take(d, v) \/ Give(d, v) \/ Answer(d, v) \/ Fail(d, v)
  PROVE  Contract!Next \/ UNCHANGED Contract!vars
<1>1. query \in [Call -> [Servers -> QPcs]] /\ UNCHANGED <<n, ok, payload, outcome>>
  BY DEF Serve, Take, Give, Answer, Fail, Send, IInv, CallInv, TypeOK, stateVars
<1>2. Kept' = Kept /\ Outcomes' = Outcomes
  BY <1>1 DEF Kept, Outcomes
<1>3. CASE Serve(d, v)
  <2>1. query[d][v] = "asked" /\ query' = [query EXCEPT ![d][v] = "handling"]
    BY <1>3 DEF Serve
  <2>2. \A c \in Call, s \in Servers :
          query'[c][s] = IF c = d /\ s = v THEN "handling" ELSE query[c][s]
    BY <1>1, <2>1
  <2>3. Due' = Due /\ Answered' = Answered
    BY <2>1, <2>2 DEF Due, Answered, Requests
  <2> QED BY <1>1, <1>2, <2>3 DEF Contract!vars, Due, Answered
<1>4. CASE Answer(d, v) \/ Fail(d, v)
  <2>1. query[d][v] = "handling" /\ query' = [query EXCEPT ![d][v] = "answered"]
    BY <1>4 DEF Answer, Fail, Send
  <2>2. \A c \in Call, s \in Servers :
          query'[c][s] = IF c = d /\ s = v THEN "answered" ELSE query[c][s]
    BY <1>1, <2>1
  <2>3. <<d, v>> \in Due
    BY <2>1 DEF Due, Requests
  <2>4. Due' = Due \ {<<d, v>>}
    BY <2>1, <2>2 DEF Due, Requests
  <2>5. Answered' = Answered \cup {<<d, v>>}
    BY <2>1, <2>2 DEF Answered, Requests
  <2>6. Contract!Answer(d, v)
    BY <1>1, <1>2, <2>3, <2>4, <2>5 DEF Contract!Answer, Due, Answered
  <2> QED BY <2>6 DEF Contract!Next, Contract!Call, Call
<1>5. CASE Take(d, v) \/ Give(d, v)
  <2>1. UNCHANGED <<n, query, ok, payload, outcome>>
    BY <1>1, <1>5 DEF Take, Give
  <2> QED BY <2>1, ContractStutter
<1> QED BY <1>3, <1>4, <1>5

\* on_reply keeps an answer that some service gave to this very call.
LEMMA ContractReply ==
  ASSUME IInv, NEW r \in replies, OnReply(r)
  PROVE  Contract!Next \/ UNCHANGED Contract!vars
<1> DEFINE c == r.call
<1>1. /\ r \in Reply /\ c \in Call /\ r.by \in Servers /\ query[c][r.by] = "answered"
      /\ ok \in [Call -> BOOLEAN] /\ payload \in [Call -> Reply \cup {None}]
  BY DEF IInv, CallInv, TypeOK, AnswersInv, Reply
<1>2. CASE ~done[c] /\ r.kind = "ok"
  <2>1. /\ payload' = [payload EXCEPT ![c] = r] /\ ok' = [ok EXCEPT ![c] = TRUE]
        /\ UNCHANGED <<n, outcome, query>>
    BY <1>2 DEF OnReply, serverVars
  <2>2. <<c, r.by>> \in Answered
    BY <1>1 DEF Answered, Requests
  <2>3. Due' = Due /\ Answered' = Answered /\ Outcomes' = Outcomes
    BY <2>1 DEF Due, Answered, Requests, Outcomes
  <2> HIDE DEF c
  <2>4. Kept' = [Kept EXCEPT ![c] = r.by]
    BY <1>1, <2>1 DEF Kept
  <2>5. Contract!Keep(c, r.by)
    BY <2>1, <2>2, <2>3, <2>4 DEF Contract!Keep, Due, Answered
  <2> QED BY <1>1, <2>5 DEF Contract!Next, Contract!Call, Call
<1>3. CASE ~(~done[c] /\ r.kind = "ok")
  <2>1. UNCHANGED <<n, query, ok, payload, outcome>>
    BY <1>3 DEF OnReply, serverVars
  <2> QED BY <2>1, ContractStutter
<1> QED BY <1>2, <1>3

\* Every behaviour of the calls is one the contract allows, for any number of threads,
\* calls and services: a request is handled once at most, a call returns once and before
\* the thread makes the next one, with an answer to itself, or without one if none came.
THEOREM CallKeepsContract == Spec => ImplementsContract
<1>1. IInv /\ [Next]_vars => [Contract!Next]_(Contract!vars)
  <2> SUFFICES ASSUME IInv, [Next]_vars
               PROVE  Contract!Next \/ UNCHANGED Contract!vars
    OBVIOUS
  <2>1. CASE CallerNext
    BY <2>1, ContractCaller DEF CallerNext
  <2>2. CASE ServerNext
    BY <2>2, ContractService, ContractHandler DEF ServerNext
  <2>3. ASSUME NEW c \in Call, OnDrop(c) \/ Notify(c)
        PROVE  UNCHANGED Contract!vars
    <3>1. UNCHANGED <<n, query, ok, payload, outcome>>
      BY <2>3 DEF OnDrop, Notify, stateVars, serverVars
    <3> QED BY <3>1, ContractStutter
  <2>4. CASE NetNext
    BY <2>3, <2>4, ContractReply DEF NetNext, Finish, Expire
  <2>5. CASE UNCHANGED vars
    <3>1. UNCHANGED <<n, query, ok, payload, outcome>>
      BY <2>5 DEF vars, stateVars, serverVars
    <3> QED BY <3>1, ContractStutter
  <2> QED BY <2>1, <2>2, <2>4, <2>5 DEF Next
<1> QED BY <1>1, ContractInit, ServiceInvariance, PTL
        DEF Spec, ImplementsContract, Contract!Spec

-----------------------------------------------------------------------------
(* The interpreter lock comes free again, if handlers return and callers  *)
(* call.                                                                   *)

\* What Fairness says, with ENABLED written out, of a handler that keeps the lock,
\* and of a thread that has come to its call.
HandlerEnds(c, s) == []<>~(gil = <<c, s>>) \/ []<><<Ends(c, s)>>_vars
CallerCalls(t)    == []<>~(tpc[t] = "ready") \/ []<><<Get(t) \/ GetFails(t)>>_vars
RunnersGoOn == /\ \A c \in Call, s \in PyServers : HandlerEnds(c, s)
               /\ \A t \in PyThreads : CallerCalls(t)

Runners  == PyThreads \cup (Call \X PyServers)
Holds(h) == gil = h
Free     == gil = None
GivesUp(h) == Holds(h) ~> Free

LEMMA HolderGivesUp ==
  ASSUME NEW h \in Runners
  PROVE  [](CallInv /\ LockInv) /\ [][Next]_vars /\ RunnersGoOn => GivesUp(h)
<1>1. CallInv /\ LockInv /\ Holds(h) /\ [Next]_vars => Holds(h)' \/ Free'
  BY LockStep, ServiceAssumption DEF Holds, Free, Runners
<1>2. ASSUME NEW c \in Call, NEW s \in PyServers, h = <<c, s>>
      PROVE  [](CallInv /\ LockInv) /\ [][Next]_vars /\ RunnersGoOn => GivesUp(h)
  <2>1. RunnersGoOn => HandlerEnds(c, s)
    BY DEF RunnersGoOn
  <2>2. Holds(h) /\ <<Ends(c, s)>>_vars => Free'
    BY DEF Ends, Answer, Fail, Send, Free
  <2>3. Holds(h) => gil = <<c, s>>
    BY <1>2 DEF Holds
  <2> QED BY <1>1, <2>1, <2>2, <2>3, PTL DEF HandlerEnds, GivesUp
<1>3. ASSUME h \in PyThreads
      PROVE  [](CallInv /\ LockInv) /\ [][Next]_vars /\ RunnersGoOn => GivesUp(h)
  <2>1. RunnersGoOn => CallerCalls(h)
    BY <1>3 DEF RunnersGoOn
  <2>2. Holds(h) /\ <<Get(h) \/ GetFails(h)>>_vars => Free'
    BY DEF Get, GetFails, Released, Holds, Free
  <2>3. LockInv /\ Holds(h) => tpc[h] = "ready"
    BY <1>3 DEF LockInv, LockIsRunners, Holds
  <2> QED BY <1>1, <2>1, <2>2, <2>3, PTL DEF CallerCalls, GivesUp
<1>4. \/ h \in PyThreads
      \/ \E c \in Call, s \in PyServers : h = <<c, s>>
  BY DEF Runners
<1> QED BY <1>2, <1>3, <1>4

\* As long as Python handlers return and callers call, whoever needs the lock finds it
\* free again and again: waiting for an answer from one's own process does not lock the
\* process up.
THEOREM LockAlwaysComesFree == Spec /\ []RunnersGoOn => LockComesFree
<1> DEFINE Going == [](CallInv /\ LockInv) /\ [][Next]_vars
           F     == Free
           Each  == \A h \in Runners : Holds(h) => <>F
<1>1. CallInv => Free \/ \E h \in Runners : Holds(h)
  BY DEF CallInv, TypeOK, Free, Holds, Runners
<1>2. Going /\ []RunnersGoOn => Each
  <2> SUFFICES ASSUME NEW h \in Runners
               PROVE  Going /\ []RunnersGoOn => (Holds(h) => <>F)
    OBVIOUS
  <2>1. Going /\ RunnersGoOn => GivesUp(h)
    BY HolderGivesUp
  <2> QED BY <2>1, PTL DEF GivesUp
<1>3. Each => ((\E h \in Runners : Holds(h)) => <>F)
  OBVIOUS
<1> QED BY <1>1, <1>2, <1>3, CallInvariance, LockInvariance, PTL
        DEF Spec, LockComesFree, Free
=============================================================================
