---------------------------- MODULE CallContract ----------------------------
(***************************************************************************)
(* What a service call promises, however its query, its replies and its    *)
(* two timeouts race: a service handles a request at most once; a call     *)
(* returns once, before its thread makes the next one; it returns an       *)
(* answer that some service gave to that very request, and fails only if   *)
(* no answer has come to it, or no request could be made.                  *)
(***************************************************************************)
EXTENDS Naturals

CONSTANTS Threads, Servers, MaxCalls, Failed, None

Call == Threads \X (1..MaxCalls)

VARIABLES
  calls,      \* how many calls each thread has begun
  due,        \* requests that may still be answered, and by whom
  answered,   \* requests that were answered, and by whom
  kept,       \* call -> the service whose answer has come to it
  returned    \* call -> what it has returned: Failed, or whose answer

vars == <<calls, due, answered, kept, returned>>

Init ==
  /\ calls = [t \in Threads |-> 0]
  /\ due = {} /\ answered = {}
  /\ kept = [c \in Call |-> None]
  /\ returned = [c \in Call |-> None]

Begin(t, servers) ==
  /\ calls[t] < MaxCalls
  /\ \A k \in 1..calls[t] : returned[<<t, k>>] # None
  /\ calls' = [calls EXCEPT ![t] = @ + 1]
  /\ due' = due \cup {<<t, calls[t] + 1>>} \X servers
  /\ UNCHANGED <<answered, kept, returned>>

\* No request could be made at all.
Refuse(t) ==
  LET c == <<t, calls[t] + 1>> IN
  /\ calls[t] < MaxCalls
  /\ \A k \in 1..calls[t] : returned[<<t, k>>] # None
  /\ kept[c] = None
  /\ calls' = [calls EXCEPT ![t] = @ + 1]
  /\ returned' = [returned EXCEPT ![c] = Failed]
  /\ UNCHANGED <<due, answered, kept>>

\* Services are withdrawn, or die in the middle.
GiveUp(gone) ==
  /\ due' = due \ gone
  /\ UNCHANGED <<calls, answered, kept, returned>>

Answer(c, s) ==
  /\ <<c, s>> \in due
  /\ due' = due \ {<<c, s>>}
  /\ answered' = answered \cup {<<c, s>>}
  /\ UNCHANGED <<calls, kept, returned>>

\* The last answer counts; one that comes after the call has returned is kept for nobody.
Keep(c, s) ==
  /\ <<c, s>> \in answered
  /\ kept' = [kept EXCEPT ![c] = s]
  /\ UNCHANGED <<calls, due, answered, returned>>

Return(t) ==
  LET c == <<t, calls[t]>> IN
  /\ c \in Call
  /\ returned[c] = None
  /\ returned' = [returned EXCEPT ![c] = IF kept[c] = None THEN Failed ELSE kept[c]]
  /\ UNCHANGED <<calls, due, answered, kept>>

Next == \/ \E t \in Threads : \/ Refuse(t) \/ Return(t)
                             \/ \E servers \in SUBSET Servers : Begin(t, servers)
        \/ \E gone \in SUBSET due : GiveUp(gone)
        \/ \E c \in Call, s \in Servers : Answer(c, s) \/ Keep(c, s)

Spec == Init /\ [][Next]_vars
=============================================================================
