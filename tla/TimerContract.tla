---------------------------- MODULE TimerContract ----------------------------
(***************************************************************************)
(* What a TalosOS timer promises, in C++ (Timer) and in Python (PyTimer):  *)
(* a one-shot timer calls back at most once; after a cancel at most one    *)
(* more callback starts; and who is told that the timer has stopped, or    *)
(* has destroyed it, never sees it call back again.                        *)
(***************************************************************************)
CONSTANT Cancellers   \* the threads that may cancel

VARIABLES
  once,        \* a one-shot timer
  stage,       \* of its thread: "waiting", "calling", "over"
  cancelled,
  late,        \* a callback has been started after a cancel
  told,        \* the threads whose cancel has returned with the thread over
  gone         \* the timer was destroyed

vars == <<once, stage, cancelled, late, told, gone>>

\* A timer without a period or a callback is over from the start.
Init ==
  /\ once \in BOOLEAN
  /\ \/ stage = "waiting" /\ cancelled = FALSE
     \/ stage = "over" /\ cancelled \in BOOLEAN
  /\ late = FALSE /\ told = {} /\ gone = FALSE

Call ==
  /\ stage = "waiting"
  /\ ~late
  /\ stage' = "calling"
  /\ late' = cancelled
  /\ UNCHANGED <<once, cancelled, told, gone>>

\* A callback may end the thread of a periodic timer, too.
Return ==
  /\ stage = "calling"
  /\ stage' \in IF once THEN {"over"} ELSE {"waiting", "over"}
  /\ UNCHANGED <<once, cancelled, late, told, gone>>

Heed ==
  /\ stage = "waiting"
  /\ cancelled
  /\ stage' = "over"
  /\ UNCHANGED <<once, cancelled, late, told, gone>>

\* The callback cancels its own timer ...
CancelInside ==
  /\ stage = "calling"
  /\ cancelled' = TRUE
  /\ UNCHANGED <<once, stage, late, told, gone>>

\* ... or another thread does, and has yet to be told.
Cancel(c) ==
  /\ cancelled' = TRUE
  /\ told' = told \ {c}
  /\ UNCHANGED <<once, stage, late, gone>>

Tell(c) ==
  /\ stage = "over"
  /\ cancelled
  /\ told' = told \cup {c}
  /\ UNCHANGED <<once, stage, cancelled, late, gone>>

Destroy ==
  /\ stage = "over"
  /\ gone' = TRUE
  /\ UNCHANGED <<once, stage, cancelled, late, told>>

Next == \/ Call \/ Return \/ Heed \/ CancelInside \/ Destroy
        \/ \E c \in Cancellers : Cancel(c) \/ Tell(c)

Spec == Init /\ [][Next]_vars
=============================================================================
