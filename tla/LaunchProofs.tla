----------------------------- MODULE LaunchProofs -----------------------------
(***************************************************************************)
(* The launcher of Launch.tla, for any number of nodes: IInv is inductive, *)
(* so no child is left behind, signals escalate in order, and the exit     *)
(* code of a launch that ends by itself is right.                          *)
(***************************************************************************)
EXTENDS Launch, TLAPS

\* Before the first child is started the invariant holds.
LEMMA InitSafeInv == Init => SafeInv
<1> SUFFICES ASSUME Init PROVE SafeInv
  OBVIOUS
<1> USE LaunchAssumption DEF Init
<1>1. LoopOK /\ FlagsOK
  <2>1. LoopOK
    BY DEF LoopOK, LPcs
  <2>2. FlagsOK
    BY DEF FlagsOK, LPcs
  <2> QED
    BY <2>1, <2>2
<1>2. ChildrenOK
  BY DEF ChildrenOK
<1>3. SentInv /\ NoChildLeftBehind /\ EscalationInOrder /\ FailureIsReported
  BY DEF SentInv, Reached, NoChildLeftBehind, EscalationInOrder,
     FailureIsReported
<1>4. SpawnInv /\ ScanInv /\ HandlerInv
  BY DEF SpawnInv, ScanInv, HandlerInv
<1> QED
  BY <1>1, <1>2, <1>3, <1>4 DEF SafeInv, TypeOK

\* The handlers are installed before the loops, and stay.
LEMMA HandlerStep == SafeInv /\ [Next]_vars => HandlerInv'
<1> SUFFICES ASSUME SafeInv, [Next]_vars PROVE HandlerInv'
  OBVIOUS
<1> USE DEF SafeInv, HandlerInv, Goto
<1>1. CASE \E i \in Nodes, c \in ExitCodes : ChildExits(i, c)
  BY <1>1 DEF ChildExits
<1>2. CASE \E s \in {"INT", "TERM"} : Signal(s)
  BY <1>2, Zenon DEF Signal
<1>3. CASE Spawn \/ SpawnFails \/ SpawnRaises \/ SpawnedAll \/ Install
  BY <1>3 DEF Spawn, SpawnFails, SpawnRaises, SpawnedAll, Install
<1>4. CASE Check \/ Poll \/ Scanned
  BY <1>4 DEF Check, Poll, Scanned
<1>5. CASE Interrupt \/ Terminate \/ Kill
  BY <1>5 DEF Interrupt, Terminate, Kill, SendTo, SentAll
<1>6. CASE Wait("int_wait", "term") \/ Wait("term_wait", "kill")
  BY <1>6 DEF Wait
<1>7. CASE UNCHANGED vars
  BY <1>7 DEF vars
<1> QED
  BY <1>1, <1>2, <1>3, <1>4, <1>5, <1>6, <1>7 DEF Next, LauncherNext

\* A child that ends takes its place among the ended; nothing was known of
\* its exit code before.
LEMMA ChildExitsStep ==
  ASSUME SafeInv, HandlerInv', NEW i \in Nodes, NEW c \in ExitCodes, ChildExits(i, c)
  PROVE  SafeInv'
<1> USE LaunchAssumption DEF SafeInv, ChildExits, Nodes
<1>1. TypeOK'
  BY DEF TypeOK, LoopOK, FlagsOK, ChildrenOK, LPcs
<1>2. SentInv' /\ NoChildLeftBehind' /\ EscalationInOrder'
  BY DEF TypeOK, LoopOK, FlagsOK, ChildrenOK, SentInv, Reached,
     NoChildLeftBehind, EscalationInOrder
<1>3. i \notin logged /\ (procs = Nodes => logged # Nodes)
  BY DEF TypeOK, LoopOK, FlagsOK, ChildrenOK
<1>4. SpawnInv' /\ ScanInv' /\ FailureIsReported'
  BY <1>3 DEF TypeOK, LoopOK, FlagsOK, ChildrenOK, SpawnInv, ScanInv,
     FailureIsReported
<1> QED
  BY <1>1, <1>2, <1>4

\* A signal sets shutdown, or ends the launcher.
LEMMA SignalStep ==
  ASSUME SafeInv, HandlerInv', NEW s \in {"INT", "TERM"}, Signal(s)
  PROVE  SafeInv'
<1> USE LaunchAssumption DEF SafeInv, Signal, childVars
<1>1. LoopOK' /\ FlagsOK'
  <2>1. LoopOK'
    BY DEF TypeOK, LoopOK, LPcs
  <2>2. FlagsOK'
    <3>1. rc' \in {rc, 130, 143} /\ shutdown' \in {shutdown, TRUE} /\ cut' \in {cut, TRUE}
      OBVIOUS
    <3>2. alive' = alive /\ handlers' = handlers
      OBVIOUS
    <3>3. FlagsOK
      BY DEF TypeOK
    <3> HIDE LaunchAssumption DEF SafeInv, Signal
    <3>4. rc' \in ExitCodes \cup {1, 2, 130, 143}
      BY <3>1, <3>3 DEF FlagsOK
    <3>5. shutdown' \in BOOLEAN /\ cut' \in BOOLEAN
      BY <3>1, <3>3 DEF FlagsOK
    <3> QED
      BY <3>2, <3>3, <3>4, <3>5 DEF FlagsOK
  <2> QED
    BY <2>1, <2>2
<1>2. ChildrenOK'
  BY DEF TypeOK, ChildrenOK
<1>3. SentInv' /\ NoChildLeftBehind' /\ EscalationInOrder'
  BY DEF SentInv, Reached, NoChildLeftBehind, EscalationInOrder
<1>4. SpawnInv' /\ ScanInv' /\ FailureIsReported'
  BY DEF SpawnInv, ScanInv, FailureIsReported
<1> QED
  BY <1>1, <1>2, <1>3, <1>4 DEF TypeOK

\* Starting the children: procs is the part of the launch file done so far.
LEMMA SpawnStep ==
  ASSUME SafeInv, HandlerInv',
         Spawn \/ SpawnFails \/ SpawnRaises \/ SpawnedAll \/ Install
  PROVE  SafeInv'
<1> USE LaunchAssumption DEF SafeInv, TypeOK, LoopOK, FlagsOK, ChildrenOK, LPcs,
   Nodes, SentInv, Reached, SpawnInv, ScanInv, NoChildLeftBehind,
   EscalationInOrder, FailureIsReported, Goto, childVars
<1>1. CASE Spawn
  BY <1>1 DEF Spawn
<1>2. CASE SpawnFails
  BY <1>2 DEF SpawnFails
<1>3. CASE SpawnedAll
  BY <1>3 DEF SpawnedAll
<1>4. CASE Install
  BY <1>4 DEF Install
<1>5. CASE SpawnRaises
  BY <1>5 DEF SpawnRaises
<1> QED
  BY <1>1, <1>2, <1>3, <1>4, <1>5

\* The polling loop: a scan that saw nobody alive has logged everybody, and
\* rc is 0 as long as no logged child failed.
LEMMA PollStep ==
  ASSUME SafeInv, HandlerInv', Check \/ Poll \/ Scanned
  PROVE  SafeInv'
<1> USE LaunchAssumption DEF SafeInv, childVars
<1>1. CASE Check
  <2> USE <1>1 DEF Check, Goto
  <2>1. TypeOK' /\ EscalationInOrder'
    <3>1. LoopOK' /\ FlagsOK'
      <4>1. LoopOK'
        BY DEF TypeOK, LoopOK, LPcs
      <4>2. FlagsOK'
        BY DEF TypeOK, FlagsOK, LPcs
      <4> QED
        BY <4>1, <4>2
    <3>2. ChildrenOK' /\ EscalationInOrder'
      BY DEF TypeOK, ChildrenOK, EscalationInOrder
    <3> QED
      BY <3>1, <3>2 DEF TypeOK
  <2>2. SentInv' /\ NoChildLeftBehind'
    BY DEF TypeOK, LoopOK, FlagsOK, ChildrenOK, Nodes, SentInv, Reached,
       NoChildLeftBehind
  <2>3. SpawnInv' /\ ScanInv' /\ FailureIsReported'
    BY DEF Nodes, SpawnInv, ScanInv, FailureIsReported
  <2> QED
    BY <2>1, <2>2, <2>3
<1>2. CASE Poll
  <2> USE <1>2 DEF Poll
  <2>1. TypeOK' /\ SpawnInv'
    <3>1. LoopOK' /\ FlagsOK'
      <4>1. LoopOK'
        BY DEF TypeOK, LoopOK, ScanInv
      <4>2. FlagsOK'
        <5>1. rc' \in ExitCodes \cup {1, 2, 130, 143}
          <6>1. CASE rc' = rc
            BY <6>1 DEF TypeOK, FlagsOK
          <6>2. CASE rc' = code[next] /\ next \in exited
            BY <6>2 DEF ScanInv
          <6> QED
            BY <6>1, <6>2
        <5>2. alive' \in {alive, TRUE} /\ UNCHANGED <<handlers, shutdown, cut>>
          OBVIOUS
        <5>3. FlagsOK
          BY DEF TypeOK
        <5> HIDE LaunchAssumption DEF SafeInv, Poll
        <5>4. alive' \in BOOLEAN
          BY <5>2, <5>3 DEF FlagsOK
        <5> QED
          BY <5>1, <5>2, <5>3, <5>4 DEF FlagsOK
      <4> QED
        BY <4>1, <4>2
    <3>2. ChildrenOK' /\ SpawnInv'
      BY DEF TypeOK, ChildrenOK, SpawnInv
    <3> QED
      BY <3>1, <3>2 DEF TypeOK
  <2>2. SentInv' /\ NoChildLeftBehind' /\ EscalationInOrder' /\ FailureIsReported'
    BY DEF SentInv, Reached, NoChildLeftBehind, EscalationInOrder,
       FailureIsReported
  <2>3. ScanInv'
    <3>1. ~alive' => \A i \in Nodes : i < next' => i \in logged'
      BY DEF TypeOK, LoopOK, FlagsOK, ChildrenOK, Nodes, ScanInv
    <3>2. rc' = 0 <=> \A i \in logged' : code'[i] = 0
      BY DEF ScanInv
    <3> QED
      BY <3>1, <3>2 DEF ScanInv
  <2> QED
    BY <2>1, <2>2, <2>3
<1>3. CASE Scanned
  <2> USE <1>3 DEF Scanned, Goto
  <2>1. TypeOK' /\ EscalationInOrder'
    <3>1. LoopOK' /\ FlagsOK'
      <4>1. LoopOK'
        BY DEF TypeOK, LoopOK, LPcs
      <4>2. FlagsOK'
        BY DEF TypeOK, FlagsOK, LPcs
      <4> QED
        BY <4>1, <4>2
    <3>2. ChildrenOK' /\ EscalationInOrder'
      BY DEF TypeOK, ChildrenOK, EscalationInOrder
    <3> QED
      BY <3>1, <3>2 DEF TypeOK
  <2>2. SentInv' /\ NoChildLeftBehind'
    BY DEF TypeOK, LoopOK, FlagsOK, ChildrenOK, Nodes, SentInv, Reached,
       NoChildLeftBehind
  <2>3. ~alive => logged = Nodes
    <3>1. \A i \in Nodes : i < next
      BY DEF TypeOK, LoopOK, FlagsOK, Nodes
    <3> QED
      BY <3>1 DEF TypeOK, ChildrenOK, ScanInv
  <2>4. SpawnInv' /\ ScanInv' /\ FailureIsReported'
    BY <2>3 DEF SpawnInv, ScanInv, FailureIsReported
  <2> QED
    BY <2>1, <2>2, <2>4
<1> QED
  BY <1>1, <1>2, <1>3

\* The loop of SIGINT: a child it has passed has ended or was sent the signal.
LEMMA InterruptStep ==
  ASSUME SafeInv, HandlerInv', Interrupt
  PROVE  SafeInv'
<1> USE LaunchAssumption DEF SafeInv
<1>1. CASE SendTo("int", "INT")
  <2> USE <1>1 DEF SendTo
  <2>1. TypeOK' /\ EscalationInOrder'
    BY DEF TypeOK, LoopOK, FlagsOK, ChildrenOK, LPcs, Nodes, SentInv,
       Reached, EscalationInOrder
  <2>2. SentInv'
    BY DEF TypeOK, LoopOK, FlagsOK, ChildrenOK, Nodes, SentInv, Reached
  <2>3. SpawnInv' /\ ScanInv' /\ NoChildLeftBehind' /\ FailureIsReported'
    BY DEF SpawnInv, ScanInv, NoChildLeftBehind, FailureIsReported
  <2> QED
    BY <2>1, <2>2, <2>3
<1>2. CASE SentAll("int", "int_wait")
  <2> USE <1>2 DEF SentAll, Goto, childVars
  <2>1. TypeOK' /\ EscalationInOrder'
    <3>1. LoopOK' /\ FlagsOK'
      <4>1. LoopOK'
        BY DEF TypeOK, LoopOK, LPcs
      <4>2. FlagsOK'
        BY DEF TypeOK, FlagsOK, LPcs
      <4> QED
        BY <4>1, <4>2
    <3>2. ChildrenOK' /\ EscalationInOrder'
      BY DEF TypeOK, ChildrenOK, EscalationInOrder
    <3> QED
      BY <3>1, <3>2 DEF TypeOK
  <2>2. \A i \in procs : i < next
    BY DEF TypeOK, LoopOK, FlagsOK, ChildrenOK, Nodes
  <2>3. SentInv' /\ NoChildLeftBehind'
    BY <2>2 DEF TypeOK, LoopOK, FlagsOK, ChildrenOK, SentInv, Reached,
       NoChildLeftBehind
  <2>4. SpawnInv' /\ ScanInv' /\ FailureIsReported'
    BY DEF SpawnInv, ScanInv, FailureIsReported
  <2> QED
    BY <2>1, <2>3, <2>4
<1> QED
  BY <1>1, <1>2 DEF Interrupt

\* The loop of SIGTERM, over children that were all sent SIGINT.
LEMMA TerminateStep ==
  ASSUME SafeInv, HandlerInv', Terminate
  PROVE  SafeInv'
<1> USE LaunchAssumption DEF SafeInv
<1>1. CASE SendTo("term", "TERM")
  <2> USE <1>1 DEF SendTo
  <2>1. TypeOK' /\ EscalationInOrder'
    BY DEF TypeOK, LoopOK, FlagsOK, ChildrenOK, LPcs, Nodes, SentInv,
       Reached, EscalationInOrder
  <2>2. SentInv'
    BY DEF TypeOK, LoopOK, FlagsOK, ChildrenOK, Nodes, SentInv, Reached
  <2>3. SpawnInv' /\ ScanInv' /\ NoChildLeftBehind' /\ FailureIsReported'
    BY DEF SpawnInv, ScanInv, NoChildLeftBehind, FailureIsReported
  <2> QED
    BY <2>1, <2>2, <2>3
<1>2. CASE SentAll("term", "term_wait")
  <2> USE <1>2 DEF SentAll, Goto, childVars
  <2>1. TypeOK' /\ EscalationInOrder'
    <3>1. LoopOK' /\ FlagsOK'
      <4>1. LoopOK'
        BY DEF TypeOK, LoopOK, LPcs
      <4>2. FlagsOK'
        BY DEF TypeOK, FlagsOK, LPcs
      <4> QED
        BY <4>1, <4>2
    <3>2. ChildrenOK' /\ EscalationInOrder'
      BY DEF TypeOK, ChildrenOK, EscalationInOrder
    <3> QED
      BY <3>1, <3>2 DEF TypeOK
  <2>2. \A i \in procs : i < next
    BY DEF TypeOK, LoopOK, FlagsOK, ChildrenOK, Nodes
  <2>3. SentInv' /\ NoChildLeftBehind'
    BY <2>2 DEF TypeOK, LoopOK, FlagsOK, ChildrenOK, SentInv, Reached,
       NoChildLeftBehind
  <2>4. SpawnInv' /\ ScanInv' /\ FailureIsReported'
    BY DEF SpawnInv, ScanInv, FailureIsReported
  <2> QED
    BY <2>1, <2>3, <2>4
<1> QED
  BY <1>1, <1>2 DEF Terminate

\* The loop of SIGKILL; behind it the launcher returns.
LEMMA KillStep ==
  ASSUME SafeInv, HandlerInv', Kill
  PROVE  SafeInv'
<1> USE LaunchAssumption DEF SafeInv
<1>1. CASE SendTo("kill", "KILL")
  <2> USE <1>1 DEF SendTo
  <2>1. TypeOK' /\ EscalationInOrder'
    BY DEF TypeOK, LoopOK, FlagsOK, ChildrenOK, LPcs, Nodes, SentInv,
       Reached, EscalationInOrder
  <2>2. SentInv'
    BY DEF TypeOK, LoopOK, FlagsOK, ChildrenOK, Nodes, SentInv, Reached
  <2>3. SpawnInv' /\ ScanInv' /\ NoChildLeftBehind' /\ FailureIsReported'
    BY DEF SpawnInv, ScanInv, NoChildLeftBehind, FailureIsReported
  <2> QED
    BY <2>1, <2>2, <2>3
<1>2. CASE SentAll("kill", "done")
  <2> USE <1>2 DEF SentAll, Goto, childVars
  <2>1. TypeOK' /\ EscalationInOrder'
    <3>1. LoopOK' /\ FlagsOK'
      <4>1. LoopOK'
        BY DEF TypeOK, LoopOK, LPcs
      <4>2. FlagsOK'
        BY DEF TypeOK, FlagsOK, LPcs
      <4> QED
        BY <4>1, <4>2
    <3>2. ChildrenOK' /\ EscalationInOrder'
      BY DEF TypeOK, ChildrenOK, EscalationInOrder
    <3> QED
      BY <3>1, <3>2 DEF TypeOK
  <2>2. \A i \in procs : i < next
    BY DEF TypeOK, LoopOK, FlagsOK, ChildrenOK, Nodes
  <2>3. SentInv' /\ NoChildLeftBehind'
    BY <2>2 DEF TypeOK, LoopOK, FlagsOK, ChildrenOK, SentInv, Reached,
       NoChildLeftBehind
  <2>4. SpawnInv' /\ ScanInv' /\ FailureIsReported'
    BY DEF SpawnInv, ScanInv, FailureIsReported
  <2> QED
    BY <2>1, <2>3, <2>4
<1> QED
  BY <1>1, <1>2 DEF Kill

\* A waiting loop leaves when everybody has ended, or escalates.
LEMMA WaitStep ==
  ASSUME SafeInv, HandlerInv', Wait("int_wait", "term") \/ Wait("term_wait", "kill")
  PROVE  SafeInv'
<1> USE LaunchAssumption DEF SafeInv, Wait, Goto, childVars
<1>1. LoopOK' /\ FlagsOK'
  <2>1. LoopOK'
    BY DEF TypeOK, LoopOK, LPcs
  <2>2. FlagsOK'
    <3>1. UNCHANGED <<shutdown, alive, cut, handlers, rc>>
      OBVIOUS
    <3> HIDE DEF Wait
    <3> QED
      BY <3>1 DEF TypeOK, FlagsOK
  <2> QED
    BY <2>1, <2>2
<1>2. ChildrenOK' /\ EscalationInOrder'
  BY DEF TypeOK, ChildrenOK, EscalationInOrder
<1>3. SentInv' /\ NoChildLeftBehind'
  <2>1. \A i \in procs : ~(i < 1)
    <3>1. procs \subseteq Nodes
      BY DEF TypeOK, ChildrenOK
    <3> HIDE DEF SafeInv, Wait
    <3>2. \A i \in Nodes : ~(i < 1)
      BY DEF Nodes
    <3> QED
      BY <3>1, <3>2
  <2>2. CASE AllExited /\ Goto("done")
    BY <2>2 DEF AllExited, SentInv, Reached, NoChildLeftBehind
  <2>3. CASE Goto("term") /\ lpc = "int_wait"
    BY <2>3, <2>1 DEF SentInv, Reached, NoChildLeftBehind
  <2>4. CASE Goto("kill") /\ lpc = "term_wait"
    BY <2>4, <2>1 DEF SentInv, Reached, NoChildLeftBehind
  <2> QED
    BY <2>2, <2>3, <2>4
<1>4. SpawnInv' /\ ScanInv' /\ FailureIsReported'
  BY DEF SpawnInv, ScanInv, FailureIsReported
<1> QED
  BY <1>1, <1>2, <1>3, <1>4 DEF TypeOK

\* SafeInv is inductive.
LEMMA NextSafeInv == SafeInv /\ [Next]_vars => SafeInv'
<1> SUFFICES ASSUME SafeInv, [Next]_vars PROVE SafeInv'
  OBVIOUS
<1> HandlerInv'
  BY HandlerStep
<1>1. CASE Next
  BY <1>1, ChildExitsStep, SignalStep, SpawnStep, PollStep, InterruptStep,
     TerminateStep, KillStep, WaitStep DEF Next, LauncherNext
<1>2. CASE UNCHANGED vars
  BY <1>2 DEF vars, SafeInv, TypeOK, LoopOK, FlagsOK, ChildrenOK, SentInv,
     Reached, SpawnInv, ScanInv, NoChildLeftBehind, EscalationInOrder,
     FailureIsReported
<1> QED
  BY <1>1, <1>2

LEMMA SafeInvariance == Spec => []SafeInv
BY InitSafeInv, NextSafeInv, PTL DEF Spec

\* A launch that nobody cut short leaves no child running that it has not
\* killed.
THEOREM LeavesNoChild == Spec => []NoChildLeftBehind
<1>1. SafeInv => NoChildLeftBehind
  BY DEF SafeInv
<1> QED
  BY <1>1, SafeInvariance, PTL

\* SIGINT before SIGTERM before SIGKILL, for every child.
THEOREM EscalatesInOrder == Spec => []EscalationInOrder
<1>1. SafeInv => EscalationInOrder
  BY DEF SafeInv
<1> QED
  BY <1>1, SafeInvariance, PTL

\* The exit code of a launch that ends by itself tells whether a node failed.
THEOREM ReportsFailure == Spec => []FailureIsReported
<1>1. SafeInv => FailureIsReported
  BY DEF SafeInv
<1> QED
  BY <1>1, SafeInvariance, PTL

\* The loops left come before the turns of the loop in progress.
LEMMA LoopsComeFirst ==
  ASSUME NEW t \in Nat, NEW a \in Nat, NEW b \in Nat, NEW u \in Nat, NEW v \in Nat,
         v < t, b < a \/ (b = a /\ v < u)
  PROVE  b * t + v < a * t + u
<1>1. CASE b = a /\ v < u
  BY <1>1
<1>2. CASE b < a
  <2>1. PICK d \in Nat : a = b + 1 + d
    <3>1. a - b - 1 \in Nat /\ a = b + 1 + (a - b - 1)
      BY <1>2
    <3> QED
      BY <3>1
  <2>2. d * t \in Nat /\ b * t \in Nat
    OBVIOUS
  <2>3. a * t = b * t + t + d * t
    BY <2>1
  <2> QED
    BY <2>2, <2>3
<1> QED
  BY <1>1, <1>2

\* LoopsLeft, label by label.
LoopsTable ==
  /\ lpc = "install" => LoopsLeft = 8
  /\ lpc = "scan" => LoopsLeft = 7
  /\ lpc = "check" => LoopsLeft = 6
  /\ lpc = "int" => LoopsLeft = 5
  /\ lpc = "int_wait" => LoopsLeft = 4
  /\ lpc = "term" => LoopsLeft = 3
  /\ lpc = "term_wait" => LoopsLeft = 2
  /\ lpc = "kill" => LoopsLeft = 1
  /\ lpc = "done" => LoopsLeft = 0

LEMMA LoopsByLabel == LoopsTable /\ LoopsTable'
<1>1. LoopsTable
  BY Zenon DEF LoopsTable, LoopsLeft
<1>2. LoopsTable'
  BY Zenon DEF LoopsTable, LoopsLeft
<1> QED
  BY <1>1, <1>2

\* The ranges of the two measures.
TurnsOK == LoopsLeft \in Nat /\ TurnsHere \in Nat /\ TurnsHere < N + 2

\* Both are natural numbers, and the turns of one loop are at most N + 1.
LEMMA TurnsInRange == (SafeInv => TurnsOK) /\ (SafeInv' => TurnsOK')
<1> USE LaunchAssumption DEF SafeInv, TypeOK, LoopOK, LPcs, TurnsOK
<1>1. (SafeInv => LoopsLeft \in Nat) /\ (SafeInv' => LoopsLeft' \in Nat)
  BY DEF LoopsLeft
<1>2. /\ SafeInv => TurnsHere \in Nat /\ TurnsHere < N + 2
      /\ SafeInv' => TurnsHere' \in Nat /\ TurnsHere' < N + 2
  BY DEF TurnsHere
<1> QED
  BY <1>1, <1>2

\* So are the turns left: told to stop, the launcher has no infinite run of
\* steps before it.
LEMMA TurnsAreNat ==
  ASSUME SafeInv, SafeInv'
  PROVE  TurnsLeft \in Nat /\ TurnsLeft' \in Nat
<1>1. TurnsOK /\ TurnsOK'
  BY TurnsInRange
<1>2. N + 2 \in Nat
  BY LaunchAssumption
<1> QED
  BY <1>1, <1>2 DEF TurnsLeft, TurnsOK

\* A loop nearer to the end, or one more turn of the same loop.
LEMMA FewerTurns ==
  ASSUME SafeInv, SafeInv',
         LoopsLeft' < LoopsLeft \/ (LoopsLeft' = LoopsLeft /\ TurnsHere' < TurnsHere)
  PROVE  TurnsLeft' < TurnsLeft
<1>1. /\ LoopsLeft \in Nat /\ TurnsHere \in Nat
      /\ LoopsLeft' \in Nat /\ TurnsHere' \in Nat /\ TurnsHere' < N + 2
  BY TurnsInRange DEF TurnsOK
<1>2. N + 2 \in Nat
  BY LaunchAssumption
<1> QED
  BY <1>1, <1>2, LoopsComeFirst DEF TurnsLeft

\* What each step does with the turns left once shutdown is set.
LEMMA ShutdownStep ==
  ASSUME SafeInv, SafeInv', shutdown, [Next]_vars
  PROVE  /\ TurnsLeft' <= TurnsLeft
         /\ LauncherNext => TurnsLeft' < TurnsLeft
<1> DEFINE Fewer == LoopsLeft' < LoopsLeft
                      \/ (LoopsLeft' = LoopsLeft /\ TurnsHere' < TurnsHere)
<1>1. TurnsLeft \in Nat /\ TurnsLeft' \in Nat
  BY TurnsAreNat
<1>2. "INT" \in handlers /\ lpc \in LPcs /\ next \in 1..(N + 1) /\ N \in Nat
  BY LaunchAssumption DEF SafeInv, HandlerInv, TypeOK, LoopOK
<1>3. ASSUME LauncherNext PROVE Fewer
  <2> USE <1>2, LoopsByLabel DEF LoopsTable
  <2> DEFINE SameLoop == LoopsLeft' = LoopsLeft /\ TurnsHere' < TurnsHere
  <2>0. lpc' = lpc /\ lpc # "done" /\ next <= N /\ next' = next + 1 => SameLoop
    BY DEF TurnsHere, LoopsLeft
  <2> HIDE DEF SameLoop
  <2>1. CASE Spawn \/ SpawnFails \/ SpawnRaises \/ SpawnedAll \/ Install
    <3>1. lpc # "spawn"
      BY DEF SafeInv, HandlerInv
    <3>2. Install
      BY <2>1, <3>1 DEF Spawn, SpawnFails, SpawnRaises, SpawnedAll
    <3> QED
      BY <3>2 DEF Install, Goto
  <2>2. CASE Check
    BY <2>2 DEF Check, Goto
  <2>3. CASE Scanned
    BY <2>3 DEF Scanned, Goto
  <2>4. CASE \/ Poll \/ SendTo("int", "INT") \/ SendTo("term", "TERM")
             \/ SendTo("kill", "KILL")
    <3>1. SameLoop
      BY <2>4, <2>0 DEF Poll, SendTo
    <3> QED
      BY <3>1 DEF SameLoop
  <2>5. CASE SentAll("int", "int_wait") \/ SentAll("term", "term_wait")
               \/ SentAll("kill", "done")
    <3>1. \/ lpc = "int" /\ lpc' = "int_wait"
          \/ lpc = "term" /\ lpc' = "term_wait"
          \/ lpc = "kill" /\ lpc' = "done"
      BY <2>5 DEF SentAll, Goto
    <3> HIDE <1>2
    <3> QED
      BY <3>1
  <2>6. CASE Wait("int_wait", "term") \/ Wait("term_wait", "kill")
    <3>1. \/ lpc = "int_wait" /\ (lpc' = "term" \/ lpc' = "done")
          \/ lpc = "term_wait" /\ (lpc' = "kill" \/ lpc' = "done")
      BY <2>6, Zenon DEF Wait, Goto
    <3> HIDE <1>2
    <3> QED
      BY <3>1
  <2> QED
    BY <1>3, <2>1, <2>2, <2>3, <2>4, <2>5, <2>6
       DEF LauncherNext, Interrupt, Terminate, Kill
<1>4. ASSUME ~LauncherNext PROVE (lpc' = lpc /\ next' = next) \/ Fewer
  <2>1. CASE lpc # "done" /\ lpc' = "done"
    BY <2>1, <1>2 DEF LPcs, LoopsLeft
  <2> QED
    BY <1>4, <2>1 DEF Next, ChildExits, Signal, vars
<1>5. CASE lpc' = lpc /\ next' = next
  <2>1. TurnsLeft' = TurnsLeft
    BY <1>5 DEF TurnsLeft, LoopsLeft, TurnsHere
  <2>2. ~LauncherNext \/ Fewer
    BY <1>3
  <2> QED
    BY <1>1, <2>1, <2>2, FewerTurns
<1>6. Fewer => TurnsLeft' < TurnsLeft
  BY FewerTurns
<1> HIDE DEF Fewer
<1> QED
  BY <1>1, <1>3, <1>4, <1>5, <1>6

\* A launcher that was told to stop comes nearer to its end with each of its
\* steps, whatever signals and children do in between.
THEOREM ConvergesOnShutdown == Spec => ShutdownConverges
<1>1. SafeInv /\ SafeInv' /\ [Next]_vars =>
        [shutdown => /\ TurnsLeft' <= TurnsLeft
                     /\ LauncherNext => TurnsLeft' < TurnsLeft]_vars
  BY ShutdownStep
<1> QED
  BY <1>1, SafeInvariance, PTL DEF Spec, ShutdownConverges

-----------------------------------------------------------------------------
(* Each signal is sent to a child once, and the exit code comes from a     *)
(* child that was reported.                                                *)

\* Steps that send nothing keep OnceInv if they stay where they are, or go where
\* nobody was sent the signal of the loop that begins.
LEMMA NothingSent ==
  ASSUME SafeInv, OnceInv, sent' = sent, next' \in Nat, lpc' \in LPcs,
         \/ lpc' = lpc /\ next <= next'
         \/ lpc' \notin Loops
         \/ lpc \in {"spawn", "check", "scan"} /\ lpc' = "int"
         \/ lpc = "int" /\ lpc' = "int_wait"
         \/ lpc = "int_wait" /\ lpc' = "term"
         \/ lpc = "term" /\ lpc' = "term_wait"
         \/ lpc = "term_wait" /\ lpc' = "kill"
  PROVE  OnceInv'
<1>1. next \in Nat /\ \A i \in Nodes : i \in Nat
  BY LaunchAssumption DEF SafeInv, TypeOK, LoopOK, Nodes
<1>2. CASE lpc' = lpc /\ next <= next'
  BY <1>1, <1>2 DEF OnceInv, NotYet
<1>3. CASE lpc' \notin Loops
  BY <1>3 DEF OnceInv, NotYet, Loops
<1>4. CASE lpc \in {"spawn", "check", "scan"} /\ lpc' = "int"
  BY <1>4 DEF OnceInv, NotYet, SafeInv, EscalationInOrder
<1>5. CASE \/ lpc = "int" /\ lpc' = "int_wait"
           \/ lpc = "term" /\ lpc' = "term_wait"
  BY <1>5 DEF OnceInv, NotYet
<1>6. CASE \/ lpc = "int_wait" /\ lpc' = "term"
           \/ lpc = "term_wait" /\ lpc' = "kill"
  BY <1>6 DEF OnceInv, NotYet
<1> QED BY <1>2, <1>3, <1>4, <1>5, <1>6

\* A turn of a loop that sends s: only the child at next is sent anything.
LEMMA TurnSends ==
  ASSUME SafeInv, NEW label, NEW s \in {"INT", "TERM", "KILL"}, SendTo(label, s)
  PROVE  /\ lpc = label /\ lpc' = label /\ next \in Nodes /\ next' = next + 1
         /\ \A i \in Nodes : i # next => sent'[i] = sent[i]
         /\ sent'[next] \subseteq sent[next] \cup {s}
         /\ next \notin procs \ exited => sent' = sent
         /\ next \in procs \ exited => sent' = [sent EXCEPT ![next] = @ \cup {s}]
BY LaunchAssumption DEF SafeInv, TypeOK, LoopOK, ChildrenOK, SendTo, Nodes

LEMMA TurnKeepsOnce ==
  ASSUME SafeInv, OnceInv,
         SendTo("int", "INT") \/ SendTo("term", "TERM") \/ SendTo("kill", "KILL")
  PROVE  OnceInv'
<1>1. \A i \in Nodes : i >= next + 1 => i >= next /\ i # next
  BY LaunchAssumption DEF SafeInv, TypeOK, LoopOK, Nodes
<1>2. CASE SendTo("int", "INT")
  BY <1>1, <1>2, TurnSends DEF OnceInv, NotYet
<1>3. CASE SendTo("term", "TERM")
  BY <1>1, <1>3, TurnSends DEF OnceInv, NotYet
<1>4. CASE SendTo("kill", "KILL")
  BY <1>1, <1>4, TurnSends DEF OnceInv, NotYet
<1> QED BY <1>2, <1>3, <1>4

LEMMA OnceStep ==
  ASSUME SafeInv, SafeInv', OnceInv, [Next]_vars
  PROVE  OnceInv'
<1>1. next \in Nat /\ next' \in Nat /\ lpc' \in LPcs /\ N \in Nat
  BY LaunchAssumption DEF SafeInv, TypeOK, LoopOK
<1> USE DEF childVars, Goto
<1>2. CASE \/ \E i \in Nodes, c \in ExitCodes : ChildExits(i, c)
           \/ Spawn \/ Poll \/ UNCHANGED vars
  <2>1. sent' = sent /\ lpc' = lpc /\ next <= next'
    BY <1>1, <1>2 DEF ChildExits, Spawn, Poll, vars
  <2> QED BY <1>1, <2>1, NothingSent
<1>3. CASE \E s \in {"INT", "TERM"} : Signal(s)
  <2>1. sent' = sent /\ next' = next /\ (lpc' = lpc \/ lpc' = "done")
    BY <1>3 DEF Signal
  <2> QED BY <1>1, <2>1, NothingSent DEF Loops
<1>4. CASE SpawnFails \/ SpawnRaises \/ SpawnedAll \/ Install
  <2>1. sent' = sent
    BY <1>4 DEF SpawnFails, SpawnRaises, SpawnedAll, Install
  <2>2. (lpc = "spawn" /\ lpc' = "int") \/ lpc' \notin Loops
    BY <1>4 DEF SpawnFails, SpawnRaises, SpawnedAll, Install, Loops
  <2> QED BY <1>1, <2>1, <2>2, NothingSent
<1>5. CASE Check \/ Scanned
  <2>1. sent' = sent
    BY <1>5 DEF Check, Scanned
  <2>2. (lpc \in {"check", "scan"} /\ lpc' = "int") \/ lpc' \notin Loops
    BY <1>5 DEF Check, Scanned, Loops
  <2> QED BY <1>1, <2>1, <2>2, NothingSent
<1>6. CASE SendTo("int", "INT") \/ SendTo("term", "TERM") \/ SendTo("kill", "KILL")
  BY <1>6, TurnKeepsOnce
<1>7. CASE \/ SentAll("int", "int_wait") \/ SentAll("term", "term_wait")
           \/ SentAll("kill", "done")
  <2>1. sent' = sent
    BY <1>7 DEF SentAll
  <2>2. \/ lpc = "int" /\ lpc' = "int_wait"
        \/ lpc = "term" /\ lpc' = "term_wait"
        \/ lpc' \notin Loops
    BY <1>7 DEF SentAll, Loops
  <2> QED BY <1>1, <2>1, <2>2, NothingSent
<1>8. CASE Wait("int_wait", "term") \/ Wait("term_wait", "kill")
  <2>1. sent' = sent
    BY <1>8 DEF Wait
  <2>2. \/ lpc = "int_wait" /\ lpc' = "term"
        \/ lpc = "term_wait" /\ lpc' = "kill"
        \/ lpc' \notin Loops
    BY <1>8, Zenon DEF Wait, Loops
  <2> QED BY <1>1, <2>1, <2>2, NothingSent
<1> QED BY <1>2, <1>3, <1>4, <1>5, <1>6, <1>7, <1>8
        DEF Next, LauncherNext, Interrupt, Terminate, Kill

\* What is known of the exit code where the launcher is, and of its handlers.
Reporting == lpc \in {"install", "check", "scan"} \/ Closing
Known     == rc \in {0} \cup {code[i] : i \in logged}

\* Steps that leave the exit code alone keep CodeInv unless the launcher comes to
\* report or to undo.
LEMMA SameCode ==
  ASSUME CodeInv, UNCHANGED <<handlers, procs, rc>>,
         \A i \in logged : i \in logged' /\ code'[i] = code[i],
         Reporting' => Reporting,
         lpc' \in {"check", "scan"} \/ Closing' => lpc \in {"check", "scan"} \/ Closing,
         Undoing' => Undoing
  PROVE  CodeInv'
<1>1. Known => Known'
  BY DEF Known
<1> QED BY <1>1 DEF CodeInv, Reporting, Known

\* A scan keeps the code of a child it reports.
LEMMA PollCode ==
  ASSUME SafeInv, CodeInv, Poll
  PROVE  CodeInv'
<1>1. /\ lpc = "scan" /\ lpc' = "scan" /\ UNCHANGED <<handlers, procs, code>>
      /\ logged \subseteq logged'
      /\ rc' = rc \/ (next \in logged' /\ rc' = code[next])
  BY DEF Poll, childVars
<1>2. Known => Known'
  <2>1. CASE rc' = rc
    BY <1>1, <2>1 DEF Known
  <2>2. CASE next \in logged' /\ rc' = code[next]
    BY <1>1, <2>2 DEF Known
  <2> QED BY <1>1, <2>1, <2>2
<1> QED BY <1>1, <1>2 DEF CodeInv, Known, Closing, Undoing, Loops

LEMMA CodeStep ==
  ASSUME SafeInv, CodeInv, [Next]_vars
  PROVE  CodeInv'
<1> USE DEF childVars, Goto
<1>1. ASSUME NEW i \in Nodes, NEW c \in ExitCodes, ChildExits(i, c)
      PROVE  CodeInv'
  <2>1. /\ UNCHANGED <<lpc, handlers, procs, rc, logged>> /\ i \notin logged
        /\ code' = [code EXCEPT ![i] = c]
    BY <1>1 DEF ChildExits, SafeInv, TypeOK, ChildrenOK
  <2>2. \A j \in logged : code'[j] = code[j]
    BY <2>1 DEF SafeInv, TypeOK, ChildrenOK
  <2> QED BY <2>1, <2>2, SameCode DEF Reporting, Closing, Undoing
<1>2. ASSUME NEW s \in {"INT", "TERM"}, Signal(s)
      PROVE  CodeInv'
  <2>1. CASE s \in handlers
    <3>1. UNCHANGED <<lpc, handlers, procs, rc, logged, code>>
      BY <1>2, <2>1 DEF Signal
    <3> QED BY <3>1, SameCode DEF Reporting, Closing, Undoing
  <2>2. CASE s \notin handlers
    <3>1. lpc' = "done"
      BY <1>2, <2>2 DEF Signal
    <3> QED BY <3>1 DEF CodeInv, Closing, Undoing, Loops
  <2> QED BY <2>1, <2>2
<1>3. CASE Spawn
  BY <1>3 DEF Spawn, CodeInv, Closing, Undoing, Loops
<1>4. CASE SpawnFails
  BY <1>4 DEF SpawnFails, CodeInv, Closing, Undoing, Loops, SafeInv, HandlerInv
<1>5. CASE SpawnedAll
  <2>1. lpc' = "install" /\ rc' = 0 /\ procs' = Nodes
    <3>1. procs = 1..(next - 1) /\ rc = 0 /\ next = N + 1
      BY <1>5, LaunchAssumption DEF SpawnedAll, SafeInv, SpawnInv, TypeOK, LoopOK
    <3> QED BY <1>5, <3>1, LaunchAssumption DEF SpawnedAll, Nodes
  <2> QED BY <2>1 DEF CodeInv, Closing, Undoing, Loops
<1>6. CASE Install
  <2>1. /\ lpc = "install" /\ UNCHANGED <<procs, rc, logged, code>>
        /\ lpc' = "install" \/ (lpc' = "check" /\ handlers' = {"INT", "TERM"})
    BY <1>6 DEF Install
  <2> QED BY <2>1 DEF CodeInv, Closing, Undoing, Loops
<1>7. CASE Check \/ Scanned
  <2>1. /\ lpc \in {"check", "scan"} /\ lpc' \in {"check", "scan", "int"}
        /\ UNCHANGED <<handlers, procs, rc, logged, code>>
    BY <1>7 DEF Check, Scanned
  <2> QED BY <2>1 DEF CodeInv, Closing, Undoing, Loops
<1>8. CASE Poll
  BY <1>8, PollCode
<1>9. CASE \/ SendTo("int", "INT") \/ SendTo("term", "TERM") \/ SendTo("kill", "KILL")
           \/ UNCHANGED vars
  <2>1. UNCHANGED <<lpc, handlers, procs, rc, logged, code>>
    BY <1>9 DEF SendTo, vars
  <2> QED BY <2>1, SameCode DEF Reporting, Closing, Undoing
<1>10. CASE \/ SentAll("int", "int_wait") \/ SentAll("term", "term_wait")
            \/ SentAll("kill", "done")
            \/ Wait("int_wait", "term") \/ Wait("term_wait", "kill")
  <2>1. UNCHANGED <<handlers, procs, rc, logged, code>>
    BY <1>10 DEF SentAll, Wait
  <2>2. lpc \in Loops /\ lpc' \in Loops \cup {"done"}
    BY <1>10, Zenon DEF SentAll, Wait, Loops
  <2> QED BY <2>1, <2>2, SameCode DEF Reporting, Closing, Undoing, Loops
<1>11. CASE SpawnRaises
  BY <1>11 DEF SpawnRaises, CodeInv, Closing, Undoing, Loops
<1> QED BY <1>1, <1>2, <1>3, <1>4, <1>5, <1>6, <1>7, <1>8, <1>9, <1>10, <1>11
        DEF Next, LauncherNext, Interrupt, Terminate, Kill

LEMMA OnceInvariance == Spec => []OnceInv
<1>1. Init => OnceInv
  BY DEF Init, OnceInv, NotYet
<1> QED BY <1>1, OnceStep, SafeInvariance, PTL DEF Spec

LEMMA CodeInvariance == Spec => []CodeInv
<1>1. Init => CodeInv
  BY DEF Init, CodeInv, Closing, Undoing, Loops
<1> QED BY <1>1, CodeStep, SafeInvariance, PTL DEF Spec

\* IInv holds in every state of a launch.
THEOREM LaunchInvariance == Spec => []IInv
BY SafeInvariance, OnceInvariance, CodeInvariance, PTL DEF IInv

-----------------------------------------------------------------------------
(* The launcher keeps LaunchContract.                                      *)

Up     == procs \ exited
Result == IF lpc = "done" THEN rc ELSE None

\* Phase, label by label.
PhaseTable ==
  /\ lpc \in {"spawn", "install"} => Phase = "starting"
  /\ lpc \in {"check", "scan"} => Phase = "running"
  /\ Undoing => Phase = "undoing"
  /\ Closing => Phase = "closing"
  /\ lpc = "done" => Phase = "over"

LEMMA PhaseByLabel == PhaseTable /\ PhaseTable'
<1>1. PhaseTable
  BY Zenon DEF PhaseTable, Phase, Undoing, Closing, Loops
<1>2. PhaseTable'
  BY Zenon DEF PhaseTable, Phase, Undoing, Closing, Loops
<1> QED BY <1>1, <1>2

\* Insistence, and how a signal raises it.
LEMMA InsistenceOf ==
  ASSUME NEW i \in Nodes
  PROVE  /\ "KILL" \in sent[i] => Insistence[i] = 3
         /\ "KILL" \notin sent[i] /\ "TERM" \in sent[i] => Insistence[i] = 2
         /\ "KILL" \notin sent[i] /\ "TERM" \notin sent[i] =>
              Insistence[i] = IF "INT" \in sent[i] THEN 1 ELSE 0
BY DEF Insistence

\* What the contract sees of a launch that goes on.
LEMMA ContractUnseen ==
  ASSUME UNCHANGED <<procs, exited, code, sent, shutdown, Phase>>,
         lpc # "done", lpc' # "done"
  PROVE  UNCHANGED Contract!vars
BY DEF Contract!vars, Insistence

LEMMA ContractInit == Init => Contract!Init
<1> SUFFICES ASSUME Init PROVE Contract!Init
  OBVIOUS
<1>1. Phase = "starting"
  BY PhaseByLabel DEF PhaseTable, Init
<1>2. Insistence = [i \in Nodes |-> 0]
  BY DEF Insistence, Init
<1> QED BY <1>1, <1>2 DEF Init, Contract!Init, Contract!Nodes, Nodes

\* The children and the signals, at any time.
LEMMA ContractChild ==
  ASSUME IInv, NEW i \in Nodes, NEW c \in ExitCodes, ChildExits(i, c)
  PROVE  Contract!Next
<1>1. /\ i \in Up /\ exited' = exited \cup {i} /\ code' = [code EXCEPT ![i] = c]
      /\ UNCHANGED <<lpc, handlers, procs, sent, shutdown, rc>>
  BY DEF ChildExits, Up
<1>2. Up' = Up \ {i}
  BY <1>1 DEF Up
<1>3. Phase' = Phase /\ Insistence' = Insistence /\ Result' = Result
  BY <1>1 DEF Phase, Insistence, Result
<1>4. Contract!End(i, c)
  BY <1>1, <1>2, <1>3 DEF Contract!End, Up, Result
<1> QED BY <1>4 DEF Contract!Next, Contract!Nodes, Nodes

LEMMA ContractSignal ==
  ASSUME IInv, NEW s \in {"INT", "TERM"}, Signal(s)
  PROVE  Contract!Next
<1>1. UNCHANGED <<procs, exited, code, sent, handlers>> /\ lpc # "done"
  BY DEF Signal, childVars
<1>2. Insistence' = Insistence /\ Up' = Up
  BY <1>1 DEF Insistence, Up
<1>3. CASE s \in handlers
  <2>1. shutdown' = TRUE /\ lpc' = lpc /\ rc' = rc
    BY <1>3 DEF Signal
  <2>2. Phase' = Phase /\ Result' = Result
    BY <1>1, <2>1 DEF Phase, Result
  <2>3. Phase # "over"
    <3>1. lpc \in {"spawn", "install"} \/ lpc \in {"check", "scan"} \/ Undoing \/ Closing
      BY <1>1 DEF IInv, SafeInv, TypeOK, LoopOK, LPcs, Undoing, Closing, Loops
    <3> QED BY <3>1, PhaseByLabel DEF PhaseTable
  <2>4. Contract!Tell
    BY <1>1, <1>2, <2>1, <2>2, <2>3 DEF Contract!Tell, Up, Result
  <2> QED BY <2>4 DEF Contract!Next
<1>4. CASE s \notin handlers
  <2>1. lpc' = "done" /\ rc' \in {130, 143} /\ shutdown' = shutdown
    BY <1>4 DEF Signal
  <2>2. lpc \in {"spawn", "install"} \/ Undoing
    BY <1>1, <1>4 DEF IInv, CodeInv, SafeInv, TypeOK, LoopOK, LPcs, Undoing, Closing, Loops
  <2>3. Phase \in {"starting", "undoing"} /\ Phase' = "over"
    BY <2>1, <2>2, PhaseByLabel DEF PhaseTable
  <2>4. Result' \in {130, 143}
    BY <2>1 DEF Result
  <2>5. Contract!Abandon
    BY <1>1, <1>2, <2>1, <2>3, <2>4 DEF Contract!Abandon, Contract!Enter, Up, Result
  <2> QED BY <2>5 DEF Contract!Next
<1> QED BY <1>3, <1>4

\* spawn_all starts the children in order, and the loop follows when all are started.
LEMMA ContractSpawn ==
  ASSUME IInv, Spawn \/ SpawnFails \/ SpawnRaises \/ SpawnedAll \/ Install
  PROVE  Contract!Next \/ UNCHANGED Contract!vars
<1>1. exited \subseteq procs /\ next \in Nat /\ N \in Nat
  BY LaunchAssumption DEF IInv, SafeInv, TypeOK, LoopOK, ChildrenOK
<1>2. Up \cup exited = procs
  BY <1>1 DEF Up
<1>3. UNCHANGED <<exited, code, sent, shutdown>>
  BY DEF Spawn, SpawnFails, SpawnRaises, SpawnedAll, Install, childVars
<1>4. Insistence' = Insistence
  BY <1>3 DEF Insistence
<1>5. Phase = "starting" /\ Result = None
  BY PhaseByLabel
     DEF Spawn, SpawnFails, SpawnRaises, SpawnedAll, Install, PhaseTable, Result
<1>6. CASE Spawn
  <2>1. /\ lpc = "spawn" /\ lpc' = "spawn" /\ next \in Nodes
        /\ procs = 1..(next - 1) /\ procs' = procs \cup {next}
    BY <1>1, <1>6 DEF Spawn, IInv, SafeInv, SpawnInv, TypeOK, LoopOK, Nodes
  <2>2. next \notin exited
    BY <1>1, <2>1
  <2>3. Up' = Up \cup {next}
    BY <1>3, <2>1, <2>2 DEF Up
  <2>4. Phase' = "starting" /\ Result' = None
    BY <2>1, PhaseByLabel DEF PhaseTable, Result
  <2>5. Contract!Start(next)
    BY <1>2, <1>3, <1>4, <1>5, <2>1, <2>3, <2>4 DEF Contract!Start, Up, Result
  <2> QED BY <2>1, <2>5 DEF Contract!Next, Contract!Nodes, Nodes
<1>7. CASE SpawnFails
  <2>1. /\ procs = 1..(next - 1) /\ next <= N /\ procs' = procs /\ lpc' = "int"
        /\ handlers' = {}
    BY <1>7 DEF SpawnFails, IInv, SafeInv, SpawnInv, HandlerInv, Goto, childVars
  <2>2. procs # Nodes
    <3>1. N \in Nodes /\ N \notin 1..(next - 1)
      BY <1>1, <2>1, LaunchAssumption DEF Nodes
    <3> QED BY <2>1, <3>1
  <2>3. Up' = Up
    BY <1>3, <2>1 DEF Up
  <2>4. Phase' = "undoing" /\ Result' = None
    BY <2>1, PhaseByLabel DEF PhaseTable, Undoing, Loops, Result
  <2>5. Contract!Undo
    BY <1>2, <1>3, <1>4, <1>5, <2>1, <2>2, <2>3, <2>4
       DEF Contract!Undo, Contract!Enter, Contract!Nodes, Nodes, Up, Result
  <2> QED BY <2>5 DEF Contract!Next
<1>8. CASE SpawnedAll \/ (Install /\ "INT" \notin handlers)
  <2>1. lpc \in {"spawn", "install"} /\ lpc' = "install" /\ procs' = procs
    BY <1>8 DEF SpawnedAll, Install, Goto, childVars
  <2>2. Phase' = Phase
    BY <1>5, <2>1, PhaseByLabel DEF PhaseTable
  <2> QED BY <1>3, <2>1, <2>2, ContractUnseen
<1>9. CASE Install /\ "INT" \in handlers
  <2>1. lpc = "install" /\ lpc' = "check" /\ procs' = procs /\ procs = Nodes
    BY <1>9 DEF Install, Goto, childVars, IInv, SafeInv, SpawnInv
  <2>2. Up' = Up
    BY <1>3, <2>1 DEF Up
  <2>3. Phase' = "running" /\ Result' = None
    BY <2>1, PhaseByLabel DEF PhaseTable, Result
  <2>4. Contract!GoOn
    BY <1>2, <1>3, <1>4, <1>5, <2>1, <2>2, <2>3
       DEF Contract!GoOn, Contract!Enter, Contract!Nodes, Nodes, Up, Result
  <2> QED BY <2>4 DEF Contract!Next
<1>10. CASE SpawnRaises
  <2>1. lpc' = "done" /\ rc' = 1 /\ procs' = procs
    BY <1>10 DEF SpawnRaises, childVars
  <2>2. Up' = Up
    BY <1>3, <2>1 DEF Up
  <2>3. Phase' = "over" /\ Result' = 1
    BY <2>1, PhaseByLabel DEF PhaseTable, Result
  <2>4. Contract!Abandon
    BY <1>3, <1>4, <1>5, <2>1, <2>2, <2>3 DEF Contract!Abandon, Contract!Enter, Up, Result
  <2> QED BY <2>4 DEF Contract!Next
<1> QED BY <1>6, <1>7, <1>8, <1>9, <1>10

\* The polling loop ends when it was told to, or when nobody is left.
LEMMA ContractPoll ==
  ASSUME IInv, Check \/ Poll \/ Scanned
  PROVE  Contract!Next \/ UNCHANGED Contract!vars
<1>1. /\ lpc \in {"check", "scan"} /\ lpc' \in {"check", "scan", "int"}
      /\ UNCHANGED <<procs, exited, code, sent, shutdown, handlers>>
  BY DEF Check, Poll, Scanned, Goto, childVars
<1>2. Insistence' = Insistence /\ Up' = Up
  BY <1>1 DEF Insistence, Up
<1>3. Phase = "running" /\ Result = None
  BY <1>1, PhaseByLabel DEF PhaseTable, Result
<1>4. CASE lpc' # "int"
  <2>1. Phase' = Phase
    BY <1>1, <1>3, <1>4, PhaseByLabel DEF PhaseTable
  <2> QED BY <1>1, <2>1, ContractUnseen
<1>5. CASE lpc' = "int"
  <2>1. shutdown \/ (Scanned /\ ~alive)
    BY <1>5, Zenon DEF Check, Poll, Scanned, Goto
  <2>2. shutdown \/ Up = {}
    <3>1. CASE Scanned /\ ~alive
      <4>1. \A i \in Nodes : i < next
        BY <3>1, LaunchAssumption DEF Scanned, IInv, SafeInv, TypeOK, LoopOK, Nodes
      <4>2. /\ \A i \in Nodes : i \in logged
            /\ logged \subseteq exited /\ procs \subseteq Nodes
        BY <3>1, <4>1 DEF Scanned, IInv, SafeInv, TypeOK, ChildrenOK, ScanInv
      <4> QED BY <4>2 DEF Up
    <3> QED BY <2>1, <3>1
  <2>3. Phase' = "closing" /\ Result' = None
    <3>1. handlers' # {}
      BY <1>1 DEF IInv, CodeInv
    <3> QED BY <1>5, <3>1, PhaseByLabel DEF PhaseTable, Closing, Loops, Result
  <2>4. Contract!Stop
    BY <1>1, <1>2, <1>3, <2>2, <2>3 DEF Contract!Stop, Contract!Enter, Up, Result
  <2> QED BY <2>4 DEF Contract!Next
<1> QED BY <1>4, <1>5

\* In each loop the child it has reached was asked k times, nobody who is up was
\* asked less, and the signal of the loop is one it was not sent.
Rank(s, k) == \/ lpc = "int" /\ s = "INT" /\ k = 0
              \/ lpc = "term" /\ s = "TERM" /\ k = 1
              \/ lpc = "kill" /\ s = "KILL" /\ k = 2

LEMMA LoopBarrier ==
  ASSUME IInv, next \in Up, NEW s, NEW k, Rank(s, k)
  PROVE  /\ next \in Nodes /\ Insistence[next] = k
         /\ \A j \in Up : Insistence[j] >= k
<1>1. next \in Nodes /\ next >= next /\ Up \subseteq Nodes
  BY LaunchAssumption DEF IInv, SafeInv, TypeOK, LoopOK, ChildrenOK, Up, Nodes
<1>2. CASE lpc = "int" /\ k = 0
  <2>1. sent[next] \cap {"INT", "TERM", "KILL"} = {}
    BY <1>1, <1>2 DEF IInv, OnceInv, NotYet
  <2>2. \A j \in Nodes : Insistence[j] \in {0, 1, 2, 3}
    BY DEF Insistence
  <2> QED BY <1>1, <1>2, <2>1, <2>2, InsistenceOf
<1>3. CASE lpc = "term" /\ k = 1
  <2>1. sent[next] \cap {"TERM", "KILL"} = {}
    BY <1>1, <1>3 DEF IInv, OnceInv, NotYet
  <2>2. \A j \in Up : "INT" \in sent[j]
    BY <1>3 DEF IInv, SafeInv, SentInv, Reached, Up
  <2>3. \A j \in Up : Insistence[j] \in {1, 2, 3}
    BY <1>1, <2>2 DEF Insistence
  <2> QED BY <1>1, <1>3, <2>1, <2>2, <2>3, InsistenceOf
<1>4. CASE lpc = "kill" /\ k = 2
  <2>1. "KILL" \notin sent[next]
    BY <1>1, <1>4 DEF IInv, OnceInv, NotYet
  <2>2. \A j \in Up : "TERM" \in sent[j]
    BY <1>4 DEF IInv, SafeInv, SentInv, Reached, Up
  <2>3. \A j \in Up : Insistence[j] \in {2, 3}
    BY <1>1, <2>2 DEF Insistence
  <2> QED BY <1>1, <1>4, <2>1, <2>2, <2>3, InsistenceOf
<1> QED BY <1>2, <1>3, <1>4 DEF Rank

\* One turn of a loop is one escalation, or nothing for a child that has ended.
LEMMA ContractTurn ==
  ASSUME IInv, NEW label, NEW s, NEW k, Rank(s, k), lpc = label, SendTo(label, s)
  PROVE  Contract!Next \/ UNCHANGED Contract!vars
<1>1. s \in {"INT", "TERM", "KILL"} /\ k \in 0..2 /\ lpc \in Loops
  BY DEF Rank, Loops
<1>2. UNCHANGED <<lpc, handlers, procs, exited, code, shutdown, rc>>
  BY DEF SendTo
<1>3. Phase' = Phase /\ Up' = Up /\ Result' = Result
  BY <1>2 DEF Phase, Up, Result
<1>4. CASE next \notin Up
  <2>1. sent' = sent
    BY <1>1, <1>4, TurnSends DEF IInv, Up
  <2> QED BY <1>1, <1>2, <1>3, <2>1, ContractUnseen DEF Loops
<1>5. CASE next \in Up
  <2>1. sent' = [sent EXCEPT ![next] = @ \cup {s}]
    BY <1>1, <1>5, TurnSends DEF IInv, Up
  <2>2. sent \in [Nodes -> SUBSET {"INT", "TERM", "KILL"}] /\ next \in Nodes
    BY <1>5, LoopBarrier DEF IInv, SafeInv, TypeOK, ChildrenOK
  <2>3. Insistence'[next] = k + 1
    <3>1. sent'[next] = sent[next] \cup {s}
      BY <2>1, <2>2
    <3>2. Insistence'[next] = IF "KILL" \in sent'[next] THEN 3 ELSE IF "TERM" \in sent'[next]
                                THEN 2 ELSE IF "INT" \in sent'[next] THEN 1 ELSE 0
      BY <2>2 DEF Insistence
    <3>3. /\ k < 2 => "KILL" \notin sent[next]
          /\ k < 1 => "TERM" \notin sent[next]
      BY <1>1, <2>2 DEF Rank, IInv, OnceInv, NotYet
    <3> QED BY <3>1, <3>2, <3>3 DEF Rank
  <2>4. \A j \in Nodes : j # next => Insistence'[j] = Insistence[j]
    BY <2>1, <2>2 DEF Insistence
  <2>5. Insistence[next] = k /\ \A j \in Up : Insistence[j] >= Insistence[next]
    BY <1>5, LoopBarrier
  <2>6. Insistence' = [Insistence EXCEPT ![next] = @ + 1]
    <3> DEFINE f == Insistence
               g == Insistence'
    <3>1. DOMAIN f = Nodes /\ f = [j \in Nodes |-> f[j]]
          /\ g = [j \in Nodes |-> g[j]]
      BY DEF Insistence
    <3>2. g[next] = f[next] + 1 /\ \A j \in Nodes : j # next => g[j] = f[j]
      BY <2>3, <2>4, <2>5
    <3> HIDE DEF f, g
    <3>3. g = [f EXCEPT ![next] = @ + 1]
      BY <2>2, <3>1, <3>2
    <3> QED BY <3>3 DEF f, g
  <2>7. Phase \in {"undoing", "closing"}
    BY <1>1, PhaseByLabel DEF PhaseTable, Undoing, Closing
  <2>8. Insistence[next] < 3
    BY <1>1, <2>5
  <2>9. Contract!Escalate(next)
    BY <1>2, <1>3, <1>5, <2>5, <2>6, <2>7, <2>8 DEF Contract!Escalate, Up, Result
  <2> QED BY <2>2, <2>9 DEF Contract!Next, Contract!Nodes, Nodes
<1> QED BY <1>4, <1>5

\* The launcher returns from _terminate_all when everybody who is up was killed.
LEMMA ContractFinish ==
  ASSUME IInv, lpc \in Loops, lpc' = "done", \A i \in Up : "KILL" \in sent[i],
         UNCHANGED <<procs, exited, code, sent, shutdown, rc>>
  PROVE  Contract!Next
<1>1. Insistence' = Insistence /\ Up' = Up
  BY DEF Insistence, Up
<1>2. \A i \in Up : Insistence[i] = 3
  BY InsistenceOf DEF Up, IInv, SafeInv, TypeOK, ChildrenOK
<1>3. Phase' = "over" /\ Result' = rc
  BY PhaseByLabel DEF PhaseTable, Result
<1>4. CASE Undoing
  <2>1. Phase = "undoing" /\ rc = 2
    BY <1>4, PhaseByLabel DEF PhaseTable, IInv, CodeInv
  <2>2. Contract!Finish
    BY <1>1, <1>2, <1>3, <2>1 DEF Contract!Finish, Contract!Enter, Up, Result
  <2> QED BY <2>2 DEF Contract!Next
<1>5. CASE Closing
  <2>1. /\ Phase = "closing" /\ procs = Nodes /\ logged \subseteq exited
        /\ rc \in {0} \cup {code[i] : i \in logged}
    BY <1>5, PhaseByLabel
       DEF PhaseTable, IInv, CodeInv, SafeInv, TypeOK, ChildrenOK
  <2>2. rc \in {0} \cup {code[i] : i \in exited}
    BY <2>1
  <2>3. shutdown \/ (rc = 0 <=> \A i \in Nodes : code[i] = 0)
    BY <2>1 DEF IInv, SafeInv, ScanInv, Loops
  <2>4. Contract!Finish
    BY <1>1, <1>2, <1>3, <2>1, <2>2, <2>3
       DEF Contract!Finish, Contract!Enter, Contract!Nodes, Nodes, Up, Result
  <2> QED BY <2>4 DEF Contract!Next
<1> QED BY <1>4, <1>5 DEF Undoing, Closing

\* Between the loops nothing is seen but the end of the last one.
LEMMA ContractLoops ==
  ASSUME IInv,
         \/ SentAll("int", "int_wait") \/ SentAll("term", "term_wait")
         \/ SentAll("kill", "done")
         \/ Wait("int_wait", "term") \/ Wait("term_wait", "kill")
  PROVE  Contract!Next \/ UNCHANGED Contract!vars
<1>1. UNCHANGED <<procs, exited, code, sent, shutdown, rc, handlers>>
  BY DEF SentAll, Wait, childVars
<1>2. lpc \in Loops /\ lpc' \in Loops \cup {"done"}
  BY Zenon DEF SentAll, Wait, Goto, Loops
<1>3. CASE lpc' # "done"
  <2>1. (Undoing <=> Undoing') /\ (Closing <=> Closing')
    BY <1>1, <1>2, <1>3 DEF Undoing, Closing
  <2>2. Phase' = Phase
    BY <1>2, <2>1, PhaseByLabel DEF PhaseTable, Undoing, Closing
  <2> QED BY <1>1, <1>2, <1>3, <2>2, ContractUnseen DEF Loops
<1>4. CASE lpc' = "done"
  <2>1. AllExited \/ SentAll("kill", "done")
    BY <1>4, Zenon DEF SentAll, Wait, Goto
  <2>2. \A i \in Up : "KILL" \in sent[i]
    <3>1. CASE AllExited
      BY <3>1 DEF AllExited, Up
    <3>2. CASE SentAll("kill", "done")
      <4>1. lpc = "kill" /\ \A i \in Nodes : i < next
        BY <3>2, LaunchAssumption DEF SentAll, IInv, SafeInv, TypeOK, LoopOK, Nodes
      <4> QED BY <4>1 DEF IInv, SafeInv, SentInv, Reached, TypeOK, ChildrenOK, Up
    <3> QED BY <2>1, <3>1, <3>2
  <2> QED BY <1>1, <1>2, <1>4, <2>2, ContractFinish
<1> QED BY <1>3, <1>4

\* Every behaviour of a launch is one the contract allows, for any number of nodes: it
\* stops when told or when all have ended, every child that is up is asked once before
\* any is asked harder, and the exit code is right.
THEOREM LaunchKeepsContract == Spec => ImplementsContract
<1>1. IInv /\ [Next]_vars => [Contract!Next]_(Contract!vars)
  <2> SUFFICES ASSUME IInv, [Next]_vars
               PROVE  Contract!Next \/ UNCHANGED Contract!vars
    OBVIOUS
  <2>1. CASE \E i \in Nodes, c \in ExitCodes : ChildExits(i, c)
    BY <2>1, ContractChild
  <2>2. CASE \E s \in {"INT", "TERM"} : Signal(s)
    BY <2>2, ContractSignal
  <2>3. CASE Spawn \/ SpawnFails \/ SpawnRaises \/ SpawnedAll \/ Install
    BY <2>3, ContractSpawn
  <2>4. CASE Check \/ Poll \/ Scanned
    BY <2>4, ContractPoll
  <2>5. ASSUME NEW label, NEW s, NEW k, SendTo(label, s),
               label = lpc => Rank(s, k)
        PROVE  Contract!Next \/ UNCHANGED Contract!vars
    BY <2>5, ContractTurn DEF SendTo
  <2>6. CASE SendTo("int", "INT") \/ SendTo("term", "TERM") \/ SendTo("kill", "KILL")
    <3>1. /\ "int" = lpc => Rank("INT", 0)
          /\ "term" = lpc => Rank("TERM", 1)
          /\ "kill" = lpc => Rank("KILL", 2)
      BY DEF Rank
    <3> QED BY <2>5, <2>6, <3>1
  <2>7. CASE \/ SentAll("int", "int_wait") \/ SentAll("term", "term_wait")
             \/ SentAll("kill", "done")
             \/ Wait("int_wait", "term") \/ Wait("term_wait", "kill")
    BY <2>7, ContractLoops
  <2>8. CASE UNCHANGED vars
    BY <2>8 DEF vars, Contract!vars, Phase, Insistence
  <2> QED BY <2>1, <2>2, <2>3, <2>4, <2>6, <2>7, <2>8
          DEF Next, LauncherNext, Interrupt, Terminate, Kill
<1> QED BY <1>1, ContractInit, LaunchInvariance, PTL
        DEF Spec, ImplementsContract, Contract!Spec
=============================================================================
