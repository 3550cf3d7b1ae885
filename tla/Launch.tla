-------------------------------- MODULE Launch --------------------------------
(***************************************************************************)
(* `talos launch` (python/talosos/commands/launch.py): start every node of *)
(* a launch file, poll until all have ended or a signal comes, then bring  *)
(* down what is left with SIGINT, SIGTERM and SIGKILL.  Signals may reach  *)
(* the launcher, and children may end, between any two of its steps.       *)
(***************************************************************************)
EXTENDS Naturals

CONSTANTS
  N,          \* nodes of the launch file, started in this order
  ExitCodes,  \* exit codes of children; 0 is success
  None

ASSUME LaunchAssumption == N \in Nat \ {0} /\ 0 \in ExitCodes /\ None \notin ExitCodes

Nodes == 1..N

VARIABLES
  lpc,        \* the launcher's code
  next,       \* position in procs of the loop it is in
  handlers,   \* signals whose handler is installed
  shutdown,   \* the threading.Event on_signal sets
  procs,      \* children started
  exited,     \* children that have ended (p.poll() is not None)
  code,       \* their exit codes
  sent,       \* signals sent to each child
  logged,     \* children with _talos_exit_logged
  alive,      \* the polling loop's flag
  rc,         \* the launcher's exit code
  cut         \* history: a signal or an exception ended the launcher itself

vars == <<lpc, next, handlers, shutdown, procs, exited, code, sent, logged, alive,
          rc, cut>>
childVars == <<procs, exited, code, sent>>

LPcs == {"spawn", "install", "check", "scan", "int", "int_wait", "term", "term_wait",
         "kill", "done"}

Init ==
  /\ lpc = "spawn" /\ next = 1
  /\ handlers = {} /\ shutdown = FALSE
  /\ procs = {} /\ exited = {}
  /\ code = [i \in Nodes |-> None]
  /\ sent = [i \in Nodes |-> {}]
  /\ logged = {} /\ alive = TRUE /\ rc = 0 /\ cut = FALSE

AllExited == procs \subseteq exited

-----------------------------------------------------------------------------
(* The environment.                                                        *)

\* A child ends, by itself or on a signal, with any code.
ChildExits(i, c) ==
  /\ i \in procs \ exited
  /\ exited' = exited \cup {i}
  /\ code' = [code EXCEPT ![i] = c]
  /\ UNCHANGED <<lpc, next, handlers, shutdown, procs, sent, logged, alive, rc, cut>>

\* SIGINT or SIGTERM for the launcher.  Without a handler SIGINT is a
\* KeyboardInterrupt, caught in main, and SIGTERM kills.
Signal(s) ==
  /\ lpc # "done"
  /\ IF s \in handlers
       THEN /\ shutdown' = TRUE
            /\ UNCHANGED <<lpc, rc, cut>>
       ELSE /\ lpc' = "done"
            /\ cut' = TRUE
            /\ rc' = IF s = "INT" THEN 130 ELSE 143
            /\ UNCHANGED shutdown
  /\ UNCHANGED <<next, handlers, childVars, logged, alive>>

-----------------------------------------------------------------------------
(* spawn_all and the handlers.                                             *)

Goto(label) == lpc' = label /\ next' = 1

\* Popen; the reader's start and the append are only seen when they fail.
Spawn ==
  /\ lpc = "spawn" /\ next <= N
  /\ procs' = procs \cup {next}
  /\ next' = next + 1
  /\ UNCHANGED <<lpc, handlers, shutdown, exited, code, sent, logged, alive, rc, cut>>

\* Popen raises OSError: terminate what runs already, and return 2.
SpawnFails ==
  /\ lpc = "spawn" /\ next <= N
  /\ Goto("int")
  /\ rc' = 2
  /\ UNCHANGED <<handlers, shutdown, childVars, logged, alive, cut>>

\* Any other exception leaves spawn_all past _terminate_all: Popen refuses the
\* arguments of the next node (ValueError), or the reader of the child started
\* last cannot be started, before that child is appended to the list.
SpawnRaises ==
  /\ lpc = "spawn"
  /\ lpc' = "done" /\ cut' = TRUE /\ rc' = 1
  /\ UNCHANGED <<next, handlers, shutdown, childVars, logged, alive>>

SpawnedAll ==
  /\ lpc = "spawn" /\ next > N
  /\ Goto("install")
  /\ UNCHANGED <<handlers, shutdown, childVars, logged, alive, rc, cut>>

Install ==
  /\ lpc = "install"
  /\ IF "INT" \notin handlers
       THEN handlers' = {"INT"} /\ UNCHANGED <<lpc, next>>
       ELSE handlers' = {"INT", "TERM"} /\ Goto("check")
  /\ UNCHANGED <<shutdown, childVars, logged, alive, rc, cut>>

-----------------------------------------------------------------------------
(* The polling loop.                                                       *)

\* Variant with a bug: the event is not looked at.
CheckNothing ==
  /\ lpc = "check"
  /\ Goto("scan") /\ alive' = FALSE
  /\ UNCHANGED <<handlers, shutdown, childVars, logged, rc, cut>>

\* while not shutdown.is_set(): sleep, then scan the children in order.
Check ==
  /\ lpc = "check"
  /\ IF shutdown THEN Goto("int") /\ UNCHANGED alive
                 ELSE Goto("scan") /\ alive' = FALSE
  /\ UNCHANGED <<handlers, shutdown, childVars, logged, rc, cut>>

\* Variant with a bug: the last exit code wins, a success included.
PollLastCode ==
  /\ lpc = "scan" /\ next <= N
  /\ next' = next + 1
  /\ IF next \notin exited
       THEN alive' = TRUE /\ UNCHANGED <<logged, rc>>
       ELSE /\ logged' = logged \cup {next}
            /\ rc' = IF next \notin logged THEN code[next] ELSE rc
            /\ UNCHANGED alive
  /\ UNCHANGED <<lpc, handlers, shutdown, childVars, cut>>

\* A child found dead for the first time is reported, and its code kept.
Poll ==
  /\ lpc = "scan" /\ next <= N
  /\ next' = next + 1
  /\ IF next \notin exited
       THEN alive' = TRUE /\ UNCHANGED <<logged, rc>>
       ELSE /\ logged' = logged \cup {next}
            /\ rc' = IF next \notin logged /\ code[next] # 0 THEN code[next] ELSE rc
            /\ UNCHANGED alive
  /\ UNCHANGED <<lpc, handlers, shutdown, childVars, cut>>

Scanned ==
  /\ lpc = "scan" /\ next > N
  /\ IF alive THEN Goto("check") ELSE Goto("int")
  /\ UNCHANGED <<handlers, shutdown, childVars, logged, alive, rc, cut>>

-----------------------------------------------------------------------------
(* _terminate_all.                                                         *)

\* One child's turn in a loop that sends signal s to the children still up.
\* Children that were never started are no members of procs.
SendTo(label, s) ==
  /\ lpc = label /\ next <= N
  /\ next' = next + 1
  /\ sent' = IF next \in procs \ exited
               THEN [sent EXCEPT ![next] = @ \cup {s}] ELSE sent
  /\ UNCHANGED <<lpc, handlers, shutdown, procs, exited, code, logged, alive, rc, cut>>

SentAll(label, after) ==
  /\ lpc = label /\ next > N
  /\ Goto(after)
  /\ UNCHANGED <<handlers, shutdown, childVars, logged, alive, rc, cut>>

Interrupt == SendTo("int", "INT") \/ SentAll("int", "int_wait")
Terminate == SendTo("term", "TERM") \/ SentAll("term", "term_wait")
Kill      == SendTo("kill", "KILL") \/ SentAll("kill", "done")

\* Variant with a bug: the second deadline gives up.
WaitAndGiveUp(label, escalate) ==
  /\ lpc = label
  /\ \/ AllExited /\ Goto("done")
     \/ Goto(IF escalate = "kill" THEN "done" ELSE escalate)
  /\ UNCHANGED <<handlers, shutdown, childVars, logged, alive, rc, cut>>

\* The waiting loops: until everybody has ended, or the deadline.
Wait(label, escalate) ==
  /\ lpc = label
  /\ \/ AllExited /\ Goto("done")
     \/ Goto(escalate)
  /\ UNCHANGED <<handlers, shutdown, childVars, logged, alive, rc, cut>>

LauncherNext == \/ Spawn \/ SpawnFails \/ SpawnRaises \/ SpawnedAll \/ Install
                \/ Check \/ Poll \/ Scanned
                \/ Interrupt \/ Wait("int_wait", "term")
                \/ Terminate \/ Wait("term_wait", "kill") \/ Kill

Next == \/ LauncherNext
        \/ \E i \in Nodes, c \in ExitCodes : ChildExits(i, c)
        \/ \E s \in {"INT", "TERM"} : Signal(s)

\* The launcher runs; children are left free to ignore every signal but KILL.
Spec     == Init /\ [][Next]_vars
FairSpec == /\ Spec
            /\ WF_vars(LauncherNext)
            /\ \A i \in Nodes :
                 WF_vars("KILL" \in sent[i] /\ \E c \in ExitCodes : ChildExits(i, c))

-----------------------------------------------------------------------------
(* Properties.                                                             *)

LoopOK == lpc \in LPcs /\ next \in 1..(N + 1)

FlagsOK ==
  /\ shutdown \in BOOLEAN /\ alive \in BOOLEAN /\ cut \in BOOLEAN
  /\ handlers \subseteq {"INT", "TERM"}
  /\ rc \in ExitCodes \cup {1, 2, 130, 143}

ChildrenOK ==
  /\ procs \subseteq Nodes /\ exited \subseteq procs /\ logged \subseteq exited
  /\ code \in [Nodes -> ExitCodes \cup {None}]
  /\ sent \in [Nodes -> SUBSET {"INT", "TERM", "KILL"}]

\* Every variable stays in its range (the locals of _do_launch), and only
\* children that have ended are reported.
TypeOK == LoopOK /\ FlagsOK /\ ChildrenOK

\* However children die while the launcher scans, signals and waits, it does
\* not return over a child that still runs and was not sent SIGKILL, unless a
\* signal or an exception ended the launcher itself.
NoChildLeftBehind ==
  lpc = "done" /\ ~cut => \A i \in procs \ exited : "KILL" \in sent[i]

\* A child is killed only after it outlived SIGINT and SIGTERM, in this
\* order, and nobody is signalled while the launch goes on by itself.
EscalationInOrder ==
  /\ \A i \in Nodes : /\ "KILL" \in sent[i] => "TERM" \in sent[i]
                      /\ "TERM" \in sent[i] => "INT" \in sent[i]
  /\ lpc \in {"spawn", "install", "check", "scan"} => \A i \in Nodes : sent[i] = {}

\* A launch that ends by itself has reported every node, and succeeds exactly
\* if every node did.
FailureIsReported ==
  lpc = "done" /\ ~shutdown /\ ~cut /\ procs = Nodes =>
    /\ logged = Nodes
    /\ rc = 0 <=> \A i \in Nodes : code[i] = 0

\* Ctrl+C ends a launch, whatever its nodes do about it.
SignalEndsLaunch == shutdown ~> lpc = "done"

\* However signals, ends of children and deadlines fall between its steps, the
\* launcher keeps its contract: it stops only when told or when all have
\* ended, asks every child that still runs before it asks any of them harder
\* (and none of them twice), and its exit code is right.
Phase == CASE lpc \in {"spawn", "install"} -> "starting"
           [] lpc \in {"check", "scan"}    -> "running"
           [] lpc = "done"                 -> "over"
           [] OTHER -> IF handlers = {} THEN "undoing" ELSE "closing"
Insistence == [i \in Nodes |->
  IF "KILL" \in sent[i] THEN 3 ELSE IF "TERM" \in sent[i] THEN 2
  ELSE IF "INT" \in sent[i] THEN 1 ELSE 0]

Contract == INSTANCE LaunchContract WITH
  phase <- Phase, up <- procs \ exited, ended <- exited, codes <- code, force <- Insistence,
  told <- shutdown, result <- IF lpc = "done" THEN rc ELSE None

ImplementsContract == Contract!Spec

\* The turns of loops ahead of a launcher that was told to stop.
LoopsLeft ==
  CASE lpc = "spawn" -> 9 [] lpc = "install"  -> 8 [] lpc = "scan" -> 7
    [] lpc = "check" -> 6 [] lpc = "int"      -> 5 [] lpc = "int_wait" -> 4
    [] lpc = "term"  -> 3 [] lpc = "term_wait" -> 2 [] lpc = "kill" -> 1
    [] lpc = "done"  -> 0
TurnsHere == IF lpc = "done" THEN 0 ELSE N + 1 - next
TurnsLeft == LoopsLeft * (N + 2) + TurnsHere

\* From the moment on_signal sets the event, wherever the launcher is then,
\* nothing brings it further from its end and each of its steps brings it
\* nearer: no scan in progress and no escalation can be run through again.
ShutdownConverges ==
  [][shutdown => /\ TurnsLeft' <= TurnsLeft
                 /\ LauncherNext => TurnsLeft' < TurnsLeft]_vars

-----------------------------------------------------------------------------
(* The inductive invariant behind the safety properties.                   *)

\* From label on, and up to next while the launcher is at label itself,
\* every child that still runs was sent s.
Reached(label, later, s) ==
  /\ lpc = label => \A i \in procs \ exited : i < next => s \in sent[i]
  /\ lpc \in later => \A i \in procs \ exited : s \in sent[i]

SentInv ==
  /\ Reached("int", {"int_wait", "term", "term_wait", "kill"}, "INT")
  /\ Reached("term", {"term_wait", "kill"}, "TERM")
  /\ Reached("kill", {}, "KILL")

SpawnInv ==
  /\ lpc = "spawn" => procs = 1..(next - 1)
  /\ lpc \in {"install", "check", "scan"} => procs = Nodes
  /\ lpc = "spawn" => logged = {} /\ rc = 0

ScanInv ==
  /\ \A i \in exited : code[i] \in ExitCodes
  /\ lpc = "scan" /\ ~alive => \A i \in Nodes : i < next => i \in logged
  /\ lpc \in {"install", "check", "scan"} => (rc = 0 <=> \A i \in logged : code[i] = 0)
  /\ lpc \in {"int", "int_wait", "term", "term_wait", "kill"} /\ ~shutdown
       /\ procs = Nodes =>
         logged = Nodes /\ (rc = 0 <=> \A i \in Nodes : code[i] = 0)

\* Only an installed handler sets the event, and the first one is SIGINT's.
HandlerInv ==
  /\ shutdown \/ handlers # {} => "INT" \in handlers
  /\ lpc = "spawn" => handlers = {}

SafeInv == TypeOK /\ SentInv /\ SpawnInv /\ ScanInv /\ HandlerInv
             /\ NoChildLeftBehind /\ EscalationInOrder /\ FailureIsReported

\* A child is sent each signal once: the loops have not reached the rest.
NotYet(label, earlier, s) ==
  /\ lpc = label => \A i \in Nodes : i >= next => s \notin sent[i]
  /\ lpc \in earlier => \A i \in Nodes : s \notin sent[i]

OnceInv ==
  /\ NotYet("int", {}, "INT")
  /\ NotYet("term", {"int", "int_wait"}, "TERM")
  /\ NotYet("kill", {"int", "int_wait", "term", "term_wait"}, "KILL")

\* The loops of _terminate_all start with both handlers, or with none after a
\* failed spawn; the exit code is that of a reported child, if one had failed.
Loops   == {"int", "int_wait", "term", "term_wait", "kill"}
Undoing == lpc \in Loops /\ handlers = {}
Closing == lpc \in Loops /\ handlers # {}

CodeInv ==
  /\ lpc \in {"check", "scan"} \/ Closing => handlers = {"INT", "TERM"}
  /\ lpc \in {"install", "check", "scan"} \/ Closing =>
       procs = Nodes /\ rc \in {0} \cup {code[i] : i \in logged}
  /\ Undoing => rc = 2

IInv == SafeInv /\ OnceInv /\ CodeInv
=============================================================================
