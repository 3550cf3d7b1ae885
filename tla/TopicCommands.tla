----------------------------- MODULE TopicCommands -----------------------------
(***************************************************************************)
(* The talos command line on topics and services: list and info, which     *)
(* read what talosos_tool lists, and echo, which subscribes by itself, or  *)
(* with --raw through the tool, until it has its count of messages or a    *)
(* signal stops it.  Next to it the nodes of Discovery come, go and crash. *)
(***************************************************************************)
EXTENDS Discovery, FiniteSets

CONSTANTS
  Requests,    \* the command lines: verb, what it asks for, argument, --count, and
               \* the endpoints there may be meanwhile
  Threads,     \* transport threads that run echo's callback
  MaxSamples   \* bounds the messages an echo receives

Verb == {"list", "info", "echo", "echo --raw"}
ASSUME RequestAssumption ==
  /\ Requests \subseteq [verb : Verb, kind : Kind, arg : Name, count : Nat,
                   endpoints : SUBSET Endpoints]
  /\ MaxSamples \in Nat
  /\ IsFiniteSet(Threads)

VARIABLES
  request,
  entries, verdict,     \* list and info: what was collected, what is reported
  epc, g_ok,            \* echo: its main thread, and the process's g_ok
  cpc, read,            \* each callback, and the state["n"] it has read
  n, finished,          \* state["n"] or received; and done
  printed, received,    \* history: messages printed, and handed to callbacks
  signalled             \* history: a signal came before, or after, Init's end

listVars == <<entries, verdict>>
echoVars == <<epc, g_ok, cpc, read, n, finished, printed, received, signalled>>
commandVars == <<request, listVars, echoVars>>
vars == <<discoveryVars, commandVars>>

Listing == request.verb \in {"list", "info"}
Raw == request.verb = "echo --raw"

Init ==
  /\ DiscoveryInit
  /\ request \in Requests /\ kind = request.kind
  /\ \A e \in Endpoints : endpoint[e] = "never" <=> e \notin request.endpoints
  /\ entries = <<>> /\ verdict = "none"
  /\ epc = "start" /\ g_ok = TRUE
  /\ cpc = [t \in Threads |-> "idle"] /\ read = [t \in Threads |-> 0]
  /\ n = 0 /\ finished = FALSE /\ printed = 0 /\ received = 0
  /\ signalled = {}

-----------------------------------------------------------------------------
(* list and info: topic.py, service.py.                                    *)

\* _collect_list: nothing is made of the output of a tool that failed; every line
\* is a topic, its type and its nodes.
Collected ==
  IF tpc # "exited" THEN <<>>
  ELSE [name \in {_as_topic_name(key) : key \in DOMAIN out} |->
          out[CHOOSE key \in DOMAIN out : _as_topic_name(key) = name]]

\* Variant with a bug: the argument is looked up as it was typed.
ReportAsTyped ==
  /\ Listing /\ verdict = "none"
  /\ tpc \in {"exited", "crashed"}
  /\ entries' = Collected
  /\ verdict' = IF request.verb = "list" THEN "listed"
                ELSE IF _as_topic_name(request.arg) \in DOMAIN Collected THEN "found"
                ELSE "nobody"
  /\ UNCHANGED <<discoveryVars, request, echoVars>>

Report ==
  /\ Listing /\ verdict = "none"
  /\ tpc \in {"exited", "crashed"}
  /\ entries' = Collected
  /\ verdict' = IF request.verb = "list" THEN "listed"
                ELSE IF _as_topic_name(_normalize_topic(request.arg)) \in DOMAIN Collected
                  THEN "found"
                ELSE "nobody"
  /\ UNCHANGED <<discoveryVars, request, echoVars>>

-----------------------------------------------------------------------------
(* echo's main thread: topic.py:149-172 and node.cc:98-107, or with --raw  *)
(* RunTopicEcho.                                                           *)

Echoing == request.verb \in {"echo", "echo --raw"}

\* The runtime resolves the name for a node "talos_echo"; the tool takes it as a key.
EchoKey ==
  LET topic == _normalize_topic(request.arg)
  IN IF Raw THEN topic
     ELSE ResolveTopic([ns |-> <<>>, name |-> <<"talos_echo">>], topic)

\* Init installs the handlers first ...
InstallHandlers ==
  /\ Echoing /\ ~Raw /\ epc = "start"
  /\ epc' = "installed"
  /\ UNCHANGED <<discoveryVars, request, listVars, g_ok, cpc, read, n, finished, printed,
                 received, signalled>>

\* ... and sets g_ok then, so that a signal in between is forgotten.
SetOk ==
  /\ epc = "installed"
  /\ epc' = "ready"
  /\ g_ok' = TRUE
  /\ UNCHANGED <<discoveryVars, request, listVars, cpc, read, n, finished, printed,
                 received, signalled>>

Subscribe ==
  /\ Echoing
  /\ epc = IF Raw THEN "start" ELSE "ready"
  /\ epc' = "looping"
  /\ UNCHANGED <<discoveryVars, request, listVars, g_ok, cpc, read, n, finished, printed,
                 received, signalled>>

\* No type is known for the topic, or the session, the node or the subscription
\* cannot be had: the command ends with an error before its loop.
GiveUp ==
  /\ Echoing
  /\ epc = "start" \/ (~Raw /\ epc = "ready")
  /\ epc' = "killed"
  /\ UNCHANGED <<discoveryVars, request, listVars, g_ok, cpc, read, n, finished, printed,
                 received, signalled>>

\* The loop looks at done every 50 ms, and the runtime's at ok() as well.
Stop ==
  /\ epc = "looping"
  /\ finished \/ (~Raw /\ ~g_ok)
  /\ epc' = "ended"
  /\ UNCHANGED <<discoveryVars, request, listVars, g_ok, cpc, read, n, finished, printed,
                 received, signalled>>

\* SIGINT or SIGTERM: HandleSignal, or the default action if it is not installed,
\* which it never is in the tool.
Signal ==
  /\ Echoing /\ epc \notin {"ended", "killed"}
  /\ IF Raw \/ epc = "start" THEN epc' = "killed" /\ UNCHANGED g_ok
                             ELSE g_ok' = FALSE /\ UNCHANGED epc
  /\ signalled' = signalled \cup {IF epc \in {"ready", "looping"} THEN "late" ELSE "early"}
  /\ UNCHANGED <<discoveryVars, request, listVars, cpc, read, n, finished, printed, received>>

-----------------------------------------------------------------------------
(* echo's callbacks.  In Python they hold the interpreter lock, which may  *)
(* change hands between the printing and the reading and writing of        *)
(* state["n"].  They may still run when the main thread has left its loop, *)
(* until the node is torn down.                                            *)

Callback(t, from, to) ==
  /\ epc \in {"looping", "ended"}
  /\ cpc[t] = from
  /\ cpc' = [cpc EXCEPT ![t] = to]
  /\ UNCHANGED <<discoveryVars, request, listVars, epc, g_ok, signalled>>

\* A message under echo's key arrives.
Receive(t) ==
  /\ Callback(t, "idle", IF Raw THEN "count" ELSE "print")
  /\ received < MaxSamples
  /\ \E e \in Endpoints :
       Decl[e].kind = "pub" /\ endpoint[e] \notin {"never", "absent"} /\ Key(e) = EchoKey
  /\ received' = received + 1
  /\ UNCHANGED <<read, n, finished, printed>>

PrintMessage(t) ==
  /\ Callback(t, "print", IF Raw THEN "check" ELSE "read")
  /\ printed' = printed + 1
  /\ UNCHANGED <<read, n, finished, received>>

\* A payload that is no message of the type: on_bytes warns and skips the callback.
SkipMessage(t) ==
  /\ ~Raw
  /\ Callback(t, "print", "idle")
  /\ UNCHANGED <<read, n, finished, printed, received>>

ReadCount(t) ==
  /\ Callback(t, "read", "write")
  /\ read' = [read EXCEPT ![t] = n]
  /\ UNCHANGED <<n, finished, printed, received>>

WriteCount(t) ==
  /\ Callback(t, "write", "check")
  /\ n' = read[t] + 1
  /\ UNCHANGED <<read, finished, printed, received>>

\* The tool counts atomically, before it prints.
FetchAdd(t) ==
  /\ Callback(t, "count", "print")
  /\ n' = n + 1
  /\ UNCHANGED <<read, finished, printed, received>>

\* Variant with a bug: the count is one short.
CheckEarly(t) ==
  /\ Callback(t, "check", "idle")
  /\ finished' = (finished \/ (request.count # 0 /\ n + 1 >= request.count))
  /\ UNCHANGED <<read, n, printed, received>>

CheckCount(t) ==
  /\ Callback(t, "check", "idle")
  /\ finished' = (finished \/ (request.count # 0 /\ n >= request.count))
  /\ UNCHANGED <<read, n, printed, received>>

OnMessage(t) == \/ Receive(t) \/ PrintMessage(t) \/ SkipMessage(t)
                \/ ReadCount(t) \/ WriteCount(t) \/ FetchAdd(t) \/ CheckCount(t)

EchoMain == InstallHandlers \/ SetOk \/ Subscribe \/ GiveUp \/ Stop
EchoNext == EchoMain \/ Signal \/ \E t \in Threads : OnMessage(t)

Next == \/ NodeNext /\ UNCHANGED commandVars
        \/ Listing /\ (ToolNext \/ QueryNext) /\ UNCHANGED commandVars
        \/ Report
        \/ EchoNext

Spec == Init /\ [][Next]_vars

\* The command's own threads run; the network and the nodes do as they please.
Fairness ==
  /\ WF_vars(Listing /\ ToolNext /\ UNCHANGED commandVars)
  /\ WF_vars(Report)
  /\ WF_vars(EchoMain)
  /\ \A t \in Threads : WF_vars(~(cpc[t] = "idle") /\ OnMessage(t))

FairSpec == Spec /\ Fairness

-----------------------------------------------------------------------------
EchoTypeOK ==
  /\ request \in Requests
  /\ verdict \in {"none", "listed", "found", "nobody"}
  /\ epc \in {"start", "installed", "ready", "looping", "ended", "killed"}
  /\ cpc \in [Threads -> {"idle", "print", "count", "read", "write", "check"}]
  /\ read \in [Threads -> Nat] /\ n \in Nat
  /\ g_ok \in BOOLEAN /\ finished \in BOOLEAN
  /\ printed \in Nat /\ received \in 0..MaxSamples
  /\ signalled \subseteq {"early", "late"}

TopicsTypeOK == DiscoveryTypeOK /\ EchoTypeOK

\* `info` denies a topic only if no endpoint has had it all the time, or the listing
\* was cut short, however many slashes its argument begins with: what the runtime
\* resolved, the token carried, the tool printed and the command line normalised is
\* the same name (node.cc:150, topic.py:46, 629, 678).
DeniedMeansAbsent ==
  verdict = "nobody" /\ whole =>
    ~\E e \in steady \cap Matching :
       StripLeadingSlash(Key(e)) = StripLeadingSlash(request.arg)

\* An echo that no signal stopped has done its count: the runtime's has printed that
\* many messages, although two callbacks may write the same number to state["n"];
\* the tool's has received them (topic.py:159-164, talosos_tool.cc:134-145).
EchoDoesItsCount ==
  epc = "ended" /\ "late" \notin signalled /\ "early" \notin signalled =>
    /\ request.count > 0
    /\ (IF Raw THEN n ELSE printed) >= request.count

\* Every command comes to its end: a listing whatever the network does, and an echo
\* once a signal arrives after Init or its count is done, in whatever order signals
\* and messages come (talosos_tool.cc:315, topic.py:168, node.cc:98-107).
CommandsEnd ==
  /\ (tpc = "waiting") ~> (verdict # "none")
  /\ ("late" \in signalled) ~> (epc \in {"ended", "killed"})
  /\ (finished /\ epc = "looping") ~> (epc \in {"ended", "killed"})

-----------------------------------------------------------------------------
(* The inductive invariant behind the safety properties.                   *)

VerdictInv == /\ verdict # "none" => tpc \in {"exited", "crashed"}
              /\ DeniedMeansAbsent

\* Callbacks that have printed and not counted: each will raise n by at most one
\* over what it has read.
Uncounted == {t \in Threads : cpc[t] \in {"read", "write"}}
EchoInv ==
  /\ \A t \in Threads : cpc[t] = "count" => Raw
  /\ ~Raw => /\ n + Cardinality(Uncounted) <= printed
             /\ \A t \in Threads : cpc[t] = "write" =>
                  read[t] + Cardinality(Uncounted) <= printed
  /\ Raw => Uncounted = {}
  /\ signalled = {} => g_ok
  /\ finished => request.count > 0 /\ (IF Raw THEN n ELSE printed) >= request.count

TopicsInv == TopicsTypeOK /\ DiscoveryInv /\ VerdictInv /\ EchoInv /\ EchoDoesItsCount
=============================================================================
