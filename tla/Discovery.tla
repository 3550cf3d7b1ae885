------------------------------- MODULE Discovery -------------------------------
(***************************************************************************)
(* Discovery: nodes declare publishers and services, each with a           *)
(* liveliness token whose key tells topic, type and node (node.cc), and    *)
(* talosos_tool asks the network for the tokens there are and lists what   *)
(* it makes of their keys (RunListLiveliness).                             *)
(* The transport's part is external: a token is visible from its           *)
(* declaration until it is dropped, or until some time after its process   *)
(* died; a query gathers tokens until each one that was visible all the    *)
(* time has been reported, or its timeout is over, then drops its          *)
(* callbacks.                                                              *)
(***************************************************************************)
EXTENDS TopicNames

CONSTANTS
  Words,       \* what names are made of, apart from slashes and tildes
  Endpoints,   \* publishers and services that nodes may declare
  Decl         \* Decl[e]: its kind, node, topic and type

Piece == Words \cup {Slash, "~"}
Name == Seq(Piece)
Kind == {"pub", "srv"}

Stage == {"never", "absent", "declared", "live", "silent", "closing"}

ASSUME DeclAssumption ==
  Decl \in [Endpoints -> [kind : Kind, node : [ns : Name, name : Name],
                          topic : Name, type : Name]]
ASSUME ServiceAssumption ==   \* node.cc:372: a service broadcasts no type
  \A e \in Endpoints : Decl[e].kind = "srv" => Decl[e].type = <<>>

VARIABLES
  endpoint,    \* how far each endpoint has got
  tokens,      \* the tokens the network shows
  dead,        \* those of them whose process has died
  kind,        \* what the listing asks for: topics or services
  tpc,         \* RunListLiveliness: where the tool's main thread is
  query,       \* the liveliness query: "none", "open" or "over"
  inflight, answered,   \* tokens reported: on their way, and all of them
  done, registry,       \* RunListLiveliness's locals
  out,         \* what it has printed
  expired,     \* history: the query was ended by its timeout
  whole,       \* history: the loop was left on done, which no timeout had set
  seen, steady \* history: tokens visible at some time of the query, and all the time

endpointVars == <<endpoint, tokens, dead>>
toolVars == <<tpc, done, registry, out, whole>>
queryVars == <<query, inflight, answered, expired, steady>>
discoveryVars == <<endpointVars, toolVars, queryVars, kind, seen>>

Key(e) == ResolveTopic(Decl[e].node, Decl[e].topic)
Token(e) == LiveKey(Decl[e].kind, Key(e), Decl[e].type, Decl[e].node)

\* Variant with a bug: the listing asks for every token, "_talos/**".
AnyToken == Endpoints

\* The tokens under the root asked for, "_talos/pub/**" or "_talos/srv/**".
Matching == {e \in Endpoints : Decl[e].kind = kind}

\* What the registry holds of a topic: the first type broadcast, and the nodes.
NoEntry == [type |-> <<>>, nodes |-> {}]
Entry(reg, key) == IF key \in DOMAIN reg THEN reg[key] ELSE NoEntry

-----------------------------------------------------------------------------
DiscoveryInit ==
  /\ endpoint \in [Endpoints -> {"absent", "never"}]   \* those nobody ever declares
  /\ tokens = {} /\ dead = {}
  /\ kind \in Kind
  /\ tpc = "start" /\ done = FALSE /\ registry = <<>> /\ out = <<>>
  /\ query = "none" /\ inflight = {} /\ answered = {}
  /\ expired = FALSE /\ whole = FALSE /\ seen = {} /\ steady = {}

\* A token e comes into, or out of, the sight of the network.
Appears(e) == /\ tokens' = tokens \cup {e}
              /\ seen' = seen \cup {e}
              /\ UNCHANGED steady
Vanishes(e) == /\ tokens' = tokens \ {e}
               /\ steady' = IF query = "open" THEN steady \ {e} ELSE steady
               /\ UNCHANGED seen

\* Advertise: declaring a publisher or a queryable throws on a key that is none ...
Declare(e) ==
  /\ endpoint[e] = "absent"
  /\ IsKeyExpr(Key(e))
  /\ endpoint' = [endpoint EXCEPT ![e] = "declared"]
  /\ UNCHANGED <<tokens, dead, toolVars, queryVars, kind, seen>>

\* ... while a token that cannot be declared costs a warning only.
DeclareToken(e) ==
  /\ endpoint[e] = "declared"
  /\ IF IsKeyExpr(Token(e))
       THEN endpoint' = [endpoint EXCEPT ![e] = "live"] /\ Appears(e)
       ELSE endpoint' = [endpoint EXCEPT ![e] = "silent"] /\ UNCHANGED <<tokens, seen, steady>>
  /\ dead' = dead \ {e}
  /\ UNCHANGED <<toolVars, query, inflight, answered, expired, kind>>

\* The destructor: the token goes first, being declared last ...
DropToken(e) ==
  /\ endpoint[e] \in {"live", "silent"}
  /\ endpoint' = [endpoint EXCEPT ![e] = "closing"]
  /\ Vanishes(e)
  /\ UNCHANGED <<dead, toolVars, query, inflight, answered, expired, kind>>

DropEndpoint(e) ==
  /\ endpoint[e] = "closing"
  /\ endpoint' = [endpoint EXCEPT ![e] = "absent"]
  /\ UNCHANGED <<tokens, dead, toolVars, queryVars, kind, seen>>

\* A process dies with all it declared; its tokens stay until the network notices.
Crash(node) ==
  LET Of == {e \in Endpoints : Decl[e].node = node} IN
  /\ \E e \in Of : endpoint[e] \notin {"never", "absent"}
  /\ endpoint' = [e \in Endpoints |->
       IF e \in Of /\ endpoint[e] # "never" THEN "absent" ELSE endpoint[e]]
  /\ dead' = dead \cup {e \in Of : endpoint[e] = "live"}
  /\ UNCHANGED <<tokens, toolVars, queryVars, kind, seen>>

Lapse(e) ==
  /\ e \in dead
  /\ dead' = dead \ {e}
  /\ Vanishes(e)
  /\ UNCHANGED <<endpoint, toolVars, query, inflight, answered, expired, kind>>

NodeNext ==
  \/ \E e \in Endpoints :
       Declare(e) \/ DeclareToken(e) \/ DropToken(e) \/ DropEndpoint(e) \/ Lapse(e)
  \/ \E e \in Endpoints : Crash(Decl[e].node)

-----------------------------------------------------------------------------
(* The tool's main thread.                                                 *)

Get ==
  /\ tpc = "start"
  /\ tpc' = "waiting"
  /\ query' = "open"
  /\ seen' = tokens /\ steady' = tokens
  /\ UNCHANGED <<endpointVars, done, registry, out, whole, inflight, answered, expired, kind>>

\* Variant with a bug: only the end of the query ends the loop.
LeaveOnDone ==
  /\ tpc = "waiting" /\ done
  /\ tpc' = "left"
  /\ whole' = (done /\ ~expired)
  /\ UNCHANGED <<endpointVars, done, registry, out, queryVars, kind, seen>>

\* The polling loop ends on done, or 200 ms after the query's timeout: the clock
\* is not modelled, so that may be at any time.
Leave ==
  /\ tpc = "waiting"
  /\ tpc' = "left"
  /\ whole' = (done /\ ~expired)
  /\ UNCHANGED <<endpointVars, done, registry, out, queryVars, kind, seen>>

\* Under mu: every line is printed (into a buffer, stdout being a pipe), and the
\* function returns.
PrintAll ==
  /\ tpc = "left"
  /\ tpc' = "returned"
  /\ out' = registry
  /\ UNCHANGED <<endpointVars, done, registry, whole, queryVars, kind, seen>>

\* A callback after that writes to locals that are gone: that may go well, or not.
Dangling == tpc' \in {"returned", "crashed"}

\* Variant with a bug: the process ends with its session open.
ExitUnclosed ==
  /\ tpc = "returned"
  /\ tpc' = "exited"
  /\ UNCHANGED <<endpointVars, done, registry, out, whole, queryVars, kind, seen>>

\* main closes the session, which drops a query that is still open, and exits.
Exit ==
  /\ tpc = "returned"
  /\ tpc' \in IF query = "open" THEN {"exited", "crashed"} ELSE {"exited"}
  /\ query' = "over" /\ inflight' = {}
  /\ UNCHANGED <<endpointVars, done, registry, out, whole, answered, expired, steady, kind, seen>>

-----------------------------------------------------------------------------
(* The query, and the callbacks it runs on the transport's threads.        *)

Answer(e) ==
  /\ query = "open"
  /\ e \in (tokens \cap Matching) \ answered
  /\ answered' = answered \cup {e} /\ inflight' = inflight \cup {e}
  /\ UNCHANGED <<endpointVars, toolVars, query, expired, steady, kind, seen>>

\* Variant with a bug: a later publisher of a topic replaces what is known of it.
ReplaceEntry(e) ==
  LET t == ParseToken(Token(e)) IN
  /\ e \in inflight /\ inflight' = inflight \ {e}
  /\ tpc \in {"waiting", "left"}
  /\ registry' = [key \in DOMAIN registry \cup {t.key} |->
                    IF key = t.key THEN [type |-> t.type, nodes |-> {t.node}]
                    ELSE registry[key]]
  /\ UNCHANGED <<endpointVars, tpc, done, out, whole, query, answered, expired, steady,
                 kind, seen>>

\* on_reply: what the token's key says is merged into its topic's entry.
OnReply(e) ==
  LET t == ParseToken(Token(e))
      known == Entry(registry, t.key)
  IN
  /\ e \in inflight /\ inflight' = inflight \ {e}
  /\ IF tpc \in {"waiting", "left"}
       THEN /\ registry' = IF t.ok
                 THEN [key \in DOMAIN registry \cup {t.key} |->
                         IF key = t.key
                           THEN [type |-> IF known.type = <<>> THEN t.type ELSE known.type,
                                 nodes |-> known.nodes \cup {t.node}]
                           ELSE registry[key]]
                 ELSE registry
            /\ UNCHANGED tpc
       ELSE Dangling /\ UNCHANGED registry
  /\ UNCHANGED <<endpointVars, done, out, whole, query, answered, expired, steady, kind, seen>>

\* on_drop.
OnDrop == IF tpc \in {"waiting", "left"} THEN done' = TRUE /\ UNCHANGED tpc
                                         ELSE Dangling /\ UNCHANGED done

\* The query ends by itself, or at its timeout.
Finish ==
  /\ query = "open"
  /\ steady \cap Matching \subseteq answered /\ inflight = {}
  /\ query' = "over"
  /\ OnDrop
  /\ UNCHANGED <<endpointVars, registry, out, whole, inflight, answered, expired, steady,
                 kind, seen>>

Expire ==
  /\ query = "open"
  /\ query' = "over" /\ inflight' = {} /\ expired' = TRUE
  /\ OnDrop
  /\ UNCHANGED <<endpointVars, registry, out, whole, answered, steady, kind, seen>>

\* Nothing happens in a process that has crashed.
QueryNext == /\ tpc # "crashed"
             /\ \/ \E e \in Endpoints : Answer(e) \/ OnReply(e)
                \/ Finish \/ Expire

ToolNext == Get \/ Leave \/ PrintAll \/ Exit
DiscoveryNext == NodeNext \/ ToolNext \/ QueryNext

-----------------------------------------------------------------------------
DiscoveryTypeOK ==
  /\ endpoint \in [Endpoints -> Stage]
  /\ tokens \subseteq Endpoints /\ dead \subseteq tokens
  /\ kind \in Kind
  /\ tpc \in {"start", "waiting", "left", "returned", "exited", "crashed"}
  /\ query \in {"none", "open", "over"}
  /\ query = "none" <=> tpc = "start"
  /\ tpc = "exited" => query = "over" /\ inflight = {}
  /\ inflight \subseteq answered /\ answered \subseteq seen
  /\ steady \subseteq seen /\ seen \subseteq Endpoints
  /\ done \in BOOLEAN /\ expired \in BOOLEAN /\ whole \in BOOLEAN
  /\ \A reg \in {registry, out} : \A key \in DOMAIN reg : DOMAIN reg[key] = {"type", "nodes"}

Broadcasts(e, type) == type = SafeType(Decl[e].type)

\* Nothing is made up: a topic, a node or a type in the listing is the one of an
\* endpoint of the kind asked for whose token the network showed since the query
\* began, taken apart again as it was put together, whatever the topic, the
\* namespace and the type look like (node.cc:251-257, talosos_tool.cc:264-303).
ListedIsKnown ==
  \A key \in DOMAIN registry :
    LET Of == {e \in seen : Decl[e].kind = kind /\ Key(e) = key} IN
    /\ Of # {}
    /\ \A n \in registry[key].nodes :
         \E e \in Of : n = FullyQualifiedName(Decl[e].node)
    /\ registry[key].type # <<>> => \E e \in Of : Broadcasts(e, registry[key].type)

\* A listing that was not cut off by a timeout is complete: every endpoint that was
\* there all the time has its topic and its node in the output, and a topic is
\* listed without a type only if none of these publishers broadcasts one, in
\* whatever order the replies came (talosos_tool.cc:300-305, 315).
CompleteWhenWhole ==
  whole /\ tpc \in {"returned", "exited"} =>
    \A e \in steady \cap Matching :
      LET shown == Entry(out, Key(e)) IN
      /\ FullyQualifiedName(Decl[e].node) \in shown.nodes
      /\ Decl[e].type # <<>> => shown.type # <<>>

-----------------------------------------------------------------------------
(* The inductive invariant behind the safety properties.                   *)

Announced(e) == IsKeyExpr(Key(e)) /\ IsKeyExpr(Token(e))

\* What the theorems suppose of the declarations: no part of a key is one of the
\* marks "_t" and "_n" that a token's own key is made with, and no type is "_n".
\* A topic that has such a part is listed under another name.
Unmarked ==
  \A e \in Endpoints :
    /\ \A i \in DOMAIN Key(e) : ~Chunk(Key(e), i, "_t") /\ ~Chunk(Key(e), i, "_n")
    /\ Decl[e].type # <<"_n">>

\* Then the tool takes a token apart as the node put it together.
TokensParse ==
  \A e \in Endpoints : Announced(e) =>
    ParseToken(Token(e)) = [ok |-> TRUE, key |-> Key(e), type |-> SafeType(Decl[e].type),
                            node |-> FullyQualifiedName(Decl[e].node)]

TokensInv ==
  /\ \A e \in tokens \cup seen : Announced(e)
  /\ \A e \in Endpoints :
       /\ endpoint[e] = "declared" => IsKeyExpr(Key(e))
       /\ endpoint[e] = "live" => e \in tokens
       /\ e \in dead => endpoint[e] \in {"absent", "declared"}

\* What has been printed, or is known, of endpoint e.
Recorded(reg, e) ==
  /\ Key(e) \in DOMAIN reg
  /\ FullyQualifiedName(Decl[e].node) \in reg[Key(e)].nodes
  /\ Decl[e].type # <<>> => reg[Key(e)].type # <<>>

QueryInv ==
  /\ tpc = "start" => /\ registry = <<>> /\ out = <<>> /\ answered = {}
                      /\ ~done /\ ~expired /\ ~whole
  /\ tpc = "waiting" => ~whole
  /\ answered \subseteq Matching
  /\ query = "open" => tokens \subseteq seen /\ ~expired
  /\ ~expired /\ tpc \in {"waiting", "left"} =>
       /\ \A e \in answered \ inflight : Recorded(registry, e)
       /\ done => query = "over" /\ inflight = {} /\ steady \cap Matching \subseteq answered
  /\ whole => /\ done /\ ~expired /\ tpc # "crashed"
              /\ query = "over" /\ inflight = {}
              /\ tpc \in {"returned", "exited"} =>
                   \A e \in steady \cap Matching : Recorded(out, e)

DiscoveryInv == DiscoveryTypeOK /\ TokensInv /\ QueryInv /\ ListedIsKnown
=============================================================================
