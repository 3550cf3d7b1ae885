-------------------------------- MODULE MCTopics --------------------------------
(* Two nodes in one robot: publishers that share a topic, one of them with a type
   and one without, a service, a publisher that no token announces because its node
   has no name, one in echo's own namespace, and one whose key is none.           *)
EXTENDS TopicCommands

MCWords == {"robot", "arm", "eye", "pose", "geometry", "Pose", "image", "Image", "grasp",
            "talos_echo", "log", "scan", "Scan"}
Arm == [ns |-> <<"/", "robot">>, name |-> <<"arm">>]
Eye == [ns |-> <<>>, name |-> <<"eye">>]
Nameless == [ns |-> <<>>, name |-> <<>>]

D(k, node, topic, type) == [kind |-> k, node |-> node, topic |-> topic, type |-> type]
MCDecl ==
  [typed |-> D("pub", Arm, <<"pose">>, <<"geometry", "/", "Pose">>),
   untyped |-> D("pub", Eye, <<"/", "robot", "/", "arm", "/", "pose">>, <<>>),
   image |-> D("pub", Eye, <<"~", "/", "image">>, <<"Image">>),
   service |-> D("srv", Arm, <<"grasp">>, <<>>),
   silent |-> D("pub", Nameless, <<"/", "talos_echo", "/", "log">>, <<>>),
   invalid |-> D("pub", Eye, <<"scan", "/">>, <<"Scan">>)]
MCEndpoints == DOMAIN MCDecl

R(verb, k, arg, count, there) ==
  [verb |-> verb, kind |-> k, arg |-> arg, count |-> count, endpoints |-> there]
MCRequests ==
  {R("list", "pub", <<>>, 0, {"typed", "untyped"}),
   R("list", "pub", <<>>, 0, {"image", "untyped"}),
   R("list", "srv", <<>>, 0, {"service", "typed"}),
   R("info", "pub", <<"/", "/", "robot", "/", "arm", "/", "pose">>, 0, {"typed", "untyped"}),
   R("info", "srv", <<"robot", "/", "arm", "/", "grasp">>, 0, {"service", "invalid"}),
   R("echo", "pub", <<"/", "log">>, 0, {"silent"}),
   R("echo", "pub", <<"/", "log">>, 2, {"silent"}),
   R("echo --raw", "pub", <<"/", "talos_echo", "/", "log">>, 2, {"silent"})}

-----------------------------------------------------------------------------
(* The loop of RunListLiveliness as it is written, over the parts of a key.       *)

SplitSlash(s) ==
  FoldLeft(LAMBDA parts, c : IF c = Slash THEN Append(parts, <<>>)
                             ELSE Front(parts) \o <<Append(Last(parts), c)>>,
           <<<<>>>>, s)
Slashed(parts) ==
  IF parts = <<>> THEN <<>>
  ELSE Tail(FoldLeft(LAMBDA s, p : s \o <<Slash>> \o p, <<>>, parts))
Marker(parts, mark, to) == SelectInSubSeq(parts, 3, to, LAMBDA p : p = <<mark>>)

ParseParts(k) ==
  LET parts == SplitSlash(k)
      n_at == Marker(parts, "_n", Len(parts))
      t_at == Marker(parts, "_t", n_at - 1)
      key_end == IF t_at # 0 THEN t_at ELSE n_at
  IN IF Len(parts) < 4 \/ parts[1] # <<"_talos">> \/ n_at = 0 \/ n_at = Len(parts)
     THEN NotAToken
     ELSE [ok |-> TRUE,
           key |-> Slashed(SubSeq(parts, 3, key_end - 1)),
           type |-> IF t_at = 0 THEN <<>> ELSE Slashed(SubSeq(parts, t_at + 1, n_at - 1)),
           node |-> Slashed(SubSeq(parts, n_at + 1, Len(parts)))]

\* ParseToken, which works on places, takes every key apart as the loop does.
MCKeys ==
  LET Pieces == {"/", "_t", "_n", "a"}
      Short == UNION {[1..m -> Pieces \cup {"_talos"}] : m \in 1..5}
      Long == UNION {[1..m -> Pieces] : m \in 1..7}
  IN {k \in Short \cup {<<"_talos", "/", "pub", "/">> \o s : s \in Long} : IsKeyExpr(k)}
ASSUME \A k \in MCKeys : ParseToken(k) = ParseParts(k)

\* What the theorems suppose holds of these endpoints.
ASSUME Unmarked
=============================================================================
