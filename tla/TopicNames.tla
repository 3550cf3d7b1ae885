------------------------------- MODULE TopicNames -------------------------------
(***************************************************************************)
(* Names of topics, services and nodes: how a node resolves a name to a    *)
(* transport key, the liveliness keys that announce publishers and         *)
(* services, and how talosos_tool takes such a key apart again.            *)
(* A string is the sequence of its pieces: slashes, tildes, and the words  *)
(* between them.                                                           *)
(***************************************************************************)
EXTENDS Naturals, Sequences, SequencesExt

Slash == "/"

-----------------------------------------------------------------------------
(* The runtime: node.cc.                                                   *)

StripLeadingSlash(s) ==
  LET i == SelectInSeq(s, LAMBDA c : c # Slash)
  IN IF i = 0 THEN <<>> ELSE SubSeq(s, i, Len(s))

JoinKey(a, b) ==
  IF a = <<>> THEN b
  ELSE IF b = <<>> THEN a
  ELSE IF Last(a) = Slash /\ Head(b) = Slash THEN a \o Tail(b)
  ELSE IF Last(a) = Slash \/ Head(b) = Slash THEN a \o b
  ELSE a \o <<Slash>> \o b

FullyQualifiedName(node) == JoinKey(StripLeadingSlash(node.ns), node.name)

\* "/x" is absolute, "~/x" and a bare "x" belong to the node; a tilde without a
\* slash behind it is an ordinary character.
ResolveTopic(node, topic) ==
  IF topic = <<>> THEN FullyQualifiedName(node)
  ELSE IF Head(topic) = Slash THEN StripLeadingSlash(topic)
  ELSE IF IsPrefix(<<"~", Slash>>, topic)
    THEN JoinKey(FullyQualifiedName(node), SubSeq(topic, 3, Len(topic)))
  ELSE JoinKey(FullyQualifiedName(node), topic)

SafeType(type) == [i \in DOMAIN type |-> IF type[i] = Slash THEN "_" ELSE type[i]]

\* The key of the liveliness token of a publisher (kind "pub") or a service ("srv").
LiveKey(kind, key, type, node) ==
  <<"_talos", Slash, kind, Slash>> \o key
    \o (IF type = <<>> THEN <<>> ELSE <<Slash, "_t", Slash>> \o SafeType(type))
    \o <<Slash, "_n", Slash>> \o FullyQualifiedName(node)

\* What the transport takes as a key: chunks that are not empty.
IsKeyExpr(k) ==
  /\ k # <<>> /\ Head(k) # Slash /\ Last(k) # Slash
  /\ \A i \in 1..(Len(k) - 1) : ~(k[i] = Slash /\ k[i + 1] = Slash)

-----------------------------------------------------------------------------
(* The tool: talosos_tool.cc.                                              *)

\* SplitSlash takes a key apart at its slashes.  A part is known here by where it
\* begins: Chunk(k, i, w) is a part that is the word w, and Behind(k) has the places
\* of the third part and of those behind it.
Chunk(k, i, w) == /\ k[i] = w
                  /\ i = 1 \/ k[i - 1] = Slash
                  /\ i = Len(k) \/ k[i + 1] = Slash
Behind(k) == {i \in DOMAIN k : \E h, j \in 1..(i - 1) : h < j /\ k[h] = Slash /\ k[j] = Slash}
First(I) == IF I = {} THEN 0 ELSE Min(I)

NotAToken == [ok |-> FALSE, key |-> <<>>, type |-> <<>>, node |-> <<>>]

\* The parts of a token's key from the third on are the topic, then "_t" and the
\* type unless the publisher broadcasts none, then "_n" and the node.
ParseToken(k) ==
  LET n_at == First({i \in Behind(k) : Chunk(k, i, "_n")})
      t_at == First({i \in Behind(k) : i < n_at /\ Chunk(k, i, "_t")})
      key_end == IF t_at # 0 THEN t_at ELSE n_at
  IN IF ~Chunk(k, 1, "_talos") \/ n_at = 0 \/ n_at = Len(k)
     THEN NotAToken
     ELSE [ok |-> TRUE,
           key |-> SubSeq(k, First(Behind(k)), key_end - 2),
           type |-> IF t_at = 0 THEN <<>> ELSE SubSeq(k, t_at + 2, n_at - 2),
           node |-> SubSeq(k, n_at + 2, Len(k))]

-----------------------------------------------------------------------------
(* The command line: topic.py.                                             *)

_normalize_topic(name) == StripLeadingSlash(name)
_as_topic_name(key) == IF key # <<>> /\ Head(key) = Slash THEN key ELSE <<Slash>> \o key
=============================================================================
