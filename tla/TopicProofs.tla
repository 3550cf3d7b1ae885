------------------------------ MODULE TopicProofs ------------------------------
(* Theorems about TopicCommands, for any endpoints none of whose names has a
   token's own marks among its parts, any command lines and any number of
   callback threads.                                                             *)
EXTENDS TopicCommands, FiniteSetTheorems, SequenceTheorems,
        WellFoundedInduction, TLAPS

(* Names. *)

LEMMA MinIsMember == ASSUME NEW S \in SUBSET Nat, S # {} PROVE Min(S) \in S
<1>1. PICK x \in S : \A y \in S : ~(<<y, x>> \in OpToRel(<, Nat))
  BY NatLessThanWellFounded, WFMin
<1>2. \A i, j \in Nat : i < j => <<i, j>> \in OpToRel(<, Nat)
  <2> SUFFICES ASSUME NEW i \in Nat, NEW j \in Nat, i < j
               PROVE <<i, j>> \in {ss \in Nat \X Nat : ss[1] < ss[2]}
    BY Zenon DEF OpToRel
  <2> QED OBVIOUS
<1>3. \A y \in S : ~(y < x)
  BY <1>1, <1>2, Zenon
<1>4. \A y \in S : x <= y
  BY <1>3
<1> QED BY <1>4 DEF Min

LEMMA StripIsName == ASSUME NEW s \in Name PROVE StripLeadingSlash(s) \in Name
<1> DEFINE I == {i \in 1..Len(s) : s[i] # Slash}
<1>1. CASE I = {}
  <2>1. StripLeadingSlash(s) = <<>>
    BY <1>1 DEF StripLeadingSlash, SelectInSeq
  <2> QED BY <2>1, EmptySeq DEF Name
<1>2. CASE I # {}
  <2>1. StripLeadingSlash(s) = IF Min(I) = 0 THEN <<>> ELSE SubSeq(s, Min(I), Len(s))
    BY <1>2 DEF StripLeadingSlash, SelectInSeq
  <2>2. I \in SUBSET Nat
    BY DEF Name
  <2>3. Min(I) \in I
    BY <1>2, <2>2, MinIsMember
  <2>4. SubSeq(s, Min(I), Len(s)) \in Seq(Piece)
    <3>1. Min(I) \in 1..Len(s) /\ Len(s) \in Nat
      BY <2>3 DEF Name
    <3> HIDE DEF I
    <3>2. \A i \in Min(I)..Len(s) : s[i] \in Piece
      BY <3>1 DEF Name
    <3> QED BY <3>1, <3>2, SubSeqProperties
  <2>5. Min(I) # 0
    BY <2>3
  <2>6. StripLeadingSlash(s) = SubSeq(s, Min(I), Len(s))
    BY <2>1, <2>5
  <2> QED BY <2>4, <2>6 DEF Name
<1> QED BY <1>1, <1>2

\* A name that begins with no slash is its own normal form.
LEMMA StripKeeps ==
  ASSUME NEW s \in Name, s # <<>>, Head(s) # Slash
  PROVE  StripLeadingSlash(s) = s
<1> DEFINE I == {i \in 1..Len(s) : s[i] # Slash}
<1>1. 1 \in I /\ \A i \in I : i \in Nat /\ 1 <= i
  BY DEF Name
<1>2. Min(I) = 1
  BY <1>1 DEF Min
<1>3. StripLeadingSlash(s) = SubSeq(s, 1, Len(s))
  <2>1. I # {}
    BY <1>1
  <2> HIDE DEF I
  <2>2. StripLeadingSlash(s) = IF Min(I) = 0 THEN <<>> ELSE SubSeq(s, Min(I), Len(s))
    BY <2>1 DEF StripLeadingSlash, SelectInSeq, I
  <2> QED BY <2>2, <1>2
<1> QED BY <1>3, SubSeqFull DEF Name

LEMMA JoinIsName == ASSUME NEW a \in Name, NEW b \in Name PROVE JoinKey(a, b) \in Name
<1>1. /\ Tail(b) \in Seq(Piece) \/ b = <<>>
      /\ <<Slash>> \in Seq(Piece)
  <2>1. b # <<>> => Tail(b) \in Seq(Piece)
    BY HeadTailProperties DEF Name
  <2>2. Slash \in Piece
      BY DEF Piece
  <2>3. <<Slash>> \in Seq(Piece)
    BY <2>2
  <2> QED BY <2>1, <2>3
<1>2. /\ a \o b \in Seq(Piece)
      /\ (a \o <<Slash>>) \o b \in Seq(Piece)
      /\ b # <<>> => a \o Tail(b) \in Seq(Piece)
  BY <1>1, ConcatProperties DEF Name
<1> QED BY <1>2 DEF JoinKey, Name

LEMMA FullNameIsName ==
  ASSUME NEW node \in [ns : Name, name : Name]
  PROVE  FullyQualifiedName(node) \in Name
  BY StripIsName, JoinIsName DEF FullyQualifiedName

LEMMA KeyIsName == ASSUME NEW e \in Endpoints PROVE Key(e) \in Name
<1>1. Decl[e].node \in [ns : Name, name : Name] /\ Decl[e].topic \in Name
  BY DeclAssumption
<1> DEFINE node == Decl[e].node  topic == Decl[e].topic
<1>2. /\ FullyQualifiedName(node) \in Name
      /\ SubSeq(topic, 3, Len(topic)) \in Name
      /\ StripLeadingSlash(topic) \in Name
  BY <1>1, FullNameIsName, StripIsName DEF Name
<1>3. /\ JoinKey(FullyQualifiedName(node), topic) \in Name
      /\ JoinKey(FullyQualifiedName(node), SubSeq(topic, 3, Len(topic))) \in Name
  BY <1>1, <1>2, JoinIsName
<1> QED BY <1>2, <1>3 DEF Key, ResolveTopic

LEMMA SafeTypeNotEmpty ==
  ASSUME NEW type \in Name, type # <<>>
  PROVE  SafeType(type) # <<>>
<1>1. Len(type) # 0 /\ DOMAIN type = 1..Len(type) /\ Len(type) \in Nat
  BY EmptySeq DEF Name
<1>2. 1 \in DOMAIN SafeType(type)
  BY <1>1 DEF SafeType
<1>3. 1 \notin DOMAIN <<>>
  OBVIOUS
<1> QED BY <1>2, <1>3

LEMMA AnnouncedKeyIsNormal ==
  ASSUME NEW e \in Endpoints, Announced(e)
  PROVE  StripLeadingSlash(Key(e)) = Key(e)
<1>1. Key(e) # <<>> /\ Head(Key(e)) # Slash
  BY DEF Announced, IsKeyExpr
<1> QED BY <1>1, KeyIsName, StripKeeps

-----------------------------------------------------------------------------
(* Tokens: what a node puts together, the tool takes apart. *)

LEMMA FirstIs ==
  ASSUME NEW I \in SUBSET Nat, NEW m \in I, m # 0, \A i \in I : m <= i
  PROVE  First(I) = m
<1>1. m \in Nat
  OBVIOUS
<1>2. Min(I) \in I /\ \A y \in I : Min(I) <= y
  <2>1. \E x \in I : \A y \in I : x <= y
    OBVIOUS
  <2> QED BY <2>1 DEF Min
<1>3. Min(I) \in Nat /\ Min(I) <= m /\ m <= Min(I)
  BY <1>2
<1>4. Min(I) = m
  BY <1>1, <1>3
<1> QED BY <1>4 DEF First

LEMMA SeqOver == ASSUME NEW A, NEW S, A \subseteq S, NEW s \in Seq(A) PROVE s \in Seq(S)
<1>1. s \in [1..Len(s) -> A] /\ Len(s) \in Nat
  OBVIOUS
<1>2. s \in [1..Len(s) -> S]
  BY <1>1
<1> QED BY <1>1, <1>2

LEMMA OnePiece ==
  ASSUME NEW w, NEW s \in Name, Len(s) = 1, s[1] = w
  PROVE  s = <<w>>
  BY DEF Name

\* A type that a token carries is one part, and "_n" only if the type is "_n" itself.
LEMMA SafeTypeIs ==
  ASSUME NEW type \in Name
  PROVE  /\ SafeType(type) \in Seq(Piece \cup {"_"})
         /\ Len(SafeType(type)) = Len(type)
         /\ \A i \in 1..Len(type) : /\ SafeType(type)[i] # Slash
                                    /\ SafeType(type)[i] = "_n" => type[i] = "_n"
<1> DEFINE n1 == Len(type)
           s == [i \in 1..n1 |-> IF type[i] = Slash THEN "_" ELSE type[i]]
           S == Piece \cup {"_"}
<1>1. SafeType(type) = s
  BY DEF SafeType, Name
<1>2. n1 \in Nat /\ \A i \in 1..n1 : type[i] \in Piece
  BY DEF Name
<1>3. s \in [1..n1 -> S]
  BY <1>2
<1>4. \A i \in 1..n1 : s[i] # Slash /\ (s[i] = "_n" => type[i] = "_n")
  BY DEF Slash
<1> HIDE DEF s, S
<1>5. s \in Seq(S) /\ Len(s) = n1
  <2> HIDE DEF n1
  <2> QED BY <1>2, <1>3
<1> QED BY <1>1, <1>4, <1>5 DEF S

LEMMA NothingIff == ASSUME NEW A, NEW s \in Seq(A) PROVE s = <<>> <=> Len(s) = 0
  OBVIOUS

LEMMA SafeTypeIsPart ==
  ASSUME NEW type \in Name
  PROVE  /\ SafeType(type) = <<>> <=> type = <<>>
         /\ \A i \in 1..Len(SafeType(type)) : SafeType(type)[i] # Slash
         /\ Len(SafeType(type)) = 1 /\ SafeType(type)[1] = "_n" =>
              Len(type) = 1 /\ type[1] = "_n"
<1> DEFINE s == SafeType(type)
           n1 == Len(type)
<1> HIDE DEF s, n1
<1>1. s \in Seq(Piece \cup {"_"})
  BY SafeTypeIs, Zenon DEF s
<1>2. Len(s) = n1 /\ \A i \in 1..n1 : s[i] # Slash /\ (s[i] = "_n" => type[i] = "_n")
  BY SafeTypeIs, Zenon DEF s, n1
<1>3. type = <<>> <=> n1 = 0
  BY NothingIff DEF Name, n1
<1>4. s = <<>> <=> Len(s) = 0
  BY <1>1, NothingIff, Zenon
<1>5. Len(s) = 1 /\ s[1] = "_n" => n1 = 1 /\ type[1] = "_n"
  BY <1>2
<1>6. \A i \in 1..Len(s) : s[i] # Slash
  BY <1>2
<1>7. s = <<>> <=> type = <<>>
  BY <1>2, <1>3, <1>4
<1> QED BY <1>5, <1>6, <1>7 DEF s, n1

\* v is the part of u behind its first p pieces.
Within(u, p, v) == /\ p \in Nat /\ p + Len(v) <= Len(u)
                   /\ \A i \in 1..Len(v) : u[p + i] = v[i]

LEMMA Appended ==
  ASSUME NEW S, NEW u \in Seq(S), NEW v \in Seq(S)
  PROVE  /\ u \o v \in Seq(S) /\ Len(u \o v) = Len(u) + Len(v)
         /\ Within(u \o v, Len(u), v)
<1>1. /\ u \o v \in Seq(S) /\ Len(u \o v) = Len(u) + Len(v)
      /\ \A i \in 1..(Len(u) + Len(v)) :
           (u \o v)[i] = IF i <= Len(u) THEN u[i] ELSE v[i - Len(u)]
  BY ConcatProperties
<1>2. Len(u) \in Nat /\ Len(v) \in Nat
  OBVIOUS
<1>3. ASSUME NEW i \in 1..Len(v) PROVE (u \o v)[Len(u) + i] = v[i]
  <2>1. Len(u) + i \in 1..(Len(u) + Len(v)) /\ ~(Len(u) + i <= Len(u)) /\ (Len(u) + i) - Len(u) = i
    BY <1>2
  <2> QED BY <1>1, <2>1
<1> QED BY <1>1, <1>2, <1>3 DEF Within

LEMMA StaysWithin ==
  ASSUME NEW S, NEW u \in Seq(S), NEW t \in Seq(S), NEW v \in Seq(S), NEW p, Within(u, p, v)
  PROVE  Within(u \o t, p, v)
<1>1. /\ Len(u \o t) = Len(u) + Len(t)
      /\ \A i \in 1..(Len(u) + Len(t)) :
           (u \o t)[i] = IF i <= Len(u) THEN u[i] ELSE t[i - Len(u)]
  BY ConcatProperties
<1>2. Len(u) \in Nat /\ Len(v) \in Nat /\ Len(t) \in Nat /\ p \in Nat /\ p + Len(v) <= Len(u)
  BY DEF Within
<1>3. ASSUME NEW i \in 1..Len(v) PROVE (u \o t)[p + i] = v[i]
  <2>1. p + i \in 1..(Len(u) + Len(t)) /\ p + i <= Len(u)
    BY <1>2
  <2> QED BY <1>1, <2>1 DEF Within
<1>4. p + Len(v) <= Len(u \o t)
  BY <1>1, <1>2
<1> QED BY <1>2, <1>3, <1>4 DEF Within

\* Where the five parts of a token are.
LEMMA FiveParts ==
  ASSUME NEW S, NEW a \in Seq(S), NEW b \in Seq(S), NEW c \in Seq(S), NEW d \in Seq(S),
         NEW e \in Seq(S)
  PROVE  LET k == a \o b \o c \o d \o e IN
         /\ k \in Seq(S) /\ Len(k) = Len(a) + Len(b) + Len(c) + Len(d) + Len(e)
         /\ Within(k, 0, a) /\ Within(k, Len(a), b) /\ Within(k, Len(a) + Len(b), c)
         /\ Within(k, Len(a) + Len(b) + Len(c), d)
         /\ Within(k, Len(a) + Len(b) + Len(c) + Len(d), e)
<1> DEFINE ab == a \o b  abc == ab \o c  abcd == abc \o d  k == abcd \o e
<1>1. Within(a, 0, a)
  BY DEF Within
<1>2. ab \in Seq(S)
  BY Appended
<1>3. Len(ab) = Len(a) + Len(b) /\ Within(ab, 0, a) /\ Within(ab, Len(a), b)
  BY <1>1, Appended, StaysWithin
<1> HIDE DEF ab
<1>4. abc \in Seq(S)
  BY <1>2, Appended
<1>5. Len(abc) = Len(ab) + Len(c) /\ Within(abc, Len(ab), c)
  BY <1>2, Appended
<1>6. Within(abc, 0, a) /\ Within(abc, Len(a), b)
  BY <1>2, <1>3, StaysWithin
<1> HIDE DEF abc
<1>7. abcd \in Seq(S)
  BY <1>4, Appended
<1>8. Len(abcd) = Len(abc) + Len(d) /\ Within(abcd, Len(abc), d)
  BY <1>4, Appended
<1>9. Within(abcd, 0, a) /\ Within(abcd, Len(a), b) /\ Within(abcd, Len(ab), c)
  BY <1>4, <1>5, <1>6, StaysWithin
<1> HIDE DEF abcd
<1>10. k \in Seq(S) /\ Len(k) = Len(abcd) + Len(e) /\ Within(k, Len(abcd), e)
  BY <1>7, Appended
<1>11. /\ Within(k, 0, a) /\ Within(k, Len(a), b) /\ Within(k, Len(ab), c)
       /\ Within(k, Len(abc), d)
  BY <1>7, <1>8, <1>9, StaysWithin
<1> HIDE DEF k
<1>12. /\ Len(ab) = Len(a) + Len(b) /\ Len(abc) = Len(a) + Len(b) + Len(c)
       /\ Len(abcd) = Len(a) + Len(b) + Len(c) + Len(d)
  BY <1>3, <1>5, <1>8
<1> QED BY <1>10, <1>11, <1>12 DEF k, abcd, abc, ab

\* The places of a token's pieces: its key from 5 on, then, with a type, a mark and the
\* type, and at M the mark of the node.
Shape(k, root, key, type, node, M) ==
  LET K == Len(key)  L == Len(type) IN
  /\ Len(k) = M + 1 + Len(node)
  /\ k[1] = "_talos" /\ k[2] = Slash /\ k[3] = root /\ k[4] = Slash
  /\ \A i \in 1..K : k[4 + i] = key[i]
  /\ k[K + 5] = Slash
  /\ IF L = 0 THEN M = K + 6
     ELSE /\ M = K + L + 9 /\ k[K + 6] = "_t" /\ k[K + 7] = Slash
          /\ \A i \in 1..L : k[K + 7 + i] = type[i]
  /\ k[M - 1] = Slash /\ k[M] = "_n" /\ k[M + 1] = Slash
  /\ \A i \in 1..Len(node) : k[M + 1 + i] = node[i]

\* The parts of a token that are always the same.
IsRoot(a, root) ==
  Len(a) = 4 /\ a[1] = "_talos" /\ a[2] = Slash /\ a[3] = root /\ a[4] = Slash
IsMark(c, mark) == Len(c) = 3 /\ c[1] = Slash /\ c[2] = mark /\ c[3] = Slash

LEMMA RootIs ==
  ASSUME NEW S, Slash \in S, "_talos" \in S, NEW root \in S
  PROVE  /\ <<"_talos", Slash, root, Slash>> \in Seq(S)
         /\ IsRoot(<<"_talos", Slash, root, Slash>>, root)
  BY DEF IsRoot

LEMMA MarkIs ==
  ASSUME NEW S, Slash \in S, NEW mark \in S
  PROVE  <<Slash, mark, Slash>> \in Seq(S) /\ IsMark(<<Slash, mark, Slash>>, mark)
  BY DEF IsMark

LEMMA UntypedShape ==
  ASSUME NEW S, NEW a \in Seq(S), NEW key \in Seq(S), NEW c \in Seq(S), NEW node \in Seq(S),
         NEW root, IsRoot(a, root), IsMark(c, "_n")
  PROVE  LET k == a \o key \o <<>> \o c \o node
         IN  k \in Seq(S) /\ Shape(k, root, key, <<>>, node, Len(key) + 6)
<1> DEFINE k == a \o key \o <<>> \o c \o node
           K == Len(key)
<1>1. /\ Len(a) = 4 /\ a[1] = "_talos" /\ a[2] = Slash /\ a[3] = root /\ a[4] = Slash
      /\ Len(c) = 3 /\ c[1] = Slash /\ c[2] = "_n" /\ c[3] = Slash
      /\ K \in Nat /\ Len(<<>>) = 0
  BY DEF IsRoot, IsMark
<1>2. <<>> \in Seq(S)
  OBVIOUS
<1>3. k \in Seq(S) /\ Len(k) = Len(a) + Len(key) + Len(<<>>) + Len(c) + Len(node)
  BY <1>2, FiveParts
<1>4. /\ Within(k, 0, a) /\ Within(k, Len(a), key)
      /\ Within(k, Len(a) + Len(key) + Len(<<>>), c)
      /\ Within(k, Len(a) + Len(key) + Len(<<>>) + Len(c), node)
  <2> HIDE DEF k
  <2>1. \A b \in Seq(S) : LET w == a \o key \o b \o c \o node IN
          /\ Within(w, 0, a) /\ Within(w, Len(a), key)
          /\ Within(w, Len(a) + Len(key) + Len(b), c)
          /\ Within(w, Len(a) + Len(key) + Len(b) + Len(c), node)
    BY FiveParts
  <2> QED BY <1>2, <2>1 DEF k
<1> HIDE DEF k
<1>5. /\ Within(k, 0, a) /\ Within(k, 4, key) /\ Within(k, 4 + K, c) /\ Within(k, K + 7, node)
      /\ Len(k) = K + 7 + Len(node)
  BY <1>1, <1>3, <1>4
<1>6. k[1] = "_talos" /\ k[2] = Slash /\ k[3] = root /\ k[4] = Slash
  BY <1>1, <1>5 DEF Within
<1>7. k[K + 5] = Slash /\ k[K + 6] = "_n" /\ k[K + 7] = Slash
  BY <1>1, <1>5 DEF Within
<1>8. /\ \A i \in 1..K : k[4 + i] = key[i]
      /\ \A i \in 1..Len(node) : k[K + 7 + i] = node[i]
  BY <1>5 DEF Within
<1>9. Shape(k, root, key, <<>>, node, K + 6)
  BY <1>1, <1>5, <1>6, <1>7, <1>8 DEF Shape
<1> QED BY <1>3, <1>9 DEF k

LEMMA TypedShape ==
  ASSUME NEW S, NEW a \in Seq(S), NEW key \in Seq(S), NEW c \in Seq(S), NEW node \in Seq(S),
         NEW d \in Seq(S), NEW type \in Seq(S), type # <<>>, NEW root,
         IsRoot(a, root), IsMark(c, "_n"), IsMark(d, "_t")
  PROVE  LET k == a \o key \o (d \o type) \o c \o node
         IN  k \in Seq(S) /\ Shape(k, root, key, type, node, Len(key) + Len(type) + 9)
<1> DEFINE b == d \o type
           k == a \o key \o b \o c \o node
           K == Len(key)
           L == Len(type)
<1>1. /\ Len(a) = 4 /\ a[1] = "_talos" /\ a[2] = Slash /\ a[3] = root /\ a[4] = Slash
      /\ Len(c) = 3 /\ c[1] = Slash /\ c[2] = "_n" /\ c[3] = Slash
      /\ Len(d) = 3 /\ d[1] = Slash /\ d[2] = "_t" /\ d[3] = Slash
      /\ K \in Nat /\ L \in Nat /\ L # 0
  BY DEF IsRoot, IsMark
<1>2. b \in Seq(S)
  BY Appended
<1>3. Within(b, 0, d)
  <2>1. Within(d, 0, d)
    BY DEF Within
  <2> QED BY <2>1, StaysWithin
<1>4. Within(b, Len(d), type) /\ Len(b) = Len(d) + Len(type)
  BY Appended
<1> HIDE DEF b
<1>5. k \in Seq(S) /\ Len(k) = Len(a) + Len(key) + Len(b) + Len(c) + Len(node)
  BY <1>2, FiveParts
<1>6. /\ Within(k, 0, a) /\ Within(k, Len(a), key) /\ Within(k, Len(a) + Len(key), b)
      /\ Within(k, Len(a) + Len(key) + Len(b), c)
      /\ Within(k, Len(a) + Len(key) + Len(b) + Len(c), node)
  BY <1>2, FiveParts
<1> HIDE DEF k
<1>7. Within(b, 3, type) /\ Len(b) = L + 3
  BY <1>1, <1>4
<1>8. /\ Within(k, 0, a) /\ Within(k, 4, key) /\ Within(k, 4 + K, b)
      /\ Within(k, K + L + 7, c) /\ Within(k, K + L + 10, node)
      /\ Len(k) = K + L + 10 + Len(node)
  BY <1>1, <1>5, <1>6, <1>7
<1>9. k[1] = "_talos" /\ k[2] = Slash /\ k[3] = root /\ k[4] = Slash
  BY <1>1, <1>8 DEF Within
<1>10. k[K + L + 8] = Slash /\ k[K + L + 9] = "_n" /\ k[K + L + 10] = Slash
  BY <1>1, <1>8 DEF Within
<1>11. /\ \A i \in 1..K : k[4 + i] = key[i]
       /\ \A i \in 1..Len(node) : k[K + L + 10 + i] = node[i]
       /\ \A i \in 1..(L + 3) : k[K + 4 + i] = b[i]
  BY <1>1, <1>7, <1>8 DEF Within
<1>12. b[1] = Slash /\ b[2] = "_t" /\ b[3] = Slash /\ \A i \in 1..L : b[3 + i] = type[i]
  BY <1>1, <1>3, <1>7 DEF Within
<1>13. k[K + 5] = Slash /\ k[K + 6] = "_t" /\ k[K + 7] = Slash
  <2>1. /\ 1 \in 1..(L + 3) /\ 2 \in 1..(L + 3) /\ 3 \in 1..(L + 3)
        /\ K + 4 + 1 = K + 5 /\ K + 4 + 2 = K + 6 /\ K + 4 + 3 = K + 7
    BY <1>1
  <2>2. k[K + 5] = b[1] /\ k[K + 6] = b[2] /\ k[K + 7] = b[3]
    BY <1>11, <2>1
  <2> QED BY <1>12, <2>2
<1>14. ASSUME NEW i \in 1..L PROVE k[K + 7 + i] = type[i]
  <2>1. 3 + i \in 1..(L + 3) /\ K + 4 + (3 + i) = K + 7 + i
    BY <1>1
  <2> QED BY <1>11, <1>12, <2>1
<1>15. Shape(k, root, key, type, node, K + L + 9)
  BY <1>1, <1>8, <1>9, <1>10, <1>11, <1>13, <1>14 DEF Shape
<1> QED BY <1>5, <1>15 DEF k, b

\* A slice that has the pieces of s is s.
LEMMA SliceIs ==
  ASSUME NEW S, NEW k \in Seq(S), NEW s \in Seq(S), NEW p, Within(k, p, s)
  PROVE  SubSeq(k, p + 1, p + Len(s)) = s
<1> DEFINE slice == SubSeq(k, p + 1, p + Len(s))
<1>1. p \in Nat /\ Len(s) \in Nat /\ Len(k) \in Nat /\ p + Len(s) <= Len(k)
  BY DEF Within
<1>2. \A i \in (p + 1)..(p + Len(s)) : k[i] \in S
  BY <1>1
<1>3. /\ slice \in Seq(S)
      /\ Len(slice) = IF p + 1 <= p + Len(s) THEN (p + Len(s)) - (p + 1) + 1 ELSE 0
      /\ \A i \in 1..((p + Len(s)) - (p + 1) + 1) : slice[i] = k[(p + 1) + i - 1]
  BY <1>1, <1>2, SubSeqProperties
<1> HIDE DEF slice
<1>4. Len(slice) = Len(s)
  BY <1>1, <1>3
<1>5. \A i \in 1..Len(s) : slice[i] = s[i]
  <2> TAKE i \in 1..Len(s)
  <2>1. slice[i] = k[(p + 1) + i - 1]
    BY <1>1, <1>3
  <2>2. (p + 1) + i - 1 = p + i
    BY <1>1
  <2> QED BY <2>1, <2>2 DEF Within
<1>6. slice = s
  BY <1>3, <1>4, <1>5, SeqEqual
<1> QED BY <1>6 DEF slice

\* Only the second and the fourth of the first four pieces are slashes, so that the
\* third part begins at 5.
LEMMA BehindIs ==
  ASSUME NEW k, NEW S, k \in Seq(S), Len(k) >= 5,
         k[1] # Slash, k[2] = Slash, k[3] # Slash, k[4] = Slash
  PROVE  Behind(k) = 5..Len(k) /\ First(Behind(k)) = 5
<1>1. Len(k) \in Nat /\ DOMAIN k = 1..Len(k)
  OBVIOUS
<1>2. ASSUME NEW i \in 5..Len(k) PROVE i \in Behind(k)
  <2>1. 2 \in 1..(i - 1) /\ 4 \in 1..(i - 1) /\ 2 < 4 /\ i \in 1..Len(k)
    BY <1>1
  <2> QED BY <1>1, <2>1 DEF Behind
<1>3. ASSUME NEW i \in Behind(k) PROVE i \in 5..Len(k)
  <2>1. i \in 1..Len(k)
    BY <1>1 DEF Behind
  <2>2. PICK h \in 1..(i - 1), j \in 1..(i - 1) : h < j /\ k[h] = Slash /\ k[j] = Slash
    BY DEF Behind
  <2>3. h # 1 /\ h # 3 /\ j # 3
    BY <2>2
  <2>4. j >= 4
    BY <2>1, <2>2, <2>3
  <2> QED BY <2>1, <2>4
<1>4. Behind(k) = 5..Len(k)
  BY <1>2, <1>3
<1>5. First(5..Len(k)) = 5
  <2> DEFINE I == 5..Len(k)
  <2>1. I \in SUBSET Nat /\ 5 \in I /\ \A i \in I : 5 <= i
    BY <1>1
  <2> HIDE DEF I
  <2>2. First(I) = 5
    BY <2>1, FirstIs
  <2> QED BY <2>2 DEF I
<1> QED BY <1>4, <1>5

\* No part between the root and M is "_n", and "_t" is none but the one that the
\* node put in front of the type.
LEMMA NoMarkBefore ==
  ASSUME NEW S, NEW k \in Seq(S), NEW key \in Seq(S), NEW type \in Seq(S), NEW node \in Seq(S),
         NEW root, NEW M, Shape(k, root, key, type, node, M),
         \A i \in 1..Len(key) : ~Chunk(key, i, "_t") /\ ~Chunk(key, i, "_n"),
         \A i \in 1..Len(type) : type[i] # Slash,
         ~(Len(type) = 1 /\ type[1] = "_n"),
         NEW i \in 5..(M - 1)
  PROVE  /\ ~Chunk(k, i, "_n")
         /\ Chunk(k, i, "_t") => Len(type) # 0 /\ i >= Len(key) + 6
<1> DEFINE K == Len(key)  L == Len(type)
<1>1. /\ K \in Nat /\ L \in Nat /\ Len(node) \in Nat /\ Len(k) \in Nat
      /\ i \in Nat /\ i >= 5 /\ i <= M - 1 /\ i < Len(k)
      /\ M = IF L = 0 THEN K + 6 ELSE K + L + 9
  <2>1. K \in Nat /\ L \in Nat /\ Len(node) \in Nat /\ Len(k) \in Nat
    OBVIOUS
  <2>2. M = (IF L = 0 THEN K + 6 ELSE K + L + 9) /\ Len(k) = M + 1 + Len(node)
    BY DEF Shape
  <2>3. M \in Nat
    BY <2>1, <2>2
  <2> HIDE DEF K, L
  <2> QED BY <2>1, <2>2, <2>3
<1>2. CASE i <= K + 4
  <2> DEFINE j == i - 4
  <2>1. j \in 1..K /\ i = 4 + j
    BY <1>1, <1>2
  <2>2. k[i] = key[j]
    BY <2>1 DEF Shape
  <2>3. ASSUME j # 1 PROVE k[i - 1] = key[j - 1]
    <3>1. j - 1 \in 1..K /\ i - 1 = 4 + (j - 1)
      BY <1>1, <2>1, <2>3
    <3> QED BY <3>1 DEF Shape
  <2>4. ASSUME j # K PROVE k[i + 1] = key[j + 1]
    <3>1. j + 1 \in 1..K /\ i + 1 = 4 + (j + 1)
      BY <1>1, <2>1, <2>4
    <3> QED BY <3>1 DEF Shape
  <2>5. i # 1 /\ i # Len(k)
    BY <1>1
  <2>6. ASSUME NEW w, Chunk(k, i, w) PROVE Chunk(key, j, w)
    BY <2>2, <2>3, <2>4, <2>5, <2>6 DEF Chunk
  <2> QED BY <2>1, <2>6
<1>3. CASE i = K + 5
  BY <1>1, <1>3 DEF Shape, Chunk, Slash
<1>4. CASE i >= K + 6
  <2>1. L # 0 /\ M = K + L + 9
    BY <1>1, <1>4
  <2>2. k[K + 6] = "_t" /\ k[K + 7] = Slash /\ \A j \in 1..L : k[K + 7 + j] = type[j]
    BY <2>1 DEF Shape
  <2>3. k[K + L + 8] = Slash
    <3>1. M - 1 = K + L + 8
      BY <1>1, <2>1
    <3> QED BY <3>1 DEF Shape
  <2>4. CASE i \in {K + 6, K + 7, K + L + 8}
    BY <2>1, <2>2, <2>3, <2>4, <1>4 DEF Chunk, Slash
  <2>5. CASE i \in (K + 8)..(K + L + 7)
    <3> DEFINE j == i - (K + 7)
    <3>1. j \in 1..L /\ i = K + 7 + j
      BY <1>1, <2>5
    <3> HIDE DEF j, K, L
    <3>2. k[i] = type[j]
      BY <2>2, <3>1
    <3>3. ASSUME j # 1 PROVE k[i - 1] # Slash
      <4>1. j - 1 \in 1..L /\ i - 1 = K + 7 + (j - 1)
        BY <1>1, <3>1, <3>3
      <4>2. k[i - 1] = type[j - 1]
        BY <2>2, <4>1
      <4> QED BY <4>1, <4>2 DEF L
    <3>4. ASSUME j # L PROVE k[i + 1] # Slash
      <4>1. j + 1 \in 1..L /\ i + 1 = K + 7 + (j + 1)
        BY <1>1, <3>1, <3>4
      <4>2. k[i + 1] = type[j + 1]
        BY <2>2, <4>1
      <4> QED BY <4>1, <4>2 DEF L
    <3>5. i # 1 /\ i # Len(k)
      BY <1>1
    <3>6. Chunk(k, i, "_n") => j = 1 /\ j = L
      BY <3>3, <3>4, <3>5 DEF Chunk
    <3>7. Chunk(k, i, "_n") => L = 1 /\ type[1] = "_n"
      BY <3>2, <3>6 DEF Chunk
    <3>8. ~Chunk(k, i, "_n")
      BY <3>7, Zenon DEF L
    <3> QED BY <2>1, <3>8, <1>4 DEF K, L
  <2>6. i \in {K + 6, K + 7, K + L + 8} \/ i \in (K + 8)..(K + L + 7)
    <3> HIDE DEF K, L
    <3> QED BY <1>1, <1>4, <2>1
  <2> QED BY <2>4, <2>5, <2>6
<1> QED BY <1>1, <1>2, <1>3, <1>4

LEMMA ParsesBack ==
  ASSUME NEW S, NEW k \in Seq(S), NEW key \in Seq(S), NEW type \in Seq(S), NEW node \in Seq(S),
         NEW root, root # Slash, NEW M, Shape(k, root, key, type, node, M),
         \A i \in 1..Len(key) : ~Chunk(key, i, "_t") /\ ~Chunk(key, i, "_n"),
         \A i \in 1..Len(type) : type[i] # Slash,
         ~(Len(type) = 1 /\ type[1] = "_n"), Len(node) # 0
  PROVE  ParseToken(k) = [ok |-> TRUE, key |-> key, type |-> type, node |-> node]
<1> DEFINE K == Len(key)  L == Len(type)
           I == {i \in Behind(k) : Chunk(k, i, "_n")}
           J == {i \in Behind(k) : i < M /\ Chunk(k, i, "_t")}
<1>1. /\ K \in Nat /\ L \in Nat /\ Len(node) \in Nat /\ Len(k) \in Nat
      /\ M = IF L = 0 THEN K + 6 ELSE K + L + 9
      /\ Len(k) = M + 1 + Len(node)
  <2>1. K \in Nat /\ L \in Nat /\ Len(node) \in Nat /\ Len(k) \in Nat
    BY LenProperties
  <2>2. Len(k) = M + 1 + Len(node)
    BY DEF Shape
  <2>3. IF L = 0 THEN M = K + 6 ELSE M = K + L + 9
    BY DEF Shape
  <2> QED BY <2>1, <2>2, <2>3
<1>2. Behind(k) = 5..Len(k) /\ First(Behind(k)) = 5
  <2>1. Len(k) >= 5
    BY <1>1
  <2>2. k[1] # Slash /\ k[2] = Slash /\ k[3] # Slash /\ k[4] = Slash
    BY DEF Shape, Slash
  <2> QED BY <2>1, <2>2, BehindIs
<1>3. \A i \in 5..(M - 1) : /\ ~Chunk(k, i, "_n")
                            /\ Chunk(k, i, "_t") => L # 0 /\ i >= K + 6
  BY NoMarkBefore
<1>4. First(I) = M
  <2>1. Chunk(k, M, "_n")
    BY DEF Shape, Chunk
  <2>2. M \in I
    BY <1>1, <1>2, <2>1
  <2>3. \A i \in I : i \in Nat /\ M <= i
    <3>1. ASSUME NEW i \in I PROVE i \in 5..Len(k) /\ Chunk(k, i, "_n")
      BY <1>2
    <3>2. ASSUME NEW i \in I PROVE i \in Nat /\ M <= i
      <4>1. i \in 5..Len(k) /\ Chunk(k, i, "_n")
        BY <3>1
      <4>2. ~(i \in 5..(M - 1))
        BY <1>3, <4>1
      <4> QED BY <1>1, <4>1, <4>2
    <3> QED BY <3>2
  <2>4. I \in SUBSET Nat /\ M # 0
    BY <1>1, <2>3
  <2> HIDE DEF I
  <2> QED BY <2>2, <2>3, <2>4, FirstIs
<1>5. First(J) = IF L = 0 THEN 0 ELSE K + 6
  <2>1. CASE L = 0
    <3>1. J = {}
      BY <1>1, <1>2, <1>3, <2>1
    <3> QED BY <2>1, <3>1 DEF First
  <2>2. CASE L # 0
    <3>1. M = K + L + 9 /\ k[K + 5] = Slash /\ k[K + 6] = "_t" /\ k[K + 7] = Slash
      BY <2>2, <1>1 DEF Shape
    <3>2. Chunk(k, K + 6, "_t")
      BY <1>1, <3>1 DEF Chunk
    <3>3. K + 6 \in J
      BY <1>1, <1>2, <2>2, <3>1, <3>2
    <3>4. \A i \in J : i \in Nat /\ K + 6 <= i
      BY <1>1, <1>2, <1>3
    <3>5. K + 6 # 0 /\ J \in SUBSET Nat
      BY <1>1, <3>4
    <3> HIDE DEF J
    <3>6. First(J) = K + 6
      BY <3>3, <3>4, <3>5, FirstIs
    <3> QED BY <2>2, <3>6
  <2> QED BY <2>1, <2>2
<1>6. Chunk(k, 1, "_talos") /\ M # 0 /\ M # Len(k)
  <2>1. k[1] = "_talos" /\ k[1 + 1] = Slash
    BY DEF Shape
  <2>2. Chunk(k, 1, "_talos")
    BY <2>1 DEF Chunk
  <2> QED BY <1>1, <2>2
<1>7. SubSeq(k, 5, K + 4) = key
  <2>1. Within(k, 4, key)
    BY <1>1 DEF Shape, Within
  <2>2. 4 + 1 = 5 /\ 4 + K = K + 4
    BY <1>1
  <2>3. SubSeq(k, 4 + 1, 4 + K) = key
    BY <2>1, SliceIs
  <2> QED BY <2>2, <2>3
<1>8. SubSeq(k, M + 2, Len(k)) = node
  <2>1. Within(k, M + 1, node)
    BY <1>1 DEF Shape, Within
  <2>2. (M + 1) + 1 = M + 2 /\ (M + 1) + Len(node) = Len(k)
    BY <1>1
  <2>3. SubSeq(k, (M + 1) + 1, (M + 1) + Len(node)) = node
    BY <2>1, SliceIs
  <2> QED BY <2>2, <2>3
<1>9. L # 0 => SubSeq(k, K + 8, M - 2) = type
  <2> SUFFICES ASSUME L # 0 PROVE SubSeq(k, K + 8, M - 2) = type
    OBVIOUS
  <2>1. Within(k, K + 7, type)
    <3>1. \A i \in 1..L : k[K + 7 + i] = type[i]
      BY DEF Shape
    <3>2. K + 7 \in Nat /\ K + 7 + L <= Len(k)
      BY <1>1
    <3> QED BY <3>1, <3>2 DEF Within
  <2>2. (K + 7) + 1 = K + 8 /\ (K + 7) + L = M - 2
    BY <1>1
  <2>3. SubSeq(k, (K + 7) + 1, (K + 7) + L) = type
    BY <2>1, SliceIs
  <2> QED BY <2>2, <2>3
<1>10. (IF First(J) # 0 THEN First(J) ELSE M) - 2 = K + 4
  BY <1>1, <1>5
<1>11. (IF First(J) = 0 THEN <<>> ELSE SubSeq(k, First(J) + 2, M - 2)) = type
  <2>1. CASE L = 0
    <3>1. type = <<>>
      BY <2>1
    <3> QED BY <1>5, <2>1, <3>1
  <2>2. CASE L # 0
    <3>1. First(J) = K + 6 /\ First(J) # 0 /\ (K + 6) + 2 = K + 8
      BY <1>1, <1>5, <2>2
    <3> QED BY <1>9, <2>2, <3>1
  <2> QED BY <2>1, <2>2
<1> HIDE DEF K, L
<1>12. ParseToken(k) =
         [ok |-> TRUE,
          key |-> SubSeq(k, First(Behind(k)), (IF First(J) # 0 THEN First(J) ELSE M) - 2),
          type |-> IF First(J) = 0 THEN <<>> ELSE SubSeq(k, First(J) + 2, M - 2),
          node |-> SubSeq(k, M + 2, Len(k))]
  BY <1>4, <1>6, Zenon DEF ParseToken
<1> HIDE DEF I, J
<1> QED BY <1>2, <1>7, <1>8, <1>10, <1>11, <1>12

\* A token that the network takes is taken apart by RunListLiveliness as the node's
\* CreateRawPublisher or service put it together, unless the topic or the type has
\* one of the marks.
THEOREM TokensParsed == ASSUME Unmarked PROVE TokensParse
<1> SUFFICES ASSUME NEW e \in Endpoints, Announced(e)
             PROVE  ParseToken(Token(e)) =
                      [ok |-> TRUE, key |-> Key(e), type |-> SafeType(Decl[e].type),
                       node |-> FullyQualifiedName(Decl[e].node)]
  BY DEF TokensParse
<1> DEFINE root == Decl[e].kind
           key == Key(e)
           type == SafeType(Decl[e].type)
           node == FullyQualifiedName(Decl[e].node)
           k == Token(e)
           S == Piece \cup {"_", "_talos", "_t", "_n", "pub", "srv"}
<1>1. Decl[e].type \in Name /\ Decl[e].node \in [ns : Name, name : Name] /\ root \in Kind
  BY DeclAssumption
<1>2. key \in Name /\ node \in Name
  BY <1>1, KeyIsName, FullNameIsName
<1>3. \A i \in 1..Len(key) : ~Chunk(key, i, "_t") /\ ~Chunk(key, i, "_n")
  BY <1>2 DEF Unmarked, Name
<1>4. ~(Len(Decl[e].type) = 1 /\ Decl[e].type[1] = "_n")
  <2>1. Decl[e].type # <<"_n">>
    BY DEF Unmarked
  <2> QED BY <1>1, <2>1, OnePiece, Zenon
<1>5. Piece \subseteq S /\ Piece \cup {"_"} \subseteq S /\ "_talos" \in S /\ "_t" \in S /\ "_n" \in S
  OBVIOUS
<1>6. Slash \in S /\ root \in S
  BY <1>1 DEF Piece, Kind
<1>7. root # Slash
  BY <1>1 DEF Kind, Slash
<1> HIDE DEF S
<1>8. key \in Seq(S) /\ node \in Seq(S)
  BY <1>2, <1>5, SeqOver DEF Name
<1>9. /\ type \in Seq(S)
      /\ type = <<>> <=> Decl[e].type = <<>>
      /\ \A i \in 1..Len(type) : type[i] # Slash
      /\ ~(Len(type) = 1 /\ type[1] = "_n")
  <2>1. type \in Seq(S)
    <3>1. type \in Seq(Piece \cup {"_"})
      BY <1>1, SafeTypeIs, Zenon
    <3> QED BY <1>5, <3>1, SeqOver, Zenon
  <2> QED BY <1>1, <1>4, <2>1, SafeTypeIsPart, Zenon
<1> DEFINE a == <<"_talos", Slash, root, Slash>>
           c == <<Slash, "_n", Slash>>
           d == <<Slash, "_t", Slash>>
<1>10. k = a \o key \o (IF Decl[e].type = <<>> THEN <<>> ELSE d \o type) \o c \o node
  BY Zenon DEF Token, LiveKey
<1>11. IsKeyExpr(k)
  BY DEF Announced
<1> HIDE DEF k, key, node, root, type
<1>12. /\ a \in Seq(S) /\ c \in Seq(S) /\ d \in Seq(S)
       /\ IsRoot(a, root) /\ IsMark(c, "_n") /\ IsMark(d, "_t")
  BY <1>5, <1>6, RootIs, MarkIs, Zenon
<1> HIDE DEF a, c, d
<1> DEFINE M == IF type = <<>> THEN Len(key) + 6 ELSE Len(key) + Len(type) + 9
<1>13. k \in Seq(S) /\ Shape(k, root, key, type, node, M)
  <2>1. CASE type = <<>>
    <3>1. k = a \o key \o <<>> \o c \o node
      BY <1>9, <1>10, <2>1
    <3>2. M = Len(key) + 6
      BY <2>1
    <3> HIDE DEF M
    <3> QED BY <1>8, <1>12, <2>1, <3>1, <3>2, UntypedShape
  <2>2. CASE type # <<>>
    <3>1. k = a \o key \o (d \o type) \o c \o node
      BY <1>9, <1>10, <2>2
    <3>2. M = Len(key) + Len(type) + 9
      BY <2>2
    <3> HIDE DEF M
    <3> QED BY <1>8, <1>9, <1>12, <2>2, <3>1, <3>2, TypedShape
  <2> QED BY <2>1, <2>2
<1> HIDE DEF M
<1>14. Len(node) # 0
  <2> SUFFICES ASSUME Len(node) = 0 PROVE FALSE
    OBVIOUS
  <2>1. Len(k) = M + 1 /\ k[M + 1] = Slash
    BY <1>8, <1>13 DEF Shape
  <2>2. Last(k) = Slash
    BY <2>1 DEF Last
  <2> QED BY <1>11, <2>2 DEF IsKeyExpr
<1>15. ParseToken(k) = [ok |-> TRUE, key |-> key, type |-> type, node |-> node]
  BY <1>3, <1>7, <1>8, <1>9, <1>13, <1>14, ParsesBack
<1> QED BY <1>15 DEF k, key, type, node

-----------------------------------------------------------------------------
(* Discovery: the inductive invariant. *)

LEMMA DiscoveryInitOK == ASSUME DiscoveryInit PROVE DiscoveryInv
<1> USE DEF DiscoveryInit
<1>1. DiscoveryTypeOK
  <2>1. \A key : key \notin DOMAIN <<>>
    OBVIOUS
  <2>2. \A reg \in {registry, out} : \A key \in DOMAIN reg : DOMAIN reg[key] = {"type", "nodes"}
    BY <2>1
  <2>3. endpoint \in [Endpoints -> Stage]
    BY DEF Stage
  <2> QED BY <2>2, <2>3 DEF DiscoveryTypeOK
<1>2. TokensInv
  BY DEF TokensInv
<1>3. QueryInv
  BY DEF QueryInv
<1>4. ListedIsKnown
  BY DEF ListedIsKnown
<1> QED BY <1>1, <1>2, <1>3, <1>4 DEF DiscoveryInv

\* The steps of the nodes touch neither the tool nor what it has recorded; only
\* tokens that parse come into sight.
LEMMA NodeSteps == ASSUME DiscoveryInv, NodeNext PROVE DiscoveryInv'
<1> USE DEF DiscoveryInv, DiscoveryTypeOK, Stage, TokensInv, QueryInv, ListedIsKnown, Matching,
            endpointVars, toolVars, queryVars, Appears, Vanishes
<1>1. CASE \E e \in Endpoints : Declare(e)
  BY <1>1 DEF Declare
<1>2. CASE \E e \in Endpoints : DeclareToken(e)
  BY <1>2 DEF DeclareToken, Announced
<1>3. CASE \E e \in Endpoints : DropToken(e)
  BY <1>3 DEF DropToken
<1>4. CASE \E e \in Endpoints : DropEndpoint(e)
  BY <1>4 DEF DropEndpoint
<1>5. CASE \E e \in Endpoints : Lapse(e)
  BY <1>5 DEF Lapse
<1>6. CASE \E e \in Endpoints : Crash(Decl[e].node)
  BY <1>6 DEF Crash
<1> QED BY <1>1, <1>2, <1>3, <1>4, <1>5, <1>6 DEF NodeNext

LEMMA ToolSteps == ASSUME DiscoveryInv, ToolNext PROVE DiscoveryInv'
<1> USE DEF DiscoveryInv, DiscoveryTypeOK, TokensInv, QueryInv, ListedIsKnown, Matching,
            endpointVars, toolVars, queryVars
<1>1. CASE Get
  BY <1>1 DEF Get
<1>2. CASE Leave
  BY <1>2 DEF Leave
<1>3. CASE PrintAll
  BY <1>3 DEF PrintAll
<1>4. CASE Exit
  BY <1>4 DEF Exit
<1> QED BY <1>1, <1>2, <1>3, <1>4 DEF ToolNext

LEMMA QuerySteps ==
  ASSUME DiscoveryInv, QueryNext, ~\E e \in Endpoints : OnReply(e)
  PROVE  DiscoveryInv'
<1> USE DEF DiscoveryInv, DiscoveryTypeOK, TokensInv, QueryInv, ListedIsKnown, Matching,
            endpointVars, toolVars, queryVars, OnDrop, Dangling
<1>1. CASE \E e \in Endpoints : Answer(e)
  BY <1>1 DEF Answer
<1>2. CASE Finish
  <2>1. DiscoveryTypeOK'
    BY <1>2 DEF Finish
  <2>2. TokensInv'
    BY <1>2 DEF Finish
  <2>3. QueryInv'
    BY <1>2 DEF Finish
  <2>4. ListedIsKnown'
    BY <1>2 DEF Finish
  <2> QED BY <2>1, <2>2, <2>3, <2>4
<1>3. CASE Expire
  <2>1. DiscoveryTypeOK'
    BY <1>3 DEF Expire
  <2>2. TokensInv'
    BY <1>3 DEF Expire
  <2>3. QueryInv'
    BY <1>3 DEF Expire
  <2>4. ListedIsKnown'
    BY <1>3 DEF Expire
  <2> QED BY <2>1, <2>2, <2>3, <2>4
<1> QED BY <1>1, <1>2, <1>3 DEF QueryNext

\* A reply that finds RunListLiveliness still at work adds the topic, node and type
\* that its token stands for, and takes no node and no type away.
LEMMA ReplySteps ==
  ASSUME TokensParse, DiscoveryInv, NEW e \in Endpoints, OnReply(e)
  PROVE  DiscoveryInv'
<1> USE DEF DiscoveryInv
<1>1. CASE tpc \notin {"waiting", "left"}
  BY <1>1 DEF OnReply, Dangling, DiscoveryTypeOK, TokensInv, QueryInv, ListedIsKnown, Matching,
              endpointVars
<1>2. CASE tpc \in {"waiting", "left"}
  <2> DEFINE key == Key(e)
             node == FullyQualifiedName(Decl[e].node)
             type == SafeType(Decl[e].type)
             known == Entry(registry, key)
             new == [type |-> IF known.type = <<>> THEN type ELSE known.type,
                     nodes |-> known.nodes \cup {node}]
  <2>1. e \in inflight /\ e \in seen \cap Matching /\ Announced(e)
    BY DEF OnReply, DiscoveryTypeOK, TokensInv, QueryInv
  <2>2. ParseToken(Token(e)) = [ok |-> TRUE, key |-> key, type |-> type, node |-> node]
    BY <2>1 DEF TokensParse
  <2>3. registry' = [k \in DOMAIN registry \cup {key} |-> IF k = key THEN new ELSE registry[k]]
    BY <1>2, <2>2 DEF OnReply
  <2>4. /\ UNCHANGED <<endpointVars, tpc, done, out, whole, query, answered, expired, steady,
                      kind, seen>>
        /\ inflight' = inflight \ {e}
    BY <1>2 DEF OnReply
  <2>5. /\ known.nodes = IF key \in DOMAIN registry THEN registry[key].nodes ELSE {}
        /\ known.type = IF key \in DOMAIN registry THEN registry[key].type ELSE <<>>
    BY DEF Entry, NoEntry
  <2>6. Decl[e].type # <<>> => type # <<>>
    BY DeclAssumption, SafeTypeNotEmpty
  <2>7. /\ DOMAIN new = {"type", "nodes"}
        /\ node \in new.nodes
        /\ \A m \in new.nodes : m = node \/ (key \in DOMAIN registry /\ m \in registry[key].nodes)
        /\ key \in DOMAIN registry => registry[key].nodes \subseteq new.nodes
        /\ new.type \in {known.type, type}
        /\ Decl[e].type # <<>> => new.type # <<>>
        /\ known.type # <<>> => new.type = known.type
    BY <2>5, <2>6
  <2> HIDE DEF new, known, key, node, type
  <2>8. DiscoveryTypeOK'
    BY <2>3, <2>4, <2>7 DEF DiscoveryTypeOK, endpointVars
  <2>9. TokensInv'
    BY <2>4 DEF TokensInv, endpointVars
  <2>10. \A f \in Endpoints : Recorded(registry, f) => Recorded(registry', f)
    BY <2>3, <2>5, <2>7 DEF Recorded
  <2>11. Recorded(registry', e)
    BY <2>3, <2>7 DEF Recorded, key, node
  <2>12. QueryInv'
    BY <1>2, <2>1, <2>4, <2>10, <2>11 DEF QueryInv, Matching, DiscoveryTypeOK, endpointVars
  <2>13. ListedIsKnown'
    <3> SUFFICES ASSUME NEW k \in DOMAIN registry'
                 PROVE  LET Of == {f \in seen' : Decl[f].kind = kind' /\ Key(f) = k} IN
                        /\ Of # {}
                        /\ \A m \in registry'[k].nodes :
                             \E f \in Of : m = FullyQualifiedName(Decl[f].node)
                        /\ registry'[k].type # <<>> =>
                             \E f \in Of : Broadcasts(f, registry'[k].type)
      BY DEF ListedIsKnown
    <3>1. seen' = seen /\ kind' = kind
      BY <2>4
    <3>2. CASE k # key
      <4>1. k \in DOMAIN registry /\ registry'[k] = registry[k]
        BY <2>3, <3>2
      <4> QED BY <3>1, <4>1 DEF ListedIsKnown
    <3>3. CASE k = key
      <4>1. registry'[k] = new
        BY <2>3, <3>3
      <4> DEFINE Of == {f \in seen' : Decl[f].kind = kind' /\ Key(f) = k}
      <4>2. e \in Of
        BY <2>1, <3>1, <3>3 DEF key, Matching
      <4>3. \A m \in new.nodes : \E f \in Of : m = FullyQualifiedName(Decl[f].node)
        BY <2>7, <3>1, <3>3, <4>2 DEF ListedIsKnown, node
      <4>4. new.type # <<>> => \E f \in Of : Broadcasts(f, new.type)
        BY <2>5, <2>7, <3>1, <3>3, <4>2 DEF ListedIsKnown, Broadcasts, type
      <4> QED BY <4>1, <4>2, <4>3, <4>4
    <3> QED BY <3>2, <3>3
  <2> QED BY <2>8, <2>9, <2>12, <2>13
<1> QED BY <1>1, <1>2

-----------------------------------------------------------------------------
(* The commands. *)

\* Callbacks that have printed and not counted yet are finitely many; moving one in
\* or out changes their number by one.
LEMMA UncountedIsFinite ==
  ASSUME NEW S \in SUBSET Threads
  PROVE  IsFiniteSet(S) /\ Cardinality(S) \in Nat
  BY RequestAssumption, FS_Subset, FS_CardinalityType

\* What is reported stands: the tool has ended, and nothing comes into steady again.
LEMMA VerdictKept ==
  ASSUME DiscoveryInv, VerdictInv, NodeNext \/ ToolNext \/ QueryNext, UNCHANGED commandVars
  PROVE  VerdictInv'
<1> USE DEF VerdictInv, DeniedMeansAbsent, Matching, commandVars, listVars
<1>1. CASE NodeNext
  <2>1. UNCHANGED <<tpc, whole, kind>> /\ steady' \subseteq steady
    BY <1>1 DEF NodeNext, Declare, DeclareToken, DropToken, DropEndpoint, Crash, Lapse, Appears,
                Vanishes, toolVars, queryVars
  <2> QED BY <2>1
<1>2. CASE ToolNext \/ QueryNext
  <2>1. tpc \notin {"exited", "crashed"}
    BY <1>2 DEF ToolNext, Get, Leave, PrintAll, Exit, QueryNext, Answer, OnReply, Finish, Expire,
                DiscoveryInv, DiscoveryTypeOK
  <2> QED BY <2>1
<1> QED BY <1>1, <1>2

\* The argument of info is normalised to the key itself, and the key of an endpoint
\* that was there all the time has been printed.
LEMMA ReportSteps ==
  ASSUME DiscoveryInv, EchoTypeOK, VerdictInv, Report
  PROVE  VerdictInv'
<1>1. UNCHANGED discoveryVars /\ request' = request /\ tpc \in {"exited", "crashed"}
  BY DEF Report
<1>2. UNCHANGED <<tpc, whole, kind, steady>>
  BY <1>1 DEF discoveryVars, toolVars, queryVars
<1> SUFFICES ASSUME verdict' = "nobody", whole, NEW e \in steady \cap Matching,
                    StripLeadingSlash(Key(e)) = StripLeadingSlash(request.arg)
             PROVE  FALSE
  BY <1>1, <1>2 DEF VerdictInv, DeniedMeansAbsent, Matching
<1>3. _as_topic_name(_normalize_topic(request.arg)) \notin DOMAIN Collected
  BY DEF Report
<1>4. tpc = "exited" /\ Recorded(out, e) /\ Announced(e) /\ e \in Endpoints
  BY <1>1 DEF DiscoveryInv, DiscoveryTypeOK, QueryInv, TokensInv
<1>5. _normalize_topic(request.arg) = Key(e)
  BY <1>4, AnnouncedKeyIsNormal DEF _normalize_topic
<1>6. _as_topic_name(Key(e)) \in DOMAIN Collected
  BY <1>4 DEF Collected, Recorded
<1> QED BY <1>3, <1>5, <1>6

\* The main thread and the signals.  An echo leaves its loop with its count done, or
\* after a signal.
LEMMA EchoMainSteps ==
  ASSUME EchoTypeOK, EchoInv, EchoDoesItsCount, EchoMain \/ Signal
  PROVE  EchoTypeOK' /\ EchoInv' /\ EchoDoesItsCount'
<1> USE DEF EchoTypeOK, EchoInv, EchoDoesItsCount, Raw, Uncounted, listVars
<1>1. CASE InstallHandlers
  BY <1>1 DEF InstallHandlers
<1>2. CASE SetOk
  BY <1>2 DEF SetOk
<1>3. CASE Subscribe
  BY <1>3 DEF Subscribe
<1>4. CASE Stop
  BY <1>4 DEF Stop
<1>5. CASE Signal
  BY <1>5 DEF Signal
<1>6. CASE GiveUp
  BY <1>6 DEF GiveUp
<1> QED BY <1>1, <1>2, <1>3, <1>4, <1>5, <1>6 DEF EchoMain

\* The callbacks: a message is counted once for each that was printed, although
\* counting it may write a number that another one has written.
LEMMA CallbackSteps ==
  ASSUME EchoTypeOK, EchoInv, EchoDoesItsCount, NEW t \in Threads, OnMessage(t)
  PROVE  EchoTypeOK' /\ EchoInv' /\ EchoDoesItsCount'
<1> USE DEF Callback
<1>a. IsFiniteSet(Uncounted) /\ Cardinality(Uncounted) \in Nat
  BY UncountedIsFinite DEF Uncounted
<1>b. /\ request' = request /\ Raw' = Raw /\ request.count \in Nat
      /\ epc' = epc /\ epc \in {"looping", "ended"}
      /\ UNCHANGED <<signalled, g_ok, verdict>>
  BY RequestAssumption DEF Raw, EchoTypeOK, listVars, OnMessage, Receive, PrintMessage,
     SkipMessage, ReadCount, WriteCount, FetchAdd, CheckCount
<1>c. (IF Raw THEN n' ELSE printed') >= (IF Raw THEN n ELSE printed)
  <2>1. n \in Nat /\ printed \in Nat
    BY DEF EchoTypeOK
  <2>2. Raw => n' = n \/ n' = n + 1
    <3>1. CASE WriteCount(t)
      BY <3>1 DEF WriteCount, EchoInv, Uncounted
    <3>2. CASE ~WriteCount(t)
      BY <3>2 DEF OnMessage, Receive, PrintMessage, SkipMessage, ReadCount, FetchAdd, CheckCount
    <3> QED BY <3>1, <3>2
  <2>3. printed' = printed \/ printed' = printed + 1
    BY DEF OnMessage, Receive, PrintMessage, SkipMessage, ReadCount, WriteCount, FetchAdd,
       CheckCount
  <2> QED BY <2>1, <2>2, <2>3
<1>d. ASSUME EchoTypeOK' PROVE EchoDoesItsCount'
  <2> DEFINE k == IF Raw THEN n ELSE printed
             m == IF Raw THEN n' ELSE printed'
             c == request.count
             Unsignalled == "late" \notin signalled /\ "early" \notin signalled
  <2>1. k \in Nat /\ m \in Nat /\ c \in Nat /\ m >= k
    BY <1>b, <1>c, <1>d DEF EchoTypeOK
  <2>2. epc = "ended" /\ Unsignalled => c > 0 /\ k >= c
    BY DEF EchoDoesItsCount
  <2>3. epc' = epc /\ signalled' = signalled /\ request' = request /\ Raw' = Raw
    BY <1>b
  <2> HIDE DEF k, m, c, Unsignalled
  <2>4. epc = "ended" /\ Unsignalled => c > 0 /\ m >= c
    BY <2>1, <2>2
  <2> QED BY <2>3, <2>4 DEF EchoDoesItsCount, m, c, Unsignalled
<1>1. CASE Receive(t)
  <2>1. Uncounted' = Uncounted
    BY <1>1 DEF Receive, Uncounted, EchoTypeOK
  <2>t. EchoTypeOK'
    BY <1>1, <1>b, <2>1, RequestAssumption DEF Receive, EchoTypeOK
  <2>e. EchoInv'
    BY <1>1, <1>b, <2>1, RequestAssumption DEF Receive, EchoInv, EchoTypeOK
  <2> QED BY <1>d, <2>t, <2>e
<1>2. CASE PrintMessage(t)
  <2>1. CASE Raw
    <3>1. Uncounted' = Uncounted
      BY <1>2, <2>1 DEF PrintMessage, Uncounted, EchoTypeOK, EchoInv
    <3>t. EchoTypeOK'
      BY <1>2, <1>b, <2>1, <3>1, RequestAssumption DEF PrintMessage, EchoTypeOK
    <3>e. EchoInv'
      BY <1>2, <1>b, <2>1, <3>1 DEF PrintMessage, EchoInv, EchoTypeOK
    <3> QED BY <1>d, <3>t, <3>e
  <2>2. CASE ~Raw
    <3>1. Uncounted' = Uncounted \cup {t} /\ t \notin Uncounted
      BY <1>2, <2>2 DEF PrintMessage, Uncounted, EchoTypeOK, EchoInv
    <3>2. Cardinality(Uncounted') = Cardinality(Uncounted) + 1
      BY <1>a, <3>1, FS_AddElement
    <3>t. EchoTypeOK'
      BY <1>2, <1>a, <1>b, <2>2, <3>2, RequestAssumption DEF PrintMessage, EchoTypeOK
    <3>e. EchoInv'
      BY <1>2, <1>a, <1>b, <2>2, <3>2 DEF PrintMessage, EchoInv, EchoTypeOK
    <3> QED BY <1>d, <3>t, <3>e
  <2> QED BY <2>1, <2>2
<1>3. CASE ReadCount(t)
  <2>1. Uncounted' = Uncounted
    BY <1>3 DEF ReadCount, Uncounted, EchoTypeOK
  <2>t. EchoTypeOK'
    BY <1>3, <1>a, <1>b, <2>1, RequestAssumption DEF ReadCount, EchoTypeOK
  <2>e. EchoInv'
    BY <1>3, <1>a, <1>b, <2>1 DEF ReadCount, EchoInv, EchoTypeOK
  <2> QED BY <1>d, <2>t, <2>e
<1>4. CASE WriteCount(t)
  <2>1. Uncounted' = Uncounted \ {t} /\ t \in Uncounted
    BY <1>4 DEF WriteCount, Uncounted, EchoTypeOK
  <2>2. Cardinality(Uncounted') = Cardinality(Uncounted) - 1
    BY <1>a, <2>1, FS_RemoveElement
  <2>t. EchoTypeOK'
    BY <1>4, <1>a, <1>b, <2>1, <2>2, RequestAssumption DEF WriteCount, EchoTypeOK
  <2>e. EchoInv'
    <3>1. /\ n' = read[t] + 1 /\ cpc[t] = "write" /\ UNCHANGED <<read, finished, printed>>
          /\ \A u \in Threads : cpc'[u] = IF u = t THEN "check" ELSE cpc[u]
      BY <1>4 DEF WriteCount, EchoTypeOK
    <3>2. read \in [Threads -> Nat] /\ n \in Nat /\ printed \in Nat
      BY DEF EchoTypeOK
    <3>3. ~Raw => read[t] + Cardinality(Uncounted) <= printed
      BY <3>1 DEF EchoInv
    <3>4. ~Raw
      BY <2>1 DEF EchoInv
    <3>5. n' + Cardinality(Uncounted') <= printed'
      BY <1>a, <2>2, <3>1, <3>2, <3>3, <3>4
    <3>6. ASSUME NEW u \in Threads, cpc'[u] = "write"
          PROVE  read'[u] + Cardinality(Uncounted') <= printed'
      <4>1. u # t /\ cpc[u] = "write"
        BY <3>1, <3>6
      <4>2. read[u] + Cardinality(Uncounted) <= printed
        BY <3>4, <4>1 DEF EchoInv
      <4> QED BY <1>a, <2>2, <3>1, <3>2, <4>2
    <3>7. \A u \in Threads : cpc'[u] = "count" => Raw
      BY <3>1 DEF EchoInv
    <3>8. signalled' = {} => g_ok'
      BY <1>b DEF EchoInv
    <3>9. finished' => request'.count > 0 /\ (IF Raw' THEN n' ELSE printed') >= request'.count
      BY <1>b, <3>1, <3>4 DEF EchoInv
    <3> QED BY <1>b, <3>4, <3>5, <3>6, <3>7, <3>8, <3>9 DEF EchoInv
  <2> QED BY <1>d, <2>t, <2>e
<1>5. CASE FetchAdd(t)
  <2>1. Uncounted' = Uncounted
    BY <1>5 DEF FetchAdd, Uncounted, EchoTypeOK
  <2>t. EchoTypeOK'
    BY <1>5, <1>a, <1>b, <2>1, RequestAssumption DEF FetchAdd, EchoTypeOK
  <2>e. EchoInv'
    BY <1>5, <1>a, <1>b, <2>1 DEF FetchAdd, EchoInv, EchoTypeOK
  <2> QED BY <1>d, <2>t, <2>e
<1>6. CASE CheckCount(t)
  <2>1. Uncounted' = Uncounted
    BY <1>6 DEF CheckCount, Uncounted, EchoTypeOK
  <2>t. EchoTypeOK'
    BY <1>6, <1>a, <1>b, <2>1, RequestAssumption DEF CheckCount, EchoTypeOK
  <2>e. EchoInv'
    BY <1>6, <1>a, <1>b, <2>1 DEF CheckCount, EchoInv, EchoTypeOK
  <2> QED BY <1>d, <2>t, <2>e
<1>7. CASE SkipMessage(t)
  <2>1. Uncounted' = Uncounted
    BY <1>7 DEF SkipMessage, Uncounted, EchoTypeOK
  <2>t. EchoTypeOK'
    BY <1>7, <1>a, <1>b, <2>1, RequestAssumption DEF SkipMessage, EchoTypeOK
  <2>e. EchoInv'
    BY <1>7, <1>a, <1>b, <2>1 DEF SkipMessage, EchoInv, EchoTypeOK
  <2> QED BY <1>d, <2>t, <2>e
<1> QED BY <1>1, <1>2, <1>3, <1>4, <1>5, <1>6, <1>7 DEF OnMessage

-----------------------------------------------------------------------------
(* The theorems. *)

LEMMA TopicsInitOK == ASSUME Init PROVE TopicsInv
<1>1. DiscoveryInv
  BY DiscoveryInitOK DEF Init
<1>2. EchoTypeOK
  <2>1. MaxSamples \in Nat
    BY RequestAssumption
  <2>2. /\ cpc \in [Threads -> {"idle", "print", "count", "read", "write", "check"}]
        /\ read \in [Threads -> Nat]
    BY DEF Init
  <2>3. /\ request \in Requests /\ verdict = "none" /\ epc = "start" /\ g_ok
        /\ n = 0 /\ ~finished /\ finished \in BOOLEAN /\ g_ok \in BOOLEAN
        /\ printed = 0 /\ received = 0 /\ signalled = {}
    BY DEF Init
  <2> QED BY <2>1, <2>2, <2>3 DEF EchoTypeOK
<1>3. Uncounted = {} /\ Cardinality(Uncounted) = 0
  BY FS_EmptySet DEF Uncounted, Init
<1>4. EchoInv
  BY <1>3 DEF EchoInv, Init
<1>5. VerdictInv /\ EchoDoesItsCount
  BY DEF VerdictInv, DeniedMeansAbsent, EchoDoesItsCount, Init
<1> QED BY <1>1, <1>2, <1>4, <1>5 DEF TopicsInv, TopicsTypeOK, DiscoveryInv

\* Each half of the system keeps the other half's invariant by leaving its state alone.
LEMMA TopicsSteps == ASSUME Unmarked, TopicsInv, [Next]_vars PROVE TopicsInv'
<1>a. DiscoveryInv /\ EchoTypeOK /\ VerdictInv /\ EchoInv /\ EchoDoesItsCount
  BY DEF TopicsInv, TopicsTypeOK
<1>d. ASSUME UNCHANGED discoveryVars PROVE DiscoveryInv'
  BY <1>a, <1>d DEF discoveryVars, endpointVars, toolVars, queryVars, DiscoveryInv, DiscoveryTypeOK,
                    TokensInv, QueryInv, ListedIsKnown, Matching
<1>e. ASSUME UNCHANGED <<request, echoVars>>, verdict' \in {"none", "listed", "found", "nobody"}
      PROVE  EchoTypeOK' /\ EchoInv' /\ EchoDoesItsCount'
  BY <1>a, <1>e DEF echoVars, EchoTypeOK, EchoInv, EchoDoesItsCount, Uncounted, Raw
<1>1. CASE NodeNext /\ UNCHANGED commandVars
  <2>1. DiscoveryInv' /\ VerdictInv'
    BY <1>1, <1>a, NodeSteps, VerdictKept
  <2>2. EchoTypeOK' /\ EchoInv' /\ EchoDoesItsCount'
    BY <1>1, <1>a, <1>e DEF commandVars, listVars, EchoTypeOK
  <2> QED BY <2>1, <2>2 DEF TopicsInv, TopicsTypeOK, DiscoveryInv
<1>2. CASE (ToolNext \/ QueryNext) /\ UNCHANGED commandVars
  <2>1. DiscoveryInv'
    BY <1>2, <1>a, ToolSteps, QuerySteps, ReplySteps, TokensParsed
  <2>2. VerdictInv'
    BY <1>2, <1>a, VerdictKept
  <2>3. EchoTypeOK' /\ EchoInv' /\ EchoDoesItsCount'
    BY <1>2, <1>a, <1>e DEF commandVars, listVars, EchoTypeOK
  <2> QED BY <2>1, <2>2, <2>3 DEF TopicsInv, TopicsTypeOK, DiscoveryInv
<1>3. CASE Report
  <2>1. DiscoveryInv'
    BY <1>3, <1>d DEF Report
  <2>2. VerdictInv'
    BY <1>3, <1>a, ReportSteps
  <2>3. EchoTypeOK' /\ EchoInv' /\ EchoDoesItsCount'
    BY <1>3, <1>e DEF Report
  <2> QED BY <2>1, <2>2, <2>3 DEF TopicsInv, TopicsTypeOK, DiscoveryInv
<1>4. CASE EchoNext
  <2>1. EchoTypeOK' /\ EchoInv' /\ EchoDoesItsCount'
    BY <1>4, <1>a, EchoMainSteps, CallbackSteps DEF EchoNext
  <2>2. UNCHANGED <<discoveryVars, request, verdict>>
    BY <1>4 DEF EchoNext, EchoMain, InstallHandlers, SetOk, Subscribe, GiveUp, Stop, Signal,
                OnMessage, Receive, PrintMessage, SkipMessage, ReadCount, WriteCount, FetchAdd,
                CheckCount, Callback, listVars
  <2>3. DiscoveryInv'
    BY <1>d, <2>2
  <2>4. VerdictInv'
    BY <1>a, <2>2 DEF VerdictInv, DeniedMeansAbsent, Matching, discoveryVars, toolVars, queryVars
  <2> QED BY <2>1, <2>3, <2>4 DEF TopicsInv, TopicsTypeOK, DiscoveryInv
<1>5. CASE UNCHANGED vars
  <2>1. DiscoveryInv'
    BY <1>5, <1>d DEF vars
  <2>2. EchoTypeOK' /\ EchoInv' /\ EchoDoesItsCount'
    BY <1>5, <1>a, <1>e DEF vars, commandVars, listVars, EchoTypeOK
  <2>3. VerdictInv'
    BY <1>5, <1>a DEF vars, commandVars, listVars, VerdictInv, DeniedMeansAbsent, Matching,
                      discoveryVars, toolVars, queryVars
  <2> QED BY <2>1, <2>2, <2>3 DEF TopicsInv, TopicsTypeOK, DiscoveryInv
<1> QED BY <1>1, <1>2, <1>3, <1>4, <1>5 DEF Next

\* The inductive invariant of nodes, tool and commands (node.cc:237-264,
\* talosos_tool.cc:245-329, topic.py:149-172, 633-692).
THEOREM TopicsInvariance == ASSUME Unmarked PROVE Spec => []TopicsInv
<1>1. Init => TopicsInv
  BY TopicsInitOK
<1>2. TopicsInv /\ [Next]_vars => TopicsInv'
  BY TopicsSteps
<1> QED BY <1>1, <1>2, PTL DEF Spec

\* Nodes, tool and commands stay in the states the code declares.
THEOREM TopicsTypes == ASSUME Unmarked PROVE Spec => []TopicsTypeOK
<1>1. TopicsInv => TopicsTypeOK
  BY DEF TopicsInv
<1> QED BY <1>1, TopicsInvariance, PTL

\* Topics, nodes and types in a listing are those of endpoints the network showed.
THEOREM ListingsAreKnown == ASSUME Unmarked PROVE Spec => []ListedIsKnown
<1>1. TopicsInv => ListedIsKnown
  BY DEF TopicsInv, DiscoveryInv
<1> QED BY <1>1, TopicsInvariance, PTL

\* A listing that no timeout cut short has every endpoint that was there throughout.
THEOREM ListingsAreComplete == ASSUME Unmarked PROVE Spec => []CompleteWhenWhole
<1>1. TopicsInv => CompleteWhenWhole
  BY DEF TopicsInv, DiscoveryInv, QueryInv, CompleteWhenWhole, Recorded, Entry
<1> QED BY <1>1, TopicsInvariance, PTL

\* After such a listing, info denies no topic that an endpoint had throughout.
THEOREM DenialsAreTrue == ASSUME Unmarked PROVE Spec => []DeniedMeansAbsent
<1>1. TopicsInv => DeniedMeansAbsent
  BY DEF TopicsInv, VerdictInv
<1> QED BY <1>1, TopicsInvariance, PTL

\* An echo that ends without a signal has done its count, lost updates or not.
THEOREM EchoesAreCounted == ASSUME Unmarked PROVE Spec => []EchoDoesItsCount
<1>1. TopicsInv => EchoDoesItsCount
  BY DEF TopicsInv
<1> QED BY <1>1, TopicsInvariance, PTL

-----------------------------------------------------------------------------
(* Every command ends.  Unblocked is what Fairness says of the tool's and  *)
(* the command's main threads, with ENABLED written out: neither waits for *)
(* the network, the nodes or the callbacks for ever.                       *)

ToolGoesOn == Listing /\ tpc \in {"start", "waiting", "left", "returned"}
ReportGoesOn == Listing /\ verdict = "none" /\ tpc \in {"exited", "crashed"}
EchoGoesOn == \/ Echoing /\ epc = "start"
              \/ epc = "installed"
              \/ Echoing /\ ~Raw /\ epc = "ready"
              \/ epc = "looping" /\ (finished \/ (~Raw /\ ~g_ok))

ToolStep == Listing /\ ToolNext /\ UNCHANGED commandVars

Unblocked ==
  /\ []<>~ToolGoesOn   \/ []<><<ToolStep>>_vars
  /\ []<>~ReportGoesOn \/ []<><<Report>>_vars
  /\ []<>~EchoGoesOn   \/ []<><<EchoMain>>_vars

At(place) == tpc = place
Gone == tpc \in {"exited", "crashed"}
Reported == verdict # "none"
Ended == epc \in {"ended", "killed"}

\* A command that has left its start is what it was started as; the tool exits with
\* its query over; and a signal that came after Init's end is not forgotten.
CourseInv ==
  /\ request.verb \in Verb
  /\ tpc \in {"start", "waiting", "left", "returned", "exited", "crashed"}
  /\ tpc # "start" => Listing
  /\ tpc = "start" => query = "none" /\ inflight = {}
  /\ tpc = "exited" => query = "over" /\ inflight = {}
  /\ "late" \in signalled => /\ Echoing
                             /\ epc \in {"ready", "looping", "ended", "killed"}
                             /\ IF Raw THEN epc = "killed" ELSE ~g_ok

\* The tool's main thread, whatever its callbacks do.
LEMMA ToolMoves ==
  ASSUME CourseInv, [Next]_vars
  PROVE  /\ UNCHANGED request
         /\ tpc = "start" => tpc' = "start" \/ (tpc' = "waiting" /\ Listing)
         /\ tpc = "waiting" => tpc' \in {"waiting", "left"}
         /\ tpc = "left" => tpc' \in {"left", "returned"}
         /\ tpc = "returned" => tpc' \in {"returned", "exited", "crashed"}
         /\ Gone => tpc' = tpc
         /\ tpc' = "start" => query' = "none" /\ inflight' = {}
         /\ tpc' = "exited" => query' = "over" /\ inflight' = {}
<1> USE DEF CourseInv, Gone
<1>1. CASE NodeNext /\ UNCHANGED commandVars
  BY <1>1 DEF NodeNext, Declare, DeclareToken, DropToken, DropEndpoint, Lapse, Crash, Appears,
     Vanishes, toolVars, queryVars, commandVars
<1>2. CASE Listing /\ ToolNext /\ UNCHANGED commandVars
  BY <1>2 DEF ToolNext, Get, Leave, PrintAll, Exit, commandVars
<1>3. CASE QueryNext /\ UNCHANGED commandVars
  <2>1. UNCHANGED request /\ tpc # "crashed"
    BY <1>3 DEF QueryNext, commandVars
  <2>2. ASSUME NEW e \in Endpoints, Answer(e)
        PROVE  UNCHANGED <<tpc, query>> /\ query = "open"
    BY <2>2 DEF Answer, toolVars
  <2>3. ASSUME NEW e \in Endpoints, OnReply(e)
        PROVE  /\ query' = query /\ e \in inflight /\ inflight' = inflight \ {e}
               /\ tpc' = tpc \/ (tpc \notin {"waiting", "left"} /\ tpc' \in {"returned", "crashed"})
    BY <2>3 DEF OnReply, Dangling
  <2>4. ASSUME Finish \/ Expire
        PROVE  /\ query = "open" /\ query' = "over"
               /\ inflight' = inflight \/ inflight' = {}
               /\ tpc' = tpc \/ (tpc \notin {"waiting", "left"} /\ tpc' \in {"returned", "crashed"})
    BY <2>4 DEF Finish, Expire, OnDrop, Dangling
  <2> QED BY <1>3, <2>1, <2>2, <2>3, <2>4 DEF QueryNext
<1>4. CASE Report
  BY <1>4 DEF Report, discoveryVars, toolVars, queryVars
<1>5. CASE EchoNext
  BY <1>5 DEF EchoNext, EchoMain, InstallHandlers, SetOk, Subscribe, GiveUp, Stop, Signal,
     OnMessage, Receive, PrintMessage, SkipMessage, ReadCount, WriteCount, FetchAdd, CheckCount,
     Callback, discoveryVars, toolVars, queryVars
<1>6. CASE UNCHANGED vars
  BY <1>6 DEF vars, discoveryVars, commandVars, toolVars, queryVars
<1> QED BY <1>1, <1>2, <1>3, <1>4, <1>5, <1>6 DEF Next

\* An echo's main thread, whatever its callbacks do.
LEMMA EchoMoves ==
  ASSUME CourseInv, [Next]_vars
  PROVE  /\ epc = "ready" => epc' \in {"ready", "looping", "killed"}
         /\ epc = "looping" => epc' \in {"looping", "ended", "killed"}
         /\ Ended => epc' = epc
         /\ finished => finished'
         /\ signalled \subseteq signalled'
         /\ verdict # "none" => verdict' = verdict
         /\ epc \in {"ready", "looping", "ended", "killed"} /\ ~g_ok => ~g_ok'
         /\ "late" \in signalled' /\ "late" \notin signalled =>
              /\ Echoing /\ epc \in {"ready", "looping"}
              /\ IF Raw THEN epc' = "killed" ELSE epc' = epc /\ ~g_ok'
<1> USE DEF CourseInv, Ended
<1>1. CASE UNCHANGED commandVars
  BY <1>1 DEF commandVars, echoVars, listVars
<1>4. CASE Report
  BY <1>4 DEF Report, echoVars
<1>5. CASE EchoMain
  BY <1>5 DEF EchoMain, InstallHandlers, SetOk, Subscribe, GiveUp, Stop, listVars
<1>6. CASE Signal
  BY <1>6 DEF Signal, listVars, Echoing, Raw
<1>7. ASSUME NEW t \in Threads, OnMessage(t)
      PROVE  UNCHANGED <<epc, verdict, g_ok, signalled>>
  BY <1>7 DEF OnMessage, Receive, PrintMessage, SkipMessage, ReadCount, WriteCount, FetchAdd,
     CheckCount, Callback, listVars
<1>9. ASSUME NEW t \in Threads, OnMessage(t) PROVE finished => finished'
  BY <1>9, Zenon DEF OnMessage, Receive, PrintMessage, SkipMessage, ReadCount, WriteCount,
     FetchAdd, CheckCount, Callback
<1>8. CASE UNCHANGED vars
  BY <1>8 DEF vars, commandVars, echoVars, listVars
<1> QED BY <1>1, <1>4, <1>5, <1>6, <1>7, <1>8, <1>9 DEF Next, EchoNext

LEMMA CourseKept == Spec => []CourseInv
<1>1. Init => CourseInv
  BY RequestAssumption DEF Init, DiscoveryInit, CourseInv
<1>2. CourseInv /\ [Next]_vars => CourseInv'
  BY ToolMoves, EchoMoves DEF CourseInv, Listing, Echoing, Raw, Ended, Gone, Verb
<1> QED BY <1>1, <1>2, PTL DEF Spec

\* list and info report, and echo ends after a signal that came behind Init or with its
\* count done, whatever the network, the nodes and the other threads do.
THEOREM CommandsComeToAnEnd == Spec /\ Unblocked => CommandsEnd
<1> DEFINE Rest == verdict = "none" /\ Gone
           Late == "late" \in signalled
           Done == finished /\ epc = "looping"
<1>1. Spec /\ Unblocked => (At("waiting") ~> Reported)
  <2>1. CourseInv /\ At("waiting") /\ [Next]_vars => At("waiting")' \/ At("left")'
    BY ToolMoves DEF At
  <2>2. CourseInv /\ At("waiting") /\ <<ToolStep>>_vars => At("left")'
    BY DEF At, ToolStep, ToolNext, Get, Leave, PrintAll, Exit
  <2>3. CourseInv /\ At("waiting") => ToolGoesOn
    BY DEF CourseInv, At, ToolGoesOn
  <2>4. CourseInv /\ At("left") /\ [Next]_vars => At("left")' \/ At("returned")'
    BY ToolMoves DEF At
  <2>5. CourseInv /\ At("left") /\ <<ToolStep>>_vars => At("returned")'
    BY DEF At, ToolStep, ToolNext, Get, Leave, PrintAll, Exit
  <2>6. CourseInv /\ At("left") => ToolGoesOn
    BY DEF CourseInv, At, ToolGoesOn
  <2>7. CourseInv /\ At("returned") /\ [Next]_vars => At("returned")' \/ Rest' \/ Reported'
    BY ToolMoves DEF At, Gone, Reported
  <2>8. CourseInv /\ At("returned") /\ <<ToolStep>>_vars => Rest' \/ Reported'
    BY DEF At, ToolStep, ToolNext, Get, Leave, PrintAll, Exit, Gone, Reported
  <2>9. CourseInv /\ At("returned") => ToolGoesOn
    BY DEF CourseInv, At, ToolGoesOn
  <2>10. CourseInv /\ Rest /\ [Next]_vars => Rest' \/ Reported'
    BY ToolMoves DEF Gone, Reported
  <2>11. CourseInv /\ Rest /\ <<Report>>_vars => Reported'
    BY DEF Report, Reported
  <2>12. CourseInv /\ Rest => ReportGoesOn
    BY DEF CourseInv, Gone, ReportGoesOn
  <2>13. Spec /\ Unblocked => (At("waiting") ~> At("left"))
    BY <2>1, <2>2, <2>3, CourseKept, PTL DEF Spec, Unblocked
  <2>14. Spec /\ Unblocked => (At("left") ~> At("returned"))
    BY <2>4, <2>5, <2>6, CourseKept, PTL DEF Spec, Unblocked
  <2>15. Spec /\ Unblocked => (At("returned") ~> Rest \/ Reported)
    BY <2>7, <2>8, <2>9, CourseKept, PTL DEF Spec, Unblocked
  <2>16. Spec /\ Unblocked => (Rest ~> Reported)
    BY <2>10, <2>11, <2>12, CourseKept, PTL DEF Spec, Unblocked
  <2> QED BY <2>13, <2>14, <2>15, <2>16, PTL
<1>2. Spec /\ Unblocked => (Late ~> Ended)
  <2> DEFINE Ready == Late /\ epc = "ready"
             Looping == Late /\ epc = "looping"
  <2>1. CourseInv /\ Late => Ready \/ Looping \/ Ended
    BY DEF CourseInv, Ended
  <2>2. CourseInv /\ Ready /\ [Next]_vars => Ready' \/ Looping' \/ Ended'
    BY EchoMoves DEF Ended
  <2>3. CourseInv /\ Ready /\ <<EchoMain>>_vars => Looping' \/ Ended'
    BY DEF EchoMain, InstallHandlers, SetOk, Subscribe, GiveUp, Stop, Ended
  <2>4. CourseInv /\ Ready => EchoGoesOn
    BY DEF CourseInv, EchoGoesOn
  <2>5. CourseInv /\ Looping /\ [Next]_vars => Looping' \/ Ended'
    BY EchoMoves DEF Ended
  <2>6. CourseInv /\ Looping /\ <<EchoMain>>_vars => Ended'
    BY DEF EchoMain, InstallHandlers, SetOk, Subscribe, GiveUp, Stop, Ended
  <2>7. CourseInv /\ Looping => EchoGoesOn
    BY DEF CourseInv, EchoGoesOn
  <2>8. Spec /\ Unblocked => (Ready ~> Looping \/ Ended)
    BY <2>2, <2>3, <2>4, CourseKept, PTL DEF Spec, Unblocked
  <2>9. Spec /\ Unblocked => (Looping ~> Ended)
    BY <2>5, <2>6, <2>7, CourseKept, PTL DEF Spec, Unblocked
  <2> QED BY <2>1, <2>8, <2>9, CourseKept, PTL
<1>3. Spec /\ Unblocked => (Done ~> Ended)
  <2>1. CourseInv /\ Done /\ [Next]_vars => Done' \/ Ended'
    BY EchoMoves DEF Ended
  <2>2. CourseInv /\ Done /\ <<EchoMain>>_vars => Ended'
    BY DEF EchoMain, InstallHandlers, SetOk, Subscribe, GiveUp, Stop, Ended
  <2>3. Done => EchoGoesOn
    BY DEF EchoGoesOn
  <2> QED BY <2>1, <2>2, <2>3, CourseKept, PTL DEF Spec, Unblocked
<1> QED BY <1>1, <1>2, <1>3 DEF CommandsEnd, At, Reported, Ended
=============================================================================
