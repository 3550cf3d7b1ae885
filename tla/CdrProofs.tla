------------------------------- MODULE CdrProofs -------------------------------
EXTENDS Cdr, TLAPS, SequenceTheorems

\* The bytes s stand in b from offset p on.
Holds(b, p, s) == p + Len(s) <= Len(b) /\ \A j \in 1..Len(s) : b[p + j] = s[j]

LEMMA HoldsAppended ==
  ASSUME NEW S, NEW b \in Seq(S), NEW s \in Seq(S)
  PROVE  Holds(b \o s, Len(b), s)
BY DEF Holds

LEMMA HoldsAfterAppend ==
  ASSUME NEW S, NEW b \in Seq(S), NEW c \in Seq(S), NEW s \in Seq(S), NEW p \in Nat,
         Holds(b, p, s)
  PROVE  Holds(b \o c, p, s)
BY DEF Holds

LEMMA HoldsParts ==
  ASSUME NEW S, NEW b \in Seq(S), NEW s \in Seq(S), NEW t \in Seq(S), NEW p \in Nat,
         Holds(b, p, s \o t)
  PROVE  Holds(b, p, s) /\ Holds(b, p + Len(s), t)
<1>1. /\ s \o t \in Seq(S) /\ Len(s \o t) = Len(s) + Len(t)
      /\ \A j \in 1..Len(s) : (s \o t)[j] = s[j]
      /\ \A j \in 1..Len(t) : (s \o t)[Len(s) + j] = t[j]
  OBVIOUS
<1>2. ASSUME NEW j \in 1..Len(t)
      PROVE  b[p + Len(s) + j] = t[j]
  <2>1. Len(s) + j \in 1..Len(s \o t) /\ p + (Len(s) + j) = p + Len(s) + j
    BY <1>1
  <2> QED BY <1>1, <2>1 DEF Holds
<1> QED BY <1>1, <1>2 DEF Holds

LEMMA HoldsTaken ==
  ASSUME NEW S, NEW b \in Seq(S), NEW s \in Seq(S), NEW p \in Nat,
         Holds(b, p, s)
  PROVE  SubSeq(b, p + 1, p + Len(s)) = s
<1>1. /\ SubSeq(b, p + 1, p + Len(s)) \in Seq(S)
      /\ Len(SubSeq(b, p + 1, p + Len(s))) = Len(s)
      /\ \A j \in 1..Len(s) : SubSeq(b, p + 1, p + Len(s))[j] = b[p + j]
  BY DEF Holds
<1> QED BY <1>1, SeqEqual DEF Holds

LEMMA Division ==
  ASSUME NEW n \in Nat
  PROVE  /\ n \div 256 \in Nat /\ n % 256 \in Byte
         /\ (n % 256) + 256 * (n \div 256) = n
BY SMT DEF Byte

LEMMA DivisionMonotone ==
  ASSUME NEW m \in Nat, NEW n \in Nat, n <= m
  PROVE  n \div 256 <= m \div 256
BY SMT

LEMMA CountBytes ==
  ASSUME NEW n \in 0..(MaxLength + 1)
  PROVE  /\ LittleEndian(n) \in Seq(Byte) /\ Len(LittleEndian(n)) = 4
         /\ Value(LittleEndian(n)) = n
<1> DEFINE hi(m) == m \div 256
<1>1. /\ n \in Nat /\ n % 256 \in Byte /\ hi(n) \in Nat /\ (n % 256) + 256 * hi(n) = n
  BY Division, LengthAssumption
<1>2. /\ hi(n) % 256 \in Byte /\ hi(hi(n)) \in Nat
      /\ (hi(n) % 256) + 256 * hi(hi(n)) = hi(n)
  BY <1>1, Division
<1>3. /\ hi(hi(n)) % 256 \in Byte /\ hi(hi(hi(n))) \in Nat
      /\ (hi(hi(n)) % 256) + 256 * hi(hi(hi(n))) = hi(hi(n))
  BY <1>2, Division
<1>4. hi(hi(hi(n))) < 256
  <2> DEFINE m == MaxLength + 1
  <2>1. m \in Nat /\ n <= m
    BY LengthAssumption
  <2>2. hi(m) \in Nat /\ hi(hi(m)) \in Nat /\ hi(hi(hi(m))) \in Nat
    BY <2>1, Division
  <2>3. hi(n) <= hi(m)
    BY <2>1, <1>1, DivisionMonotone
  <2>4. hi(hi(n)) <= hi(hi(m))
    BY <2>2, <2>3, <1>1, <1>2, DivisionMonotone
  <2>5. hi(hi(hi(n))) <= hi(hi(hi(m)))
    BY <2>2, <2>4, <1>2, <1>3, DivisionMonotone
  <2>6. hi(hi(hi(m))) < 256
    BY LengthAssumption
  <2> HIDE DEF hi, m
  <2> QED BY <2>2, <2>5, <2>6, <1>3
<1>5. LittleEndian(n) = <<n % 256, hi(n) % 256, hi(hi(n)) % 256, hi(hi(hi(n))) % 256>>
  BY DEF LittleEndian
<1>6. hi(hi(hi(n))) % 256 = hi(hi(hi(n))) /\ hi(hi(hi(n))) \in Byte
  <2> HIDE DEF hi
  <2> QED BY <1>3, <1>4, SMT DEF Byte
<1> HIDE DEF hi
<1> QED BY <1>1, <1>2, <1>3, <1>5, <1>6, SMT DEF Value

LEMMA Padding ==
  ASSUME NEW n \in {1, 2, 4, 8}, NEW at \in Nat, at >= kEncapsulationHeaderSize
  PROVE  /\ WriterAlign(n, at) \in 0..(n - 1)
         /\ (at + WriterAlign(n, at) - kEncapsulationHeaderSize) % n = 0
         /\ ReaderAlign(n, at) = WriterAlign(n, at)
BY DEF WriterAlign, ReaderAlign, kEncapsulationHeaderSize

-----------------------------------------------------------------------------
(* What the bytes of a primitive are, when its value is one the type can have, *)
(* and what is left of a layout once it is emitted.                             *)

Encoding(op, v) ==
  IF IsWord(op) THEN v
  ELSE IF op.tag = "put" THEN LittleEndian(Len(v) + 1) \o (v \o <<0>>)
  ELSE LittleEndian(v[1])

HasValue(op, v) ==
  /\ IsWord(op) => /\ v \in Seq(Byte) /\ Len(v) = Width[op.name]
                   /\ op.name = "bool" => v \in {<<0>>, <<1>>}
  /\ op.tag = "put" /\ op.name = "text" => v \in Seq(Byte) /\ Len(v) <= MaxLength
  /\ op.tag = "seq" => \E n \in 0..MaxLength : v = <<n>>

\* x is what was published for op where v is on the wire.
IsSource(op, x, v) ==
  /\ x \in Seq(Nat)
  /\ IsWord(op) => v = Encoded(op, x)
  /\ ~IsWord(op) => v = x

Rest(layouts, v, todo) ==
  IF Head(todo).tag = "put" THEN Tail(todo)
  ELSE Repeat(v[1], layouts[Head(todo).name]) \o Tail(todo)

\* Entry k of the trail: it took the head of what was left after k - 1 entries, and
\* its bytes stand in the buffer behind the padding.
Recorded(k) ==
  LET e == trail[k] IN
  /\ Left(k - 1) # <<>> /\ e.op = Head(Left(k - 1))
  /\ HasValue(e.op, e.val) /\ IsSource(e.op, e.src, e.val)
  /\ e.at = End(k - 1) + WriterAlign(Alignment(e.op), End(k - 1))
  /\ Holds(buf, e.at, Encoding(e.op, e.val))
  /\ e.end = e.at + Len(Encoding(e.op, e.val))
  /\ e.todo = Rest(Writes[enc], e.val, Left(k - 1))

\* Every primitive still to be emitted will take a byte at least.
Room(k) ==
  /\ End(k) >= kEncapsulationHeaderSize
  /\ End(k) + Len(Left(k)) <= Len(buf) + Len(wtodo)

Written ==
  /\ \A k \in 1..Len(trail) : Recorded(k)
  /\ \A k \in 0..Len(trail) : Room(k)
  /\ End(Len(trail)) = Len(buf) /\ Left(Len(trail)) = wtodo
  /\ phase \notin {"write", "raised"} => wtodo = <<>>

-----------------------------------------------------------------------------
(* Operators. *)

LEMMA OpKinds ==
  ASSUME NEW S, NEW op \in Op(S)
  PROVE  /\ IsWord(op) \/ (op.tag = "put" /\ op.name = "text") \/ op.tag = "seq"
         /\ op.tag \in {"put", "seq"}
         /\ op.tag = "seq" => op.name \in S
         /\ op.tag = "put" /\ op.name # "text" => IsWord(op)
         /\ IsWord(op) => op.tag = "put" /\ op.name # "text"
         /\ Alignment(op) \in {1, 2, 4, 8}
         /\ ~IsWord(op) => Alignment(op) = 4
         /\ IsWord(op) => Alignment(op) = Width[op.name]
         /\ op.name = "bool" /\ IsWord(op) => Alignment(op) = 1
BY DEF Op, IsWord, Word, Alignment, Width

LEMMA BytesAreNat == Seq(Byte) \subseteq Seq(Nat)
<1>1. Byte \subseteq Nat
  BY DEF Byte
<1> QED BY <1>1, SeqMonotonic

LEMMA Zero == <<0>> \in Seq(Byte) /\ Len(<<0>>) = 1
BY DEF Byte

LEMMA ConcatLonger ==
  ASSUME NEW S, NEW a \in Seq(S), NEW b \in Seq(S)
  PROVE  /\ a \o b \in Seq(S) /\ Len(a \o b) \in Nat
         /\ Len(a \o b) = Len(a) + Len(b) /\ Len(a \o b) >= Len(a)
OBVIOUS

LEMMA BehindLength ==
  ASSUME NEW a \in Seq(Byte), NEW b \in Seq(Byte), Len(a) = 4
  PROVE  a \o b \in Seq(Byte) /\ Len(a \o b) >= 4 /\ Len(a \o b) >= 1
<1> DEFINE x == Len(a \o b)
           y == Len(a)
<1>1. x \in Nat /\ x >= y /\ y = 4
  BY ConcatLonger
<1> HIDE DEF x, y
<1>2. x >= 4 /\ x >= 1
  BY <1>1
<1> QED BY <1>2, ConcatLonger DEF x

LEMMA EncodingBytes ==
  ASSUME NEW S, NEW op \in Op(S), NEW v, HasValue(op, v)
  PROVE  /\ Encoding(op, v) \in Seq(Byte) /\ Len(Encoding(op, v)) >= 1
         /\ ~IsWord(op) => Len(Encoding(op, v)) >= 4
         /\ v \in Seq(Nat)
<1>1. CASE IsWord(op)
  <2>1. Width[op.name] >= 1 /\ v \in Seq(Byte) /\ Len(v) = Width[op.name]
    BY <1>1, OpKinds DEF HasValue
  <2>2. Encoding(op, v) = v
    BY <1>1 DEF Encoding
  <2>3. v \in Seq(Nat)
    BY <2>1, BytesAreNat
  <2> QED BY <1>1, <2>1, <2>2, <2>3
<1>2. CASE op.tag = "put" /\ op.name = "text"
  <2>1. v \in Seq(Byte) /\ Len(v) <= MaxLength /\ ~IsWord(op)
    BY <1>2, OpKinds DEF HasValue
  <2>2. Len(v) + 1 \in 0..(MaxLength + 1)
    BY <2>1, LengthAssumption
  <2>3. /\ LittleEndian(Len(v) + 1) \in Seq(Byte)
        /\ Len(LittleEndian(Len(v) + 1)) = 4
    BY <2>2, CountBytes
  <2>4. Encoding(op, v) = LittleEndian(Len(v) + 1) \o (v \o <<0>>)
    BY <1>2, <2>1 DEF Encoding
  <2>5. v \o <<0>> \in Seq(Byte)
    BY <2>1, Zero, ConcatProperties
  <2>6. /\ Encoding(op, v) \in Seq(Byte)
        /\ Len(Encoding(op, v)) >= 4 /\ Len(Encoding(op, v)) >= 1
    BY <2>3, <2>4, <2>5, BehindLength
  <2>7. v \in Seq(Nat)
    BY <2>1, BytesAreNat
  <2> QED BY <2>6, <2>7
<1>3. CASE op.tag = "seq"
  <2>1. ~IsWord(op)
    BY <1>3, OpKinds
  <2>2. PICK n \in 0..MaxLength : v = <<n>>
    BY <1>3 DEF HasValue
  <2>3. LittleEndian(n) \in Seq(Byte) /\ Len(LittleEndian(n)) = 4
    BY CountBytes, LengthAssumption
  <2>4. Encoding(op, v) = LittleEndian(n)
    BY <1>3, <2>1, <2>2 DEF Encoding
  <2>5. v \in Seq(Nat)
    BY <2>2, LengthAssumption
  <2>6. Encoding(op, v) \in Seq(Byte) /\ Len(Encoding(op, v)) = 4
    BY <2>3, <2>4
  <2> QED BY <2>5, <2>6
<1> QED BY <1>1, <1>2, <1>3, OpKinds

LEMMA RepeatType ==
  ASSUME NEW S, NEW n \in Nat, NEW s \in Seq(S), s # <<>>
  PROVE  Repeat(n, s) \in Seq(S) /\ Len(Repeat(n, s)) >= n
<1>1. Len(s) \in Nat /\ Len(s) >= 1
  OBVIOUS
<1>2. n * Len(s) \in Nat /\ n * Len(s) >= n
  BY <1>1, SMT
<1>3. ASSUME NEW i \in Nat
      PROVE  ((i - 1) % Len(s)) + 1 \in 1..Len(s)
  BY <1>1, SMT
<1>4. \A i \in 1..(n * Len(s)) : s[((i - 1) % Len(s)) + 1] \in S
  BY <1>1, <1>2, <1>3
<1>5. Repeat(n, s) \in [1..(n * Len(s)) -> S]
  BY <1>4 DEF Repeat
<1> QED BY <1>2, <1>5, LenProperties, IsASeq

\* What follows a primitive is a layout again, shorter by one at most, and holds an
\* entry at least for every element of a list.
LEMMA RestType ==
  ASSUME NEW T, \A t \in DOMAIN T : T[t] \in Seq(Op(DOMAIN T)) /\ T[t] # <<>>,
         NEW todo \in Seq(Op(DOMAIN T)), todo # <<>>, NEW v, HasValue(Head(todo), v)
  PROVE  /\ Head(todo) \in Op(DOMAIN T)
         /\ Rest(T, v, todo) \in Seq(Op(DOMAIN T))
         /\ Len(Rest(T, v, todo)) + 1 >= Len(todo)
         /\ Head(todo).tag = "seq" => Len(Rest(T, v, todo)) >= v[1]
<1>1. /\ Head(todo) \in Op(DOMAIN T) /\ Tail(todo) \in Seq(Op(DOMAIN T))
      /\ Len(Tail(todo)) \in Nat /\ Len(todo) = Len(Tail(todo)) + 1
  OBVIOUS
<1>2. CASE Head(todo).tag = "put"
  BY <1>1, <1>2 DEF Rest
<1>3. CASE Head(todo).tag = "seq"
  <2>1. Head(todo).name \in DOMAIN T
    BY <1>1, <1>3, OpKinds
  <2>2. PICK n \in 0..MaxLength : v = <<n>>
    BY <1>3 DEF HasValue
  <2>3. n \in Nat /\ v[1] = n
    BY <2>2, LengthAssumption
  <2> DEFINE r == Repeat(n, T[Head(todo).name])
  <2>4. r \in Seq(Op(DOMAIN T)) /\ Len(r) >= n
    BY <2>1, <2>3, RepeatType
  <2>5. Rest(T, v, todo) = r \o Tail(todo)
    BY <1>3, <2>3 DEF Rest
  <2> HIDE DEF r
  <2>6. /\ r \o Tail(todo) \in Seq(Op(DOMAIN T))
        /\ Len(r \o Tail(todo)) = Len(r) + Len(Tail(todo)) /\ Len(r) \in Nat
    BY <1>1, <2>4, ConcatProperties, LenProperties
  <2>7. Len(Rest(T, v, todo)) = Len(r) + Len(Tail(todo))
    BY <2>5, <2>6
  <2> QED BY <1>1, <2>3, <2>4, <2>5, <2>6, <2>7
<1> QED BY <1>1, <1>2, <1>3, OpKinds

LEMMA WriteTables ==
  ASSUME NEW l \in Lang
  PROVE  /\ \A t \in DOMAIN Writes[l] : /\ Writes[l][t] \in Seq(Op(DOMAIN Writes[l]))
                                        /\ Writes[l][t] # <<>>
         /\ \A t \in DOMAIN Reads[l] : /\ Reads[l][t] \in Seq(Op(DOMAIN Reads[l]))
                                       /\ Reads[l][t] # <<>>
BY LayoutAssumption

LEMMA AlignedBytes ==
  ASSUME CdrTypeOK, NEW n \in {1, 2, 4, 8}
  PROVE  /\ Aligned(n) \in Seq(Byte)
         /\ Len(Aligned(n)) = Len(buf) + WriterAlign(n, Len(buf))
         /\ Len(Aligned(n)) \in Nat /\ Len(Aligned(n)) >= Len(buf)
         /\ \E z \in Seq(Byte) : Aligned(n) = buf \o z
<1> DEFINE w == WriterAlign(n, Len(buf))
           z == [i \in 1..w |-> 0]
<1>1. buf \in Seq(Byte) /\ Len(buf) \in Nat /\ Len(buf) >= kEncapsulationHeaderSize
  BY DEF CdrTypeOK
<1>2. w \in Nat
  BY <1>1, Padding
<1>3. z \in Seq(Byte) /\ Len(z) = w
  <2> HIDE DEF w
  <2>1. z \in [1..w -> Byte]
    BY DEF Byte
  <2> QED BY <1>2, <2>1
<1>4. Aligned(n) = buf \o z
  BY DEF Aligned
<1> HIDE DEF z, w
<1> QED BY <1>1, <1>2, <1>3, <1>4, ConcatLonger DEF w

\* The entries recorded so far stay what they are when one more is appended.
LEMMA EmitStep ==
  ASSUME CdrTypeOK, Written, phase = "write", wtodo # <<>>, NEW v, HasValue(Head(wtodo), v),
         NEW x, IsSource(Head(wtodo), x, v),
         Emit(Head(wtodo), x, v, Alignment(Head(wtodo)), Encoding(Head(wtodo), v),
              Rest(Writes[enc], v, wtodo))
  PROVE  CdrTypeOK' /\ Written'
<1> DEFINE op == Head(wtodo)
           n == Alignment(op)
           b == Encoding(op, v)
           r == Rest(Writes[enc], v, wtodo)
           e == [op |-> op, src |-> x, val |-> v, at |-> Len(Aligned(n)),
                 end |-> Len(Aligned(n)) + Len(b), todo |-> r]
           O == Op(DOMAIN Writes[enc])
           E == [op : O, src : Seq(Nat), val : Seq(Nat), at : Nat, end : Nat,
                 todo : Seq(O)]
<1>0. PICK k0 \in Nat : k0 = Len(trail)
  BY LenProperties DEF CdrTypeOK
<1>1. /\ op \in O /\ r \in Seq(O) /\ Len(r) + 1 >= Len(wtodo)
      /\ wtodo \in Seq(O) /\ Len(wtodo) \in Nat /\ Len(r) \in Nat
  <2>1. enc \in Lang /\ wtodo \in Seq(O)
    BY DEF CdrTypeOK
  <2> QED BY <2>1, WriteTables, RestType, LenProperties
<1>2. /\ b \in Seq(Byte) /\ Len(b) \in Nat /\ Len(b) >= 1 /\ v \in Seq(Nat)
      /\ n \in {1, 2, 4, 8} /\ x \in Seq(Nat)
  BY <1>1, EncodingBytes, OpKinds, LenProperties DEF IsSource
<1>3. /\ Aligned(n) \in Seq(Byte) /\ Len(Aligned(n)) \in Nat
      /\ Len(Aligned(n)) = Len(buf) + WriterAlign(n, Len(buf))
      /\ Len(Aligned(n)) >= Len(buf)
  BY <1>2, AlignedBytes
<1>4. PICK z \in Seq(Byte) : Aligned(n) = buf \o z
  BY <1>2, AlignedBytes
<1>5. /\ buf' = Aligned(n) \o b /\ trail' = Append(trail, e) /\ wtodo' = r
      /\ UNCHANGED <<type, enc, phase, dec, len, rtodo, pos, got>>
  BY DEF Emit, rvars
<1>6. e \in E
  BY <1>1, <1>2, <1>3
<1> HIDE DEF op, n, b, r, e
<1>7. /\ trail \in Seq(E) /\ k0 \in Nat /\ trail' \in Seq(E) /\ Len(trail') = k0 + 1
      /\ \A k \in 1..k0 : trail'[k] = trail[k]
      /\ trail'[k0 + 1] = e
  BY <1>0, <1>5, <1>6 DEF CdrTypeOK
<1> HIDE DEF O, E
<1>8. /\ buf \in Seq(Byte) /\ Len(buf) \in Nat /\ Len(buf) >= kEncapsulationHeaderSize
      /\ buf' \in Seq(Byte) /\ Len(buf') = Len(Aligned(n)) + Len(b) /\ Len(buf') \in Nat
      /\ Len(buf') >= Len(buf) + 1
  <2>1. buf \in Seq(Byte) /\ Len(buf) \in Nat /\ Len(buf) >= kEncapsulationHeaderSize
    BY DEF CdrTypeOK
  <2>2. buf' \in Seq(Byte) /\ Len(buf') = Len(Aligned(n)) + Len(b)
    BY <1>2, <1>3, <1>5, ConcatProperties
  <2> QED BY <1>2, <1>3, <2>1, <2>2
<1>9. CdrTypeOK'
  <2>1. UNCHANGED <<type, enc, dec, phase, len, rtodo, pos, got>>
    BY <1>5
  <2>2. len' \in 0..Len(buf')
    BY <1>8, <2>1 DEF CdrTypeOK
  <2>3. /\ wtodo' \in Seq(Op(DOMAIN Writes[enc]))
        /\ trail' \in Seq([op : Op(DOMAIN Writes[enc]), src : Seq(Nat), val : Seq(Nat),
                           at : Nat, end : Nat, todo : Seq(Op(DOMAIN Writes[enc]))])
    BY <1>1, <1>5, <1>7 DEF O, E
  <2>4. Len(buf') >= kEncapsulationHeaderSize
    BY <1>8 DEF kEncapsulationHeaderSize
  <2> QED BY <1>8, <2>1, <2>2, <2>3, <2>4 DEF CdrTypeOK, kEncapsulationHeaderSize
<1>10. \A k \in 0..k0 : End(k)' = End(k) /\ Left(k)' = Left(k)
  BY <1>0, <1>5, <1>7 DEF End, Left
<1>11. /\ End(k0 + 1)' = e.end /\ Left(k0 + 1)' = e.todo
       /\ End(k0) = Len(buf) /\ Left(k0) = wtodo
  <2>1. End(k0) = Len(buf) /\ Left(k0) = wtodo
    BY <1>0 DEF Written
  <2>2. k0 + 1 # 0
    BY <1>7
  <2> QED BY <1>7, <2>1, <2>2 DEF End, Left
<1>12. /\ e.op = op /\ e.val = v /\ e.src = x /\ e.at = Len(Aligned(n))
       /\ e.end = Len(Aligned(n)) + Len(b) /\ e.todo = r
  BY DEF e
<1>13. ASSUME NEW k \in 1..k0
       PROVE  Recorded(k)'
  <2>1. Recorded(k) /\ trail[k] \in E
    BY <1>0, <1>7, ElementOfSeq DEF Written
  <2>2. k \in 0..k0 /\ k - 1 \in 0..k0 /\ trail'[k] = trail[k]
    BY <1>7
  <2>3. Encoding(trail[k].op, trail[k].val) \in Seq(Byte) /\ trail[k].at \in Nat
    BY <2>1, EncodingBytes DEF Recorded, E, O
  <2>4. Holds(Aligned(n), trail[k].at, Encoding(trail[k].op, trail[k].val))
    BY <1>4, <1>8, <2>1, <2>3, HoldsAfterAppend DEF Recorded
  <2>5. Holds(buf', trail[k].at, Encoding(trail[k].op, trail[k].val))
    BY <1>2, <1>3, <1>5, <2>1, <2>3, <2>4, HoldsAfterAppend
  <2>6. enc' = enc
    BY <1>5
  <2> QED BY <1>10, <2>1, <2>2, <2>5, <2>6 DEF Recorded
<1>14. Recorded(k0 + 1)'
  <2>1. k0 + 1 - 1 = k0 /\ k0 \in 0..k0 /\ enc' = enc
    BY <1>5, <1>7
  <2>2. Left(k0)' = wtodo /\ End(k0)' = Len(buf)
    BY <1>10, <1>11, <2>1
  <2>3. Holds(buf', Len(Aligned(n)), b)
    BY <1>2, <1>3, <1>5, HoldsAppended
  <2>4. b = Encoding(e.op, e.val) /\ n = Alignment(e.op) /\ e.op = Head(wtodo)
        /\ HasValue(e.op, e.val) /\ e.todo = Rest(Writes[enc], e.val, wtodo)
        /\ IsSource(e.op, e.src, e.val)
    BY <1>12 DEF b, n, op, r
  <2> QED BY <1>3, <1>7, <1>12, <2>1, <2>2, <2>3, <2>4 DEF Recorded
<1>15. ASSUME NEW k \in 0..k0
       PROVE  Room(k)'
  <2>1. Room(k)
    BY <1>0 DEF Written
  <2>2. End(k) \in Nat /\ Len(Left(k)) \in Nat
    <3>1. Writes[enc][type] \in Seq(O) /\ kEncapsulationHeaderSize \in Nat
      BY LayoutAssumption DEF CdrTypeOK, O, kEncapsulationHeaderSize
    <3>2. CASE k = 0
      BY <3>1, <3>2 DEF End, Left
    <3>3. CASE k # 0
      <4>1. trail[k] \in E
        <5>1. k \in 1..Len(trail)
          BY <1>0, <3>3
        <5> QED BY <1>7, <5>1, ElementOfSeq
      <4> QED BY <3>3, <4>1, LenProperties DEF End, Left, E
    <3> QED BY <3>2, <3>3
  <2>3. Len(buf) + Len(wtodo) <= Len(buf') + Len(wtodo')
    BY <1>1, <1>5, <1>8
  <2>4. Len(wtodo') \in Nat
    BY <1>1, <1>5
  <2>5. End(k)' = End(k) /\ Left(k)' = Left(k)
    BY <1>10
  <2>6. /\ End(k) >= kEncapsulationHeaderSize
        /\ End(k) + Len(Left(k)) <= Len(buf) + Len(wtodo)
    BY <2>1 DEF Room
  <2>7. /\ Len(buf) + Len(wtodo) \in Nat /\ Len(buf') + Len(wtodo') \in Nat
        /\ End(k) + Len(Left(k)) \in Nat
    <3>1. Len(buf) \in Nat /\ Len(wtodo) \in Nat /\ Len(buf') \in Nat
      BY <1>1, <1>8
    <3> QED BY <2>2, <2>4, <3>1
  <2> DEFINE needed == End(k) + Len(Left(k))
             room == Len(buf) + Len(wtodo)
             later == Len(buf') + Len(wtodo')
  <2>8. needed \in Nat /\ room \in Nat /\ later \in Nat /\ needed <= room /\ room <= later
    BY <2>3, <2>6, <2>7
  <2>9. needed <= later
    <3> HIDE DEF needed, room, later
    <3> QED BY <2>8
  <2> QED BY <2>5, <2>6, <2>9 DEF Room
<1>16. Room(k0 + 1)'
  <2>1. Len(buf') >= kEncapsulationHeaderSize
    BY <1>8 DEF kEncapsulationHeaderSize
  <2> QED BY <1>1, <1>5, <1>8, <1>11, <1>12, <2>1 DEF Room, kEncapsulationHeaderSize
<1>17. Written'
  <2>1. End(Len(trail))' = Len(buf') /\ Left(Len(trail))' = wtodo'
    <3>1. k0 + 1 # 0
      OBVIOUS
    <3>2. trail'[k0 + 1].end = Len(buf') /\ trail'[k0 + 1].todo = wtodo'
      BY <1>5, <1>7, <1>8, <1>12
    <3> QED BY <1>7, <3>1, <3>2 DEF End, Left
  <2>2. \A k \in 1..(k0 + 1) : Recorded(k)'
    BY <1>7, <1>13, <1>14
  <2>3. \A k \in 0..(k0 + 1) : Room(k)'
    BY <1>7, <1>15, <1>16
  <2>4. phase' = "write"
    BY <1>5
  <2> QED BY <1>7, <2>1, <2>2, <2>3, <2>4 DEF Written
<1> QED BY <1>9, <1>17

LEMMA WrittenUnchanged ==
  ASSUME Written, UNCHANGED wvars, phase' \notin {"write", "raised"} => wtodo = <<>>
  PROVE  Written'
<1>1. UNCHANGED <<type, enc, wtodo, buf, trail>>
  BY DEF wvars
<1>2. \A k \in 0..Len(trail) : End(k)' = End(k) /\ Left(k)' = Left(k)
  BY <1>1 DEF End, Left
<1>3. \A k \in 1..Len(trail) : Recorded(k)'
  <2> TAKE k \in 1..Len(trail)
  <2>1. Recorded(k) /\ k \in 0..Len(trail) /\ k - 1 \in 0..Len(trail)
    BY DEF Written
  <2>2. End(k - 1)' = End(k - 1) /\ Left(k - 1)' = Left(k - 1)
    BY <1>2, <2>1
  <2> QED BY <1>1, <2>1, <2>2 DEF Recorded
<1>4. \A k \in 0..Len(trail) : Room(k)'
  BY <1>1, <1>2 DEF Written, Room
<1>5. End(Len(trail))' = Len(buf') /\ Left(Len(trail))' = wtodo'
  BY <1>1 DEF Written, End, Left
<1> QED BY <1>1, <1>3, <1>4, <1>5 DEF Written

-----------------------------------------------------------------------------
(* The writer. *)

LEMMA Prefix ==
  ASSUME NEW S, NEW m \in Nat, NEW n \in 0..m, NEW s \in [1..m -> S]
  PROVE  SubSeq(s, 1, n) \in Seq(S) /\ Len(SubSeq(s, 1, n)) = n
OBVIOUS

LEMMA ArrayIsSeq ==
  ASSUME NEW S, NEW m \in Nat, NEW s \in [1..m -> S]
  PROVE  s \in Seq(S) /\ Len(s) = m
OBVIOUS

\* What a word is published as, and what its width leaves of it.
LEMMA WordEncoded ==
  ASSUME NEW op, op.name \in Word, IsWord(op), NEW s \in [1..9 -> Byte]
  PROVE  LET x == Published(op, s)
             v == Encoded(op, x)
         IN /\ x \in Seq(Byte) /\ x \in Seq(Nat)
            /\ HasValue(op, v) /\ v \in Seq(Byte) /\ Len(v) = Width[op.name]
<1> DEFINE x == Published(op, s)
           v == Encoded(op, x)
           n == Width[op.name]
<1>1. n \in 1..8 /\ (op.name = "bool" => n = 1)
  BY DEF Word, Width
<1>2. SubSeq(s, 1, n) \in Seq(Byte) /\ Len(SubSeq(s, 1, n)) = n
  <2> HIDE DEF n
  <2>1. n \in 0..9
    BY <1>1
  <2> QED BY <2>1, Prefix
<1>3. s \in Seq(Byte) /\ Len(s) = 9
  <2>1. 9 \in Nat
    OBVIOUS
  <2> QED BY ONLY <2>1, ArrayIsSeq, s \in [1..9 -> Byte]
<1>4. <<s[1] % 2>> \in Seq(Byte) /\ Len(<<s[1] % 2>>) = 1
  <2>1. s[1] % 2 \in Byte
    BY DEF Byte
  <2> QED BY <2>1
<1>5. \/ x = s
      \/ op.name = "bool" /\ x = <<s[1] % 2>>
      \/ op.name # "bool" /\ x = SubSeq(s, 1, n)
  BY DEF Published
<1> HIDE DEF n
<1>6. x \in Seq(Byte) /\ Len(x) \in Nat /\ n <= Len(x)
  <2> DEFINE y == <<s[1] % 2>>
             z == SubSeq(s, 1, n)
  <2>1. /\ z \in Seq(Byte) /\ Len(z) = n /\ y \in Seq(Byte) /\ Len(y) = 1
        /\ x = s \/ (op.name = "bool" /\ x = y) \/ x = z
    BY <1>2, <1>4, <1>5
  <2> HIDE DEF x, y, z
  <2> QED BY <1>1, <1>3, <2>1
<1>7. CASE op.name = "bool"
  <2>1. v \in {<<0>>, <<1>>}
    BY <1>7 DEF Encoded
  <2>2. <<0>> \in Seq(Byte) /\ Len(<<0>>) = 1 /\ <<1>> \in Seq(Byte) /\ Len(<<1>>) = 1
    <3>1. 0 \in Byte /\ 1 \in Byte
      BY DEF Byte
    <3> QED BY <3>1
  <2> HIDE DEF v
  <2>3. HasValue(op, v)
    BY <1>1, <1>7, <2>1, <2>2 DEF HasValue, n, IsWord, Word
  <2>4. v \in Seq(Byte) /\ Len(v) = n
    BY <1>1, <1>7, <2>1, <2>2
  <2> QED BY <1>6, <2>3, <2>4, BytesAreNat DEF n, v
<1>8. CASE op.name # "bool"
  <2>1. v = SubSeq(x, 1, n)
    BY <1>8 DEF Encoded, n
  <2>2. v \in Seq(Byte) /\ Len(v) = n
    <3> HIDE DEF x, v
    <3> QED BY <1>1, <1>6, <2>1, SubSeqProperties
  <2> HIDE DEF v
  <2>3. HasValue(op, v)
    BY <1>8, <2>2 DEF HasValue, n, IsWord, Word
  <2> QED BY <1>6, <2>2, <2>3, BytesAreNat DEF n, v
<1> QED BY <1>7, <1>8

LEMMA WriteKeeps ==
  ASSUME CdrTypeOK, Written, WriteWord \/ WriteText \/ WriteCount
  PROVE  CdrTypeOK' /\ Written'
<1> DEFINE op == Head(wtodo)
<1>1. Tried \in Sample
  <2>1. trail \in Seq([op : Op(DOMAIN Writes[enc]), src : Seq(Nat), val : Seq(Nat),
                       at : Nat, end : Nat, todo : Seq(Op(DOMAIN Writes[enc]))])
    BY DEF CdrTypeOK
  <2>2. Len(trail) \in Nat /\ Len(Samples) \in Nat /\ Len(Samples) > 0
    BY <2>1, SampleAssumption, LenProperties
  <2>3. (Len(trail) % Len(Samples)) + 1 \in 1..Len(Samples)
    BY <2>2, SMT
  <2> QED BY <2>3, SampleAssumption, ElementOfSeq DEF Tried
<1>2. wtodo # <<>> /\ phase = "write"
  BY DEF WriteWord, WriteText, WriteCount, Writing
<1>3. op \in Op(DOMAIN Writes[enc])
  BY <1>2 DEF CdrTypeOK
<1>4. CASE WriteWord
  <2>1. op.tag = "put" /\ op.name \in Word /\ IsWord(op)
    BY <1>4 DEF WriteWord, Writing, IsWord
  <2>2. PICK s \in Tried.word :
          Emit(op, Published(op, s), Encoded(op, Published(op, s)), Width[op.name],
               Encoded(op, Published(op, s)), Tail(wtodo))
    BY <1>4 DEF WriteWord
  <2> DEFINE x == Published(op, s)
             v == Encoded(op, x)
  <2>3. s \in [1..9 -> Byte]
    BY <1>1, <2>2 DEF Sample
  <2>4. /\ x \in Seq(Byte) /\ x \in Seq(Nat)
        /\ HasValue(op, v) /\ v \in Seq(Byte) /\ Len(v) = Width[op.name]
    BY <2>1, <2>3, WordEncoded
  <2>5. /\ Emit(op, x, v, Width[op.name], v, Tail(wtodo))
        /\ Encoding(op, v) = v /\ Alignment(op) = Width[op.name]
        /\ Rest(Writes[enc], v, wtodo) = Tail(wtodo)
    BY <2>1, <2>2 DEF Encoding, Alignment, Rest
  <2>6. IsSource(op, x, v)
    BY <2>1, <2>4 DEF IsSource
  <2> HIDE DEF v, x, op
  <2> QED BY <1>2, <2>4, <2>5, <2>6, EmitStep DEF op
<1>5. CASE WriteText
  <2>1. op.tag = "put" /\ op.name = "text" /\ ~IsWord(op)
    BY <1>5 DEF WriteText, Writing, IsWord, Word
  <2>2. PICK s \in Tried.text :
          Emit(op, s, s, 4, LittleEndian(Len(s) + 1) \o s \o <<0>>, Tail(wtodo))
    BY <1>5 DEF WriteText
  <2>3. s \in Seq(Byte) /\ Len(s) <= MaxLength
    BY <1>1, <2>2 DEF Sample
  <2>4. HasValue(op, s) /\ IsSource(op, s, s)
    BY <2>1, <2>3, BytesAreNat DEF HasValue, IsSource
  <2>5. LittleEndian(Len(s) + 1) \in Seq(Byte)
    BY <2>3, CountBytes, LengthAssumption, LenProperties
  <2>6. LittleEndian(Len(s) + 1) \o s \o <<0>> = Encoding(op, s)
    BY <2>1, <2>3, <2>5, Zero, ConcatAssociative DEF Encoding
  <2>7. Alignment(op) = 4 /\ Rest(Writes[enc], s, wtodo) = Tail(wtodo)
    BY <2>1 DEF Alignment, Rest
  <2> HIDE DEF op
  <2> QED BY <1>2, <2>2, <2>4, <2>6, <2>7, EmitStep DEF op
<1>6. CASE WriteCount
  <2>1. op.tag = "seq" /\ op.tag # "put" /\ ~IsWord(op)
    BY <1>6 DEF WriteCount, Writing, IsWord
  <2>2. PICK n \in Tried.count :
          Emit(op, <<n>>, <<n>>, 4, LittleEndian(n), Repeat(n, Writes[enc][op.name]) \o Tail(wtodo))
    BY <1>6 DEF WriteCount
  <2>3. n \in 0..MaxLength /\ <<n>>[1] = n
    BY <1>1, <2>2 DEF Sample
  <2>4. HasValue(op, <<n>>) /\ IsSource(op, <<n>>, <<n>>)
    BY <2>1, <2>3, LengthAssumption DEF HasValue, IsSource
  <2>5. /\ LittleEndian(n) = Encoding(op, <<n>>) /\ Alignment(op) = 4
        /\ Rest(Writes[enc], <<n>>, wtodo) = Repeat(n, Writes[enc][op.name]) \o Tail(wtodo)
    BY <2>1, <2>3 DEF Encoding, Alignment, Rest
  <2> HIDE DEF op
  <2> QED BY <1>2, <2>2, <2>4, <2>5, EmitStep DEF op
<1> QED BY <1>4, <1>5, <1>6

LEMMA DeliverKeeps ==
  ASSUME CdrTypeOK, Written, Deliver
  PROVE  CdrTypeOK' /\ Written'
<1>1. PICK d \in Lang, c \in Cuts :
        /\ type \in Subscribes[d] /\ c <= Len(buf)
        /\ dec' = d
        /\ len' = Len(buf) - c
        /\ phase' = IF len' < kEncapsulationHeaderSize THEN "error" ELSE "read"
        /\ rtodo' = Reads[d][type]
        /\ pos' = kEncapsulationHeaderSize
        /\ got' = <<>>
  BY DEF Deliver
<1>2. UNCHANGED <<type, enc, wtodo, buf, trail>> /\ wtodo = <<>>
  BY DEF Deliver, wvars
<1>3. Written'
  BY <1>2, WrittenUnchanged DEF wvars
<1>4. CdrTypeOK'
  <2>1. len' \in 0..Len(buf)
    BY <1>1, CutsAssumption DEF CdrTypeOK
  <2>2. rtodo' \in Seq(Op(DOMAIN Reads[dec']))
    BY <1>1, LayoutAssumption
  <2>3. /\ pos' \in Nat /\ pos' >= kEncapsulationHeaderSize
        /\ phase' = "read" => pos' <= len'
        /\ got' \in Seq([op : Op(DOMAIN Reads[dec']), val : Seq(Nat)])
    BY <1>1, <2>1 DEF kEncapsulationHeaderSize, CdrTypeOK
  <2> QED BY <1>1, <1>2, <2>1, <2>2, <2>3 DEF CdrTypeOK, kEncapsulationHeaderSize
<1> QED BY <1>3, <1>4

-----------------------------------------------------------------------------
(* The reader, whatever its layout. *)

LEMMA BytesTaken ==
  ASSUME CdrTypeOK, NEW p \in Nat, NEW k \in Nat, p + k <= len
  PROVE  /\ Bytes(p, k) \in Seq(Byte) /\ Bytes(p, k) \in Seq(Nat) /\ Len(Bytes(p, k)) = k
         /\ \A j \in 1..k : Bytes(p, k)[j] \in Byte
<1>1. buf \in Seq(Byte) /\ Len(buf) \in Nat /\ p + k <= Len(buf)
  BY DEF CdrTypeOK
<1>2. Bytes(p, k) \in Seq(Byte) /\ Len(Bytes(p, k)) = k
  BY <1>1 DEF Bytes
<1> HIDE DEF Bytes
<1> QED BY <1>2, BytesAreNat, ElementOfSeq

LEMMA ValueType ==
  ASSUME CdrTypeOK, NEW p \in Nat, p + 4 <= len
  PROVE  Value(Bytes(p, 4)) \in Nat
<1> DEFINE b == Bytes(p, 4)
<1>1. b[1] \in Byte /\ b[2] \in Byte /\ b[3] \in Byte /\ b[4] \in Byte
  BY BytesTaken
<1> HIDE DEF b
<1>2. ASSUME NEW i \in Nat, NEW j \in Nat
      PROVE  i + 256 * j \in Nat
  OBVIOUS
<1>3. b[1] \in Nat /\ b[2] \in Nat /\ b[3] \in Nat /\ b[4] \in Nat
  <2>1. \A x \in Byte : x \in Nat
    BY DEF Byte
  <2> QED BY <1>1, <2>1
<1>4. b[3] + 256 * b[4] \in Nat
  BY <1>2, <1>3
<1>5. b[2] + 256 * (b[3] + 256 * b[4]) \in Nat
  BY <1>2, <1>3, <1>4
<1>6. b[1] + 256 * (b[2] + 256 * (b[3] + 256 * b[4])) \in Nat
  BY <1>2, <1>3, <1>5
<1> QED BY <1>6 DEF Value, b

LEMMA StartType ==
  ASSUME CdrTypeOK, phase = "read", NEW n \in {1, 2, 4, 8}
  PROVE  Start(n) \in Nat /\ Start(n) >= pos
         /\ Start(n) = pos + WriterAlign(n, pos)
<1>1. pos \in Nat /\ pos >= kEncapsulationHeaderSize
  BY DEF CdrTypeOK
<1>2. ReaderAlign(n, pos) = WriterAlign(n, pos) /\ WriterAlign(n, pos) \in Nat
  BY <1>1, Padding
<1> QED BY <1>1, <1>2 DEF Start

LEMMA DecodeType ==
  ASSUME NEW l, NEW s \in Seq(Nat)
  PROVE  Decode(l, s) \in Seq(Nat) /\ Len(Decode(l, s)) = Len(s)
<1>1. \A i \in DOMAIN s :
        (IF l \in Py /\ ~WellFormed(s, i) THEN Replacement ELSE s[i]) \in Nat
  BY DEF Replacement
<1>2. Decode(l, s) \in [1..Len(s) -> Nat]
  BY <1>1 DEF Decode
<1> QED BY <1>2

\* A reader returns the bytes of a text as they are, unless it is one of Python's and
\* they are not UTF-8.
LEMMA DecodeKeeps ==
  ASSUME NEW l, NEW s \in Seq(Byte)
  PROVE  Decode(l, s) = s <=> l \notin Py \/ Utf8(s)
<1>1. s \in Seq(Nat)
  BY BytesAreNat
<1>2. ASSUME l \notin Py \/ Utf8(s)
      PROVE  Decode(l, s) = s
  <2>1. \A i \in DOMAIN s : Decode(l, s)[i] = s[i]
    BY <1>2 DEF Decode, Utf8
  <2>2. Decode(l, s) \in Seq(Nat) /\ Len(Decode(l, s)) = Len(s)
    BY <1>1, DecodeType
  <2>3. DOMAIN s = 1..Len(s)
    OBVIOUS
  <2> QED BY <1>1, <2>1, <2>2, <2>3, SeqEqual
<1>3. ASSUME l \in Py, ~Utf8(s)
      PROVE  Decode(l, s) # s
  <2>1. PICK i \in DOMAIN s : ~WellFormed(s, i)
    BY <1>3 DEF Utf8
  <2>2. Decode(l, s)[i] = Replacement
    BY <1>3, <2>1 DEF Decode
  <2>3. s[i] \in Byte
    BY <2>1
  <2>4. Replacement \notin Byte
    BY DEF Replacement, Byte
  <2> QED BY <2>2, <2>3, <2>4
<1> QED BY <1>2, <1>3

LEMMA TakeKeepsTypes ==
  ASSUME CdrTypeOK, Written, phase = "read", rtodo # <<>>, NEW v \in Seq(Nat),
         NEW p \in Nat, p >= pos, p <= len, NEW todo \in Seq(Op(DOMAIN Reads[dec])),
         Take(Head(rtodo), v, p, todo)
  PROVE  CdrTypeOK' /\ Written'
<1>1. /\ UNCHANGED <<type, enc, wtodo, buf, trail, dec, len, phase>>
      /\ got' = Append(got, [op |-> Head(rtodo), val |-> v]) /\ pos' = p /\ rtodo' = todo
  BY DEF Take, wvars
<1>2. [op |-> Head(rtodo), val |-> v] \in [op : Op(DOMAIN Reads[dec]), val : Seq(Nat)]
  BY DEF CdrTypeOK
<1>3. got' \in Seq([op : Op(DOMAIN Reads[dec]), val : Seq(Nat)])
  BY <1>1, <1>2 DEF CdrTypeOK
<1>4. pos' >= kEncapsulationHeaderSize /\ pos' <= len'
  BY <1>1 DEF CdrTypeOK, kEncapsulationHeaderSize
<1>5. wtodo = <<>>
  BY DEF Written
<1>6. Written'
  BY <1>1, <1>5, WrittenUnchanged DEF wvars
<1> QED BY <1>1, <1>3, <1>4, <1>6 DEF CdrTypeOK, kEncapsulationHeaderSize

LEMMA ReadKeepsTypes ==
  ASSUME CdrTypeOK, Written, ReadWord \/ ReadText \/ ReadCount
  PROVE  CdrTypeOK' /\ Written'
<1> DEFINE op == Head(rtodo)
           O == Op(DOMAIN Reads[dec])
<1>1. phase = "read" /\ rtodo # <<>>
  BY DEF ReadWord, ReadText, ReadCount, Reading
<1>2. /\ op \in O /\ Tail(rtodo) \in Seq(O) /\ pos \in Nat /\ len \in Nat
      /\ dec \in Lang
  BY <1>1 DEF CdrTypeOK
<1>3. CASE ReadWord
  <2> DEFINE n == Width[op.name]
             v == Bytes(Start(n), n)
             w == IF op.name = "bool" THEN <<IF v[1] = 0 THEN 0 ELSE 1>> ELSE v
  <2>1. n \in {1, 2, 4, 8}
    <3>1. op.name \in Word
      BY <1>3 DEF ReadWord
    <3>2. \A x \in Word : Width[x] \in {1, 2, 4, 8}
      BY DEF Word, Width
    <3> QED BY <3>1, <3>2
  <2>2. Start(n) + n <= len /\ Take(op, w, Start(n) + n, Tail(rtodo))
    BY <1>3 DEF ReadWord, EnsureAvail
  <2>3. Start(n) \in Nat /\ Start(n) >= pos
    BY <1>1, <2>1, StartType
  <2>4. v \in Seq(Nat)
    BY <2>1, <2>2, <2>3, BytesTaken
  <2>5. w \in Seq(Nat)
    BY <2>4
  <2>6. Start(n) + n \in Nat /\ Start(n) + n >= pos
    BY <1>2, <2>1, <2>3
  <2> HIDE DEF n, v, w
  <2> QED BY <1>1, <1>2, <2>2, <2>5, <2>6, TakeKeepsTypes
<1>4. CASE ReadText
  <2> DEFINE p == Start(4)
             n == Value(Bytes(p, 4))
  <2>1. p \in Nat /\ p >= pos
    BY <1>1, StartType
  <2>2. /\ p + 4 <= len
        /\ IF n = 0 THEN Take(op, <<>>, p + 4, Tail(rtodo))
           ELSE /\ p + 4 + n <= len
                /\ Take(op, Decode(dec, Bytes(p + 4, n - 1)), p + 4 + n, Tail(rtodo))
    BY <1>4 DEF ReadText, EnsureAvail
  <2>3. n \in Nat
    BY <2>1, <2>2, ValueType
  <2>4. CASE n = 0
    <3>1. Take(op, <<>>, p + 4, Tail(rtodo)) /\ <<>> \in Seq(Nat)
      BY <2>2, <2>4
    <3> HIDE DEF n, p
    <3>2. p + 4 \in Nat /\ p + 4 >= pos
      BY <1>2, <2>1
    <3> QED BY <1>1, <1>2, <2>2, <3>1, <3>2, TakeKeepsTypes
  <2>5. CASE n # 0
    <3>1. /\ p + 4 + n <= len
          /\ Take(op, Decode(dec, Bytes(p + 4, n - 1)), p + 4 + n, Tail(rtodo))
      BY <2>2, <2>5
    <3> HIDE DEF op, n, p
    <3>2. p + 4 \in Nat /\ n - 1 \in Nat /\ p + 4 + (n - 1) <= len
      BY <1>2, <2>1, <2>3, <2>5, <3>1
    <3>3. Decode(dec, Bytes(p + 4, n - 1)) \in Seq(Nat)
      BY <3>2, BytesTaken, DecodeType
    <3>4. p + 4 + n \in Nat /\ p + 4 + n >= pos
      BY <1>2, <2>1, <2>3
    <3> QED BY <1>1, <1>2, <3>1, <3>3, <3>4, TakeKeepsTypes DEF op
  <2> QED BY <2>4, <2>5
<1>5. CASE ReadCount
  <2> DEFINE p == Start(4)
             n == Value(Bytes(p, 4))
             r == Repeat(n, Reads[dec][op.name]) \o Tail(rtodo)
  <2>1. p \in Nat /\ p >= pos
    BY <1>1, StartType
  <2>2. p + 4 <= len /\ Take(op, <<n>>, p + 4, r)
    BY <1>5 DEF ReadCount, EnsureAvail
  <2>3. n \in Nat /\ <<n>> \in Seq(Nat)
    BY <2>1, <2>2, ValueType
  <2>4. op.tag = "seq" /\ op.name \in DOMAIN Reads[dec]
    BY <1>2, <1>5, OpKinds DEF ReadCount, Reading
  <2> HIDE DEF n
  <2>5. Repeat(n, Reads[dec][op.name]) \in Seq(O)
    BY <1>2, <2>3, <2>4, RepeatType, WriteTables
  <2>6. r \in Seq(O)
    BY <1>2, <2>5, ConcatProperties
  <2> HIDE DEF p, r
  <2>7. p + 4 \in Nat /\ p + 4 >= pos
    BY <1>2, <2>1
  <2> QED BY <1>1, <1>2, <2>2, <2>3, <2>6, <2>7, TakeKeepsTypes
<1> QED BY <1>3, <1>4, <1>5

-----------------------------------------------------------------------------
(* The invariants that hold whatever the two layouts are. *)

LEMMA InitWritten ==
  ASSUME Init
  PROVE  CdrTypeOK /\ Written
<1>1. /\ enc \in Lang /\ type \in Publishes[enc] /\ wtodo = Writes[enc][type]
      /\ buf = kCdrLeHeader /\ trail = <<>> /\ phase = "write"
      /\ dec = enc /\ len = 0 /\ rtodo = <<>> /\ pos = 0 /\ got = <<>>
  BY DEF Init
<1>2. buf \in Seq(Byte) /\ Len(buf) = kEncapsulationHeaderSize
  BY <1>1 DEF kCdrLeHeader, kEncapsulationHeaderSize, Byte
<1>3. wtodo \in Seq(Op(DOMAIN Writes[enc])) /\ Len(wtodo) \in Nat
  BY <1>1, LayoutAssumption, LenProperties
<1>4. CdrTypeOK
  BY <1>1, <1>2, <1>3 DEF CdrTypeOK, kEncapsulationHeaderSize
<1>5. Len(trail) = 0 /\ End(0) = kEncapsulationHeaderSize /\ Left(0) = wtodo
  BY <1>1 DEF End, Left
<1>6. Room(0)
  BY <1>2, <1>3, <1>5 DEF Room, kEncapsulationHeaderSize
<1>7. /\ \A k \in 1..Len(trail) : Recorded(k)
      /\ \A k \in 0..Len(trail) : Room(k)
  BY <1>5, <1>6
<1>8. Written
  BY <1>1, <1>2, <1>5, <1>7 DEF Written
<1> QED BY <1>4, <1>8

LEMMA NextWritten ==
  ASSUME CdrTypeOK, Written, [Next]_vars
  PROVE  CdrTypeOK' /\ Written'
<1>1. CASE WriteWord \/ WriteText \/ WriteCount
  BY <1>1, WriteKeeps
<1>2. CASE Deliver
  BY <1>2, DeliverKeeps
<1>r. CASE Raise
  <2>1. UNCHANGED wvars /\ UNCHANGED rvars /\ phase = "write" /\ phase' = "raised"
    BY <1>r DEF Raise, Writing
  <2>2. Written'
    BY <2>1, WrittenUnchanged
  <2>3. CdrTypeOK'
    BY <2>1 DEF CdrTypeOK, wvars, rvars, kEncapsulationHeaderSize
  <2> QED BY <2>2, <2>3
<1>3. CASE ReadWord \/ ReadText \/ ReadCount
  BY <1>3, ReadKeepsTypes
<1>4. CASE Underrun \/ Finish
  <2>1. /\ UNCHANGED wvars /\ UNCHANGED rvars /\ phase = "read"
        /\ phase' \in {"error", "done"}
    BY <1>4 DEF Underrun, Finish
  <2>2. wtodo = <<>>
    BY <2>1 DEF Written
  <2>3. Written'
    BY <2>1, <2>2, WrittenUnchanged
  <2>4. CdrTypeOK'
    BY <2>1 DEF CdrTypeOK, wvars, rvars, kEncapsulationHeaderSize
  <2> QED BY <2>3, <2>4
<1>5. CASE UNCHANGED vars
  <2>1. UNCHANGED wvars /\ UNCHANGED rvars /\ phase' = phase
    BY <1>5 DEF vars, wvars, rvars
  <2>2. phase' \notin {"write", "raised"} => wtodo = <<>>
    BY <2>1 DEF Written
  <2>3. Written'
    BY <2>1, <2>2, WrittenUnchanged
  <2>4. CdrTypeOK'
    BY <2>1 DEF CdrTypeOK, wvars, rvars, kEncapsulationHeaderSize
  <2> QED BY <2>3, <2>4
<1> QED BY <1>1, <1>2, <1>r, <1>3, <1>4, <1>5 DEF Next, Terminated

\* Whatever the layouts: both cursors stay layouts, the reader stays inside the bytes
\* it was given.
THEOREM CdrTypes == Spec => []CdrTypeOK
<1>1. Init => CdrTypeOK /\ Written
  BY InitWritten
<1>2. CdrTypeOK /\ Written /\ [Next]_vars => CdrTypeOK' /\ Written'
  BY NextWritten
<1> QED BY <1>1, <1>2, PTL DEF Spec

LEMMA Padded ==
  ASSUME NEW n \in {1, 2, 4, 8}, NEW p \in Nat, p >= kEncapsulationHeaderSize,
         NEW a, a = p + WriterAlign(n, p)
  PROVE  (a - kEncapsulationHeaderSize) % n = 0
BY DEF WriterAlign, kEncapsulationHeaderSize

LEMMA TrailEntries ==
  ASSUME CdrTypeOK
  PROVE  /\ Len(trail) \in Nat /\ DOMAIN trail = 1..Len(trail)
         /\ \A i \in 1..Len(trail) :
              trail[i] \in [op : Op(DOMAIN Writes[enc]), src : Seq(Nat), val : Seq(Nat),
                           at : Nat, end : Nat, todo : Seq(Op(DOMAIN Writes[enc]))]
         /\ \A k \in 0..Len(trail) : End(k) \in Nat
<1> DEFINE E == [op : Op(DOMAIN Writes[enc]), src : Seq(Nat), val : Seq(Nat),
                 at : Nat, end : Nat, todo : Seq(Op(DOMAIN Writes[enc]))]
<1>1. trail \in Seq(E)
  BY DEF CdrTypeOK
<1> HIDE DEF E
<1>2. Len(trail) \in Nat /\ DOMAIN trail = 1..Len(trail)
  BY <1>1, LenProperties
<1>3. \A i \in 1..Len(trail) : trail[i] \in E
  BY <1>1, ElementOfSeq
<1>4. ASSUME NEW k \in 0..Len(trail)
      PROVE  End(k) \in Nat
  <2>1. CASE k = 0
    BY <2>1 DEF End, kEncapsulationHeaderSize
  <2>2. CASE k # 0
    <3>1. trail[k] \in E
      BY <1>2, <1>3, <2>2
    <3> QED BY <2>2, <3>1 DEF End, E
  <2> QED BY <2>1, <2>2
<1> QED BY <1>2, <1>3, <1>4 DEF E

LEMMA WrittenAligned == CdrTypeOK /\ Written => StandardAlignment
<1> SUFFICES ASSUME CdrTypeOK, Written, NEW i \in DOMAIN trail
             PROVE  (trail[i].at - kEncapsulationHeaderSize) % Alignment(trail[i].op) = 0
  BY DEF StandardAlignment
<1>1. i \in 1..Len(trail) /\ i - 1 \in 0..Len(trail)
  BY TrailEntries
<1>2. Recorded(i) /\ Room(i - 1)
  BY <1>1 DEF Written
<1>3. trail[i].op \in Op(DOMAIN Writes[enc])
  BY <1>1, TrailEntries
<1> DEFINE n == Alignment(trail[i].op)
           p == End(i - 1)
<1>4. n \in {1, 2, 4, 8} /\ p \in Nat /\ p >= kEncapsulationHeaderSize
  BY <1>1, <1>2, <1>3, OpKinds, TrailEntries DEF Room
<1>5. trail[i].at = p + WriterAlign(n, p)
  BY <1>2 DEF Recorded
<1> HIDE DEF n, p
<1>6. (trail[i].at - kEncapsulationHeaderSize) % n = 0
  BY <1>4, <1>5, Padded
<1> QED BY <1>6 DEF n

\* Every word of every message starts at a multiple of its size behind the header,
\* whatever strings and lists precede it.
THEOREM AlignmentIsStandard == Spec => []StandardAlignment
<1>1. Init => CdrTypeOK /\ Written
  BY InitWritten
<1>2. CdrTypeOK /\ Written /\ [Next]_vars => CdrTypeOK' /\ Written'
  BY NextWritten
<1> QED BY <1>1, <1>2, WrittenAligned, PTL DEF Spec

-----------------------------------------------------------------------------
(* The reader of a layout that is the writer's own (SameLayouts).             *)

LEMMA LengthRead ==
  ASSUME CdrTypeOK, NEW S, NEW op \in Op(S), ~IsWord(op), NEW v, HasValue(op, v),
         NEW p \in Nat, Holds(buf, p, Encoding(op, v))
  PROVE  /\ op.tag = "put" => /\ Value(Bytes(p, 4)) = Len(v) + 1
                              /\ Bytes(p + 4, Len(v)) = v
                              /\ Len(Encoding(op, v)) = 4 + (Len(v) + 1)
         /\ op.tag = "seq" => Value(Bytes(p, 4)) = v[1] /\ Len(Encoding(op, v)) = 4
<1>1. buf \in Seq(Byte)
  BY DEF CdrTypeOK
<1>2. CASE op.tag = "put"
  <2>1. v \in Seq(Byte) /\ Len(v) \in Nat /\ Len(v) <= MaxLength
    BY <1>2, OpKinds, LenProperties DEF HasValue
  <2> DEFINE b == LittleEndian(Len(v) + 1)
  <2>2. b \in Seq(Byte) /\ Len(b) = 4 /\ Value(b) = Len(v) + 1
    BY <2>1, CountBytes, LengthAssumption
  <2>3. Encoding(op, v) = b \o (v \o <<0>>)
    BY <1>2 DEF Encoding
  <2> HIDE DEF b
  <2>4. v \o <<0>> \in Seq(Byte) /\ Len(v \o <<0>>) = Len(v) + 1
    BY <2>1, Zero, ConcatProperties
  <2>5. Len(b \o (v \o <<0>>)) = Len(b) + Len(v \o <<0>>)
    BY <2>2, <2>4, ConcatProperties
  <2>6. Holds(buf, p, b) /\ Holds(buf, p + Len(b), v \o <<0>>)
    BY <1>1, <2>2, <2>3, <2>4, HoldsParts
  <2>7. p + 4 \in Nat /\ Holds(buf, p + 4, v \o <<0>>)
    BY <2>2, <2>6
  <2>8. Holds(buf, p + 4, v)
    BY <1>1, <2>1, <2>7, Zero, HoldsParts
  <2>9. SubSeq(buf, p + 4 + 1, p + 4 + Len(v)) = v
    BY <1>1, <2>1, <2>7, <2>8, HoldsTaken
  <2>10. SubSeq(buf, p + 1, p + Len(b)) = b
    BY <1>1, <2>2, <2>6, HoldsTaken
  <2>11. Bytes(p, 4) = b /\ Bytes(p + 4, Len(v)) = v
    BY <2>2, <2>9, <2>10 DEF Bytes
  <2>12. Len(Encoding(op, v)) = 4 + (Len(v) + 1)
    BY <2>2, <2>3, <2>4, <2>5
  <2>13. Value(Bytes(p, 4)) = Len(v) + 1
    BY <2>2, <2>11
  <2> QED BY <1>2, <2>11, <2>12, <2>13
<1>3. CASE op.tag = "seq"
  <2>1. PICK n \in 0..MaxLength : v = <<n>>
    BY <1>3 DEF HasValue
  <2> DEFINE b == LittleEndian(n)
  <2>2. b \in Seq(Byte) /\ Len(b) = 4 /\ Value(b) = n
    BY CountBytes, LengthAssumption
  <2>3. Encoding(op, v) = b /\ v[1] = n
    BY <1>3, <2>1 DEF Encoding
  <2> HIDE DEF b
  <2>4. SubSeq(buf, p + 1, p + Len(b)) = b
    BY <1>1, <2>2, <2>3, HoldsTaken
  <2>5. Bytes(p, 4) = b
    BY <2>2, <2>4 DEF Bytes
  <2> QED BY <1>3, <2>2, <2>3, <2>5
<1> QED BY <1>2, <1>3, OpKinds

\* A reader in step that has not finished stands before the next entry of the trail.
LEMMA NextEntry ==
  ASSUME CdrTypeOK, Written, InStep, phase = "read", rtodo # <<>>,
         NEW k, k = Len(got), NEW e, e = trail[k + 1]
  PROVE  /\ k \in Nat /\ k + 1 \in 1..Len(trail) /\ k \in 0..Len(trail)
         /\ e.op = Head(rtodo) /\ e.op \in Op(DOMAIN Writes[enc]) /\ HasValue(e.op, e.val)
         /\ e.at \in Nat /\ e.end \in Nat /\ Start(Alignment(e.op)) = e.at
         /\ Holds(buf, e.at, Encoding(e.op, e.val))
         /\ e.end = e.at + Len(Encoding(e.op, e.val)) /\ e.end <= Len(buf)
         /\ e.todo = Rest(Writes[enc], e.val, rtodo)
         /\ e.op.tag = "seq" => e.end + e.val[1] <= Len(buf)
<1>1. /\ k \in Nat /\ k <= Len(trail) /\ pos = End(k) /\ rtodo = Left(k)
      /\ Len(trail) \in Nat
  BY TrailEntries, LenProperties DEF InStep, CdrTypeOK
<1>2. k # Len(trail)
  BY <1>1 DEF Written
<1>3. k + 1 \in 1..Len(trail) /\ k \in 0..Len(trail) /\ k + 1 - 1 = k /\ k + 1 # 0
      /\ k + 1 \in 0..Len(trail)
  BY <1>1, <1>2
<1>4. Recorded(k + 1) /\ Room(k + 1)
  BY <1>3 DEF Written
<1>5. e \in [op : Op(DOMAIN Writes[enc]), src : Seq(Nat), val : Seq(Nat),
             at : Nat, end : Nat, todo : Seq(Op(DOMAIN Writes[enc]))]
  BY <1>3, TrailEntries
<1>6. /\ e.op = Head(rtodo) /\ HasValue(e.op, e.val)
      /\ e.at = pos + WriterAlign(Alignment(e.op), pos)
      /\ Holds(buf, e.at, Encoding(e.op, e.val))
      /\ e.end = e.at + Len(Encoding(e.op, e.val))
      /\ e.todo = Rest(Writes[enc], e.val, rtodo)
  BY <1>1, <1>3, <1>4 DEF Recorded
<1>7. Alignment(e.op) \in {1, 2, 4, 8}
  BY <1>5, OpKinds
<1>8. Start(Alignment(e.op)) = e.at
  BY <1>6, <1>7, StartType
<1>9. e.end <= Len(buf)
  BY <1>6 DEF Holds
<1>10. ASSUME e.op.tag = "seq"
       PROVE  e.end + e.val[1] <= Len(buf)
  <2>1. End(k + 1) = e.end /\ Left(k + 1) = e.todo
    BY <1>3 DEF End, Left
  <2>2. Len(wtodo) = 0
    BY DEF Written
  <2>3. e.end + Len(e.todo) <= Len(buf)
    <3>1. End(k + 1) + Len(Left(k + 1)) <= Len(buf) + Len(wtodo)
      BY <1>4 DEF Room
    <3>2. Len(buf) \in Nat
      BY LenProperties DEF CdrTypeOK
    <3> QED BY <2>1, <2>2, <3>1, <3>2
  <2>4. enc \in Lang /\ rtodo \in Seq(Op(DOMAIN Writes[enc]))
    <3>1. enc \in Lang /\ type \in DOMAIN Writes[enc]
      BY LayoutAssumption DEF CdrTypeOK
    <3>2. CASE k = 0
      BY <1>1, <3>1, <3>2, LayoutAssumption DEF Left
    <3>3. CASE k # 0
      <4>1. k \in 1..Len(trail)
        BY <1>1, <3>3
      <4>2. trail[k].todo \in Seq(Op(DOMAIN Writes[enc]))
        BY <4>1, TrailEntries
      <4> QED BY <1>1, <3>1, <3>3, <4>2 DEF Left
    <3> QED BY <3>2, <3>3
  <2>5. Len(e.todo) >= e.val[1]
    BY <1>6, <1>10, <2>4, RestType, WriteTables
  <2>6. e.end \in Nat /\ Len(e.todo) \in Nat /\ Len(buf) \in Nat
    BY <1>5, LenProperties DEF CdrTypeOK
  <2>7. e.val[1] \in Nat
    BY <1>6, <1>10, LengthAssumption DEF HasValue
  <2> DEFINE x == e.end  y == Len(e.todo)  z == e.val[1]  u == Len(buf)
  <2>8. x \in Nat /\ y \in Nat /\ z \in Nat /\ u \in Nat /\ x + y <= u /\ y >= z
    BY <2>3, <2>5, <2>6, <2>7
  <2>9. x + z <= u
    <3> HIDE DEF x, y, z, u
    <3> QED BY <2>8
  <2> QED BY <2>9
<1> QED BY <1>1, <1>3, <1>5, <1>6, <1>8, <1>9, <1>10

LEMMA TakeInStep ==
  ASSUME SameLayouts, CdrTypeOK, Written, InStep, phase = "read", rtodo # <<>>,
         NEW k, k = Len(got), NEW e, e = trail[k + 1],
         Take(Head(rtodo), Returned(dec, e.op, e.val), e.end,
              Rest(Reads[dec], e.val, rtodo))
  PROVE  InStep'
<1>1. /\ k \in Nat /\ k + 1 \in 1..Len(trail) /\ e.op = Head(rtodo)
      /\ e.op \in Op(DOMAIN Writes[enc]) /\ e.todo = Rest(Writes[enc], e.val, rtodo)
  BY NextEntry
<1>2. /\ UNCHANGED <<type, enc, wtodo, buf, trail, dec, len, phase>>
      /\ got' = Append(got, [op |-> e.op, val |-> Returned(dec, e.op, e.val)])
      /\ pos' = e.end
      /\ rtodo' = Rest(Reads[dec], e.val, rtodo)
  BY <1>1 DEF Take, wvars
<1>3. Rest(Reads[dec], e.val, rtodo) = Rest(Writes[enc], e.val, rtodo)
  <2>1. Head(rtodo) \in Op(DOMAIN Reads[dec]) /\ enc \in Lang /\ dec \in Lang
    <3>1. rtodo \in Seq(Op(DOMAIN Reads[dec])) /\ rtodo # <<>>
      BY DEF CdrTypeOK
    <3>2. enc \in Lang /\ dec \in Lang
      BY DEF CdrTypeOK
    <3> QED BY <3>1, <3>2
  <2>2. CASE Head(rtodo).tag = "put"
    BY <2>2 DEF Rest
  <2>3. CASE Head(rtodo).tag = "seq"
    <3>1. Head(rtodo).name \in DOMAIN Reads[dec] \cap DOMAIN Writes[enc]
      BY <1>1, <2>1, <2>3, OpKinds
    <3>2. Reads[dec][Head(rtodo).name] = Writes[enc][Head(rtodo).name]
      BY <2>1, <3>1 DEF SameLayouts
    <3> QED BY <3>2 DEF Rest
  <2> QED BY <2>1, <2>2, <2>3, OpKinds
<1>4. got = Emitted(k) /\ got \in Seq([op : Op(DOMAIN Reads[dec]), val : Seq(Nat)])
  BY DEF InStep, CdrTypeOK
<1>5. Len(got') = k + 1
  BY <1>2, <1>4
<1>6. got' = [i \in 1..(k + 1) |->
                [op |-> trail[i].op, val |-> Returned(dec, trail[i].op, trail[i].val)]]
  <2> DEFINE R == [op : Op(DOMAIN Reads[dec]), val : Seq(Nat)]
             x == [op |-> e.op, val |-> Returned(dec, e.op, e.val)]
  <2>1. got' = Append(got, x) /\ got \in Seq(R) /\ Len(got) = k /\ k \in Nat
    BY <1>1, <1>2, <1>4
  <2> DEFINE f(i) ==
               [op |-> trail[i].op, val |-> Returned(dec, trail[i].op, trail[i].val)]
  <2>2. \A i \in 1..k : got[i] = f(i)
    BY <1>4 DEF Emitted
  <2>3. x = f(k + 1)
    OBVIOUS
  <2> HIDE DEF R, x, f
  <2>4. got' = [i \in 1..(k + 1) |-> f(i)]
    BY <2>1, <2>2, <2>3
  <2> QED BY <2>4 DEF f
<1>7. Emitted(k + 1)' = got'
  BY <1>2, <1>6 DEF Emitted
<1>8. End(k + 1)' = e.end /\ Left(k + 1)' = e.todo
  BY <1>1, <1>2 DEF End, Left
<1>9. (Emitted(Len(got)))' = got' /\ End(Len(got))' = e.end /\ Left(Len(got))' = e.todo
  BY <1>2, <1>5, <1>6, <1>8 DEF Emitted, End, Left
<1>10. Len(got') <= Len(trail')
  BY <1>1, <1>2, <1>5
<1> QED BY <1>1, <1>2, <1>3, <1>9, <1>10 DEF InStep

LEMMA ReadInStep ==
  ASSUME SameLayouts, CdrTypeOK, Written, InStep, ReadWord \/ ReadText \/ ReadCount
  PROVE  InStep'
<1>1. phase = "read" /\ rtodo # <<>>
  BY DEF ReadWord, ReadText, ReadCount, Reading
<1>2. PICK k : k = Len(got)
  OBVIOUS
<1>3. PICK e : e = trail[k + 1]
  OBVIOUS
<1> DEFINE op == Head(rtodo)
           v == e.val
           b == Encoding(op, v)
<1>4. /\ e.op = op /\ op \in Op(DOMAIN Writes[enc]) /\ HasValue(op, v)
      /\ e.at \in Nat /\ Start(Alignment(op)) = e.at
      /\ Holds(buf, e.at, b) /\ e.end = e.at + Len(b)
  BY <1>1, <1>2, <1>3, NextEntry
<1> DEFINE u == Returned(dec, op, v)
<1> SUFFICES Take(op, u, e.end, Rest(Reads[dec], v, rtodo))
  BY <1>1, <1>2, <1>3, <1>4, TakeInStep
<1>5. CASE ReadWord
  <2> DEFINE n == Width[op.name]
             w == Bytes(Start(n), n)
  <2>1. op.tag = "put" /\ op.name \in Word /\ IsWord(op) /\ Alignment(op) = n
    BY <1>5 DEF ReadWord, Reading, IsWord, Alignment
  <2>2. b = v /\ v \in Seq(Byte) /\ Len(v) = n
    BY <1>4, <2>1 DEF HasValue, Encoding
  <2>3. SubSeq(buf, e.at + 1, e.at + Len(v)) = v
    BY <1>4, <2>2, HoldsTaken DEF CdrTypeOK
  <2>4. w = v
    BY <1>4, <2>1, <2>2, <2>3 DEF Bytes
  <2>5. (IF op.name = "bool" THEN <<IF w[1] = 0 THEN 0 ELSE 1>> ELSE w) = v
    <3>1. CASE op.name = "bool"
      <4>1. v \in {<<0>>, <<1>>}
        BY <1>4, <2>1, <3>1 DEF HasValue
      <4> QED BY <2>4, <3>1, <4>1
    <3>2. CASE op.name # "bool"
      BY <2>4, <3>2
    <3> QED BY <3>1, <3>2
  <2>6. Take(op, IF op.name = "bool" THEN <<IF w[1] = 0 THEN 0 ELSE 1>> ELSE w,
             Start(n) + n, Tail(rtodo))
    BY <1>5 DEF ReadWord
  <2>7. Start(n) + n = e.end /\ Rest(Reads[dec], v, rtodo) = Tail(rtodo)
    BY <1>4, <2>1, <2>2 DEF Rest
  <2>8. u = v
    BY <2>1 DEF Returned, Word
  <2> HIDE DEF op, n, v, w, b, u
  <2> QED BY <2>5, <2>6, <2>7, <2>8
<1>6. CASE ReadText
  <2> DEFINE p == Start(4)
             n == Value(Bytes(p, 4))
  <2>1. op.tag = "put" /\ op.name = "text" /\ ~IsWord(op)
    BY <1>6 DEF ReadText, Reading, IsWord, Word
  <2>2. p = e.at
    BY <1>4, <2>1, OpKinds
  <2>3. v \in Seq(Byte) /\ Len(v) \in Nat
    BY <1>4, <2>1, LenProperties DEF HasValue
  <2>4. n = Len(v) + 1 /\ Bytes(p + 4, Len(v)) = v /\ Len(b) = 4 + (Len(v) + 1)
    BY <1>4, <2>1, <2>2, LengthRead
  <2>5. IF n = 0 THEN Take(op, <<>>, p + 4, Tail(rtodo))
        ELSE Take(op, Decode(dec, Bytes(p + 4, n - 1)), p + 4 + n, Tail(rtodo))
    BY <1>6 DEF ReadText
  <2>u. u = Decode(dec, v)
    BY <2>1 DEF Returned
  <2> HIDE DEF op, n, v, b, p, u
  <2>6. n # 0 /\ n - 1 = Len(v)
    BY <2>3, <2>4
  <2>7. p + 4 + n = e.end
    <3>1. e.end = e.at + Len(b) /\ e.at \in Nat
      BY <1>4
    <3> DEFINE x == Len(v)  y == e.at  z == e.end
    <3>2. x \in Nat /\ y \in Nat /\ z = y + (4 + (x + 1)) /\ n = x + 1 /\ p = y
      BY <2>2, <2>3, <2>4, <3>1
    <3> HIDE DEF x, y
    <3>3. p + 4 + n = z
      BY <3>2
    <3> QED BY <3>3
  <2>8. Take(op, u, e.end, Tail(rtodo))
    BY <2>4, <2>5, <2>6, <2>7, <2>u
  <2>9. Rest(Reads[dec], v, rtodo) = Tail(rtodo)
    BY <2>1 DEF Rest, op
  <2> QED BY <2>8, <2>9
<1>7. CASE ReadCount
  <2> DEFINE p == Start(4)
             n == Value(Bytes(p, 4))
             r == Repeat(n, Reads[dec][op.name]) \o Tail(rtodo)
  <2>1. op.tag = "seq" /\ ~IsWord(op)
    BY <1>7 DEF ReadCount, Reading, IsWord
  <2>2. p = e.at
    BY <1>4, <2>1, OpKinds
  <2>3. PICK m \in 0..MaxLength : v = <<m>>
    BY <1>4, <2>1 DEF HasValue
  <2>4. n = v[1] /\ Len(b) = 4
    BY <1>4, <2>1, <2>2, LengthRead
  <2>5. <<n>> = v
    BY <2>3, <2>4
  <2>6. Take(op, <<n>>, p + 4, r)
    BY <1>7 DEF ReadCount
  <2>7. p + 4 = e.end
    <3>1. e.end = e.at + Len(b)
      BY <1>4
    <3> QED BY <2>2, <2>4, <3>1
  <2>8. Rest(Reads[dec], v, rtodo) = r
    BY <2>1, <2>4 DEF Rest
  <2>9. u = v
    BY <2>1 DEF Returned
  <2> HIDE DEF op, n, v, b, p, r, u
  <2> QED BY <2>5, <2>6, <2>7, <2>8, <2>9
<1> QED BY <1>5, <1>6, <1>7

\* An underrun of a reader in step is a payload that lost bytes.
LEMMA UnderrunMeansCut ==
  ASSUME CdrTypeOK, Written, InStep, Underrun
  PROVE  len < Len(buf)
<1>1. phase = "read" /\ rtodo # <<>>
  BY DEF Underrun
<1>2. PICK k : k = Len(got)
  OBVIOUS
<1>3. PICK e : e = trail[k + 1]
  OBVIOUS
<1>e. /\ e.op = Head(rtodo) /\ e.op \in Op(DOMAIN Writes[enc]) /\ HasValue(e.op, e.val)
      /\ e.at \in Nat /\ Start(Alignment(e.op)) = e.at
      /\ Holds(buf, e.at, Encoding(e.op, e.val))
      /\ e.end = e.at + Len(Encoding(e.op, e.val)) /\ e.end <= Len(buf)
      /\ e.op.tag = "seq" => e.end + e.val[1] <= Len(buf)
  BY <1>1, <1>2, <1>3, NextEntry
<1> DEFINE op == Head(rtodo)
           v == e.val
           b == Encoding(op, v)
           n == Alignment(op)
<1>4. /\ op \in Op(DOMAIN Writes[enc]) /\ HasValue(op, v)
      /\ e.at \in Nat /\ Start(n) = e.at
      /\ Holds(buf, e.at, b) /\ e.end = e.at + Len(b) /\ e.end <= Len(buf)
      /\ op.tag = "seq" => e.end + v[1] <= Len(buf)
  BY <1>e, Zenon
<1>5. len \in Nat /\ Len(buf) \in Nat /\ len <= Len(buf)
  BY LenProperties DEF CdrTypeOK
<1>6. SUFFICES ASSUME len = Len(buf) PROVE FALSE
  BY <1>5
<1>7. ~ /\ Start(n) + n <= len
        /\ IsWord(op) \/ Start(4) + 4 + Value(Bytes(Start(4), 4)) <= len
  BY DEF Underrun, EnsureAvail
<1>8. CASE IsWord(op)
  <2>1. Len(b) = n
    BY <1>4, <1>8 DEF HasValue, Encoding, Alignment
  <2> HIDE DEF op, n, v, b
  <2> QED BY <1>4, <1>6, <1>7, <1>8, <2>1
<1>9. CASE ~IsWord(op) /\ op.tag = "put"
  <2>1. n = 4 /\ op.name = "text"
    BY <1>4, <1>9, OpKinds
  <2>2. Len(v) \in Nat
    BY <1>4, <1>9, <2>1, LenProperties DEF HasValue
  <2>3. Value(Bytes(Start(4), 4)) = Len(v) + 1 /\ Len(b) = 4 + (Len(v) + 1)
    BY <1>4, <1>9, <2>1, LengthRead
  <2> HIDE DEF op, n, v, b
  <2> QED BY <1>4, <1>6, <1>7, <1>9, <2>1, <2>2, <2>3
<1>10. CASE ~IsWord(op) /\ op.tag = "seq"
  <2>1. n = 4
    BY <1>4, <1>10, OpKinds
  <2>2. PICK m \in 0..MaxLength : v = <<m>>
    BY <1>4, <1>10 DEF HasValue
  <2>3. v[1] \in Nat
    BY <2>2, LengthAssumption
  <2>4. Value(Bytes(Start(4), 4)) = v[1] /\ Len(b) = 4
    BY <1>4, <1>10, <2>1, LengthRead
  <2> HIDE DEF op, n, v, b
  <2> QED BY <1>4, <1>6, <1>7, <1>10, <2>1, <2>3, <2>4
<1> QED BY <1>4, <1>8, <1>9, <1>10, OpKinds

\* What a reader returns for an entry is what may come back for it.
LEMMA EntryArrives ==
  ASSUME NEW S, NEW e, e.op \in Op(S), HasValue(e.op, e.val), IsSource(e.op, e.src, e.val)
  PROVE  Arrived(e, Returned(dec, e.op, e.val))
<1>1. CASE IsWord(e.op)
  <2>1. e.op.tag = "put" /\ e.op.name # "text" /\ e.val = Encoded(e.op, e.src)
    BY <1>1, OpKinds DEF IsSource
  <2>2. Returned(dec, e.op, e.val) = e.val
    BY <2>1 DEF Returned
  <2> QED BY <1>1, <2>1, <2>2 DEF Arrived, Encoded
<1>2. CASE e.op.tag = "put" /\ e.op.name = "text"
  <2>1. ~IsWord(e.op) /\ e.val = e.src /\ e.val \in Seq(Byte)
    BY <1>2, OpKinds DEF IsSource, HasValue
  <2>2. Returned(dec, e.op, e.val) = Decode(dec, e.src)
    BY <1>2, <2>1 DEF Returned
  <2>3. Decode(dec, e.src) = e.src <=> dec \notin Py \/ Utf8(e.src)
    BY <2>1, DecodeKeeps
  <2> QED BY <1>2, <2>1, <2>2, <2>3 DEF Arrived
<1>3. CASE e.op.tag = "seq"
  <2>1. ~IsWord(e.op) /\ e.val = e.src
    BY <1>3, OpKinds DEF IsSource
  <2>2. Returned(dec, e.op, e.val) = e.val
    BY <1>3 DEF Returned
  <2> QED BY <1>3, <2>1, <2>2 DEF Arrived
<1> QED BY <1>1, <1>2, <1>3, OpKinds

Decoded == InStep /\ WholeOrNothing

LEMMA DecodedStep ==
  ASSUME SameLayouts, CdrTypeOK, Written, Decoded, [Next]_vars
  PROVE  Decoded'
<1>1. CASE WriteWord \/ WriteText \/ WriteCount
  <2>1. phase' = "write"
    BY <1>1 DEF WriteWord, WriteText, WriteCount, Writing, Emit
  <2> QED BY <2>1 DEF Decoded, InStep, WholeOrNothing
<1>r. CASE Raise
  <2>1. phase' = "raised"
    BY <1>r DEF Raise
  <2> QED BY <2>1 DEF Decoded, InStep, WholeOrNothing
<1>2. CASE Deliver
  <2>1. PICK d \in Lang, c \in Cuts :
          /\ type \in Subscribes[d]
          /\ len' = Len(buf) - c
          /\ phase' = IF len' < kEncapsulationHeaderSize THEN "error" ELSE "read"
          /\ rtodo' = Reads[d][type]
          /\ pos' = kEncapsulationHeaderSize
          /\ got' = <<>>
    BY <1>2 DEF Deliver
  <2>2. UNCHANGED <<type, enc, wtodo, buf, trail>>
    BY <1>2 DEF Deliver, wvars
  <2>3. phase' = "error" => len' < Len(buf')
    <3>1. Len(buf) \in Nat /\ Len(buf) >= kEncapsulationHeaderSize
      BY LenProperties DEF CdrTypeOK
    <3>2. phase' = "error" => len' < kEncapsulationHeaderSize
      BY <2>1
    <3>3. c \in Nat
      BY CutsAssumption
    <3> QED BY <2>1, <2>2, <3>1, <3>2, <3>3 DEF kEncapsulationHeaderSize
  <2>4. rtodo' = Writes[enc][type]
    <3>1. type \in DOMAIN Writes[enc] \cap DOMAIN Reads[d] /\ enc \in Lang
      BY <2>1, LayoutAssumption DEF CdrTypeOK
    <3> QED BY <2>1, <3>1 DEF SameLayouts
  <2>5. Len(got') = 0 /\ Len(trail) \in Nat
    BY <2>1, TrailEntries
  <2>6. /\ Len(got') <= Len(trail') /\ Emitted(Len(got))' = <<>>
        /\ End(Len(got))' = pos' /\ Left(Len(got))' = rtodo'
    BY <2>1, <2>2, <2>4, <2>5 DEF Emitted, End, Left, kEncapsulationHeaderSize
  <2>7. InStep'
    BY <2>1, <2>6 DEF InStep
  <2>8. phase' # "done"
    BY <2>1
  <2> QED BY <2>3, <2>7, <2>8 DEF Decoded, WholeOrNothing
<1>3. CASE ReadWord \/ ReadText \/ ReadCount
  <2>1. phase' = "read"
    <3>1. phase = "read"
      BY <1>3 DEF ReadWord, ReadText, ReadCount, Reading
    <3> QED BY <1>3, <3>1 DEF ReadWord, ReadText, ReadCount, Take
  <2>2. InStep'
    BY <1>3, ReadInStep DEF Decoded
  <2> QED BY <2>1, <2>2 DEF Decoded, WholeOrNothing
<1>4. CASE Underrun
  <2>1. UNCHANGED wvars /\ UNCHANGED rvars /\ phase' = "error"
    BY <1>4 DEF Underrun
  <2>2. len < Len(buf)
    BY <1>4, UnderrunMeansCut DEF Decoded
  <2> QED BY <2>1, <2>2 DEF Decoded, InStep, WholeOrNothing, wvars, rvars
<1>5. CASE Finish
  <2>1. /\ UNCHANGED <<type, enc, wtodo, buf, trail, dec, len, rtodo, pos, got>>
        /\ phase = "read" /\ phase' = "done" /\ rtodo = <<>>
    BY <1>5 DEF Finish, wvars, rvars
  <2>2. PICK k : k = Len(got)
    OBVIOUS
  <2>3. /\ k \in Nat /\ Len(trail) \in Nat /\ k <= Len(trail) /\ Left(k) = <<>>
        /\ got = Emitted(k) /\ pos = End(k)
    BY <2>1, <2>2, TrailEntries, LenProperties DEF Decoded, InStep, CdrTypeOK
  <2>4. k = Len(trail)
    <3> SUFFICES ASSUME k # Len(trail) PROVE FALSE
      OBVIOUS
    <3>1. k + 1 \in 1..Len(trail) /\ k + 1 - 1 = k
      BY <2>3
    <3> QED BY <2>3, <3>1 DEF Written, Recorded
  <2>5. pos = Len(buf)
    BY <2>3, <2>4 DEF Written
  <2>6. pos <= len /\ len <= Len(buf) /\ len \in Nat /\ Len(buf) \in Nat
    BY <2>1, LenProperties DEF CdrTypeOK
  <2>7. len = Len(buf) /\ pos = len
    BY <2>5, <2>6
  <2>8. Len(got) = Len(trail)
    BY <2>2, <2>4
  <2>9. ASSUME NEW i \in 1..Len(trail)
        PROVE  got[i].op = trail[i].op /\ Arrived(trail[i], got[i].val)
    <3>1. got[i] = [op |-> trail[i].op,
                    val |-> Returned(dec, trail[i].op, trail[i].val)]
      BY <2>3, <2>4 DEF Emitted
    <3>2. trail[i].op \in Op(DOMAIN Writes[enc])
      BY TrailEntries
    <3>3. HasValue(trail[i].op, trail[i].val) /\ IsSource(trail[i].op, trail[i].src, trail[i].val)
      BY DEF Written, Recorded
    <3>4. PICK e : e = trail[i]
      OBVIOUS
    <3>5. Arrived(e, Returned(dec, e.op, e.val))
      BY <3>2, <3>3, <3>4, EntryArrives
    <3> QED BY <3>1, <3>4, <3>5
  <2>10. InStep' /\ phase' # "error"
    BY <2>1 DEF InStep
  <2>11. WholeOrNothing'
    BY <2>1, <2>7, <2>8, <2>9 DEF WholeOrNothing, Arrived
  <2> QED BY <2>10, <2>11 DEF Decoded
<1>6. CASE UNCHANGED vars
  <2>1. UNCHANGED <<type, enc, dec, phase, wtodo, buf, trail, len, rtodo, pos, got>>
    BY <1>6 DEF vars
  <2> QED BY <2>1 DEF Decoded, InStep, WholeOrNothing, Arrived, Emitted, End, Left
<1> QED BY <1>1, <1>r, <1>2, <1>3, <1>4, <1>5, <1>6 DEF Next, Terminated

LEMMA AlwaysDecoded == SameLayouts /\ Spec => []Decoded
<1>1. Init => CdrTypeOK /\ Written /\ Decoded
  <2>1. Init => Decoded
    BY DEF Init, Decoded, InStep, WholeOrNothing
  <2> QED BY <2>1, InitWritten
<1>2. SameLayouts /\ CdrTypeOK /\ Written /\ Decoded /\ [Next]_vars
        => CdrTypeOK' /\ Written' /\ Decoded'
  BY NextWritten, DecodedStep
<1>3. SameLayouts => SameLayouts'
  BY DEF SameLayouts
<1> QED BY <1>1, <1>2, <1>3, PTL DEF Spec

\* Where the layouts agree, the reader is never out of step with the writer.
THEOREM ReaderInStep == SameLayouts /\ Spec => []InStep
<1>1. Decoded => InStep
  BY DEF Decoded
<1> QED BY <1>1, AlwaysDecoded, PTL

\* Where the layouts agree, a payload decodes to every member that was published, each
\* as its conversions leave it (Arrived), or not at all, and only one that lost bytes is
\* refused.
THEOREM RoundTrip == SameLayouts /\ Spec => []WholeOrNothing
<1>1. Decoded => WholeOrNothing
  BY DEF Decoded
<1> QED BY <1>1, AlwaysDecoded, PTL

=============================================================================
