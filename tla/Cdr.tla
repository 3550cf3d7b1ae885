---------------------------------- MODULE Cdr ----------------------------------
(***************************************************************************)
(* CDR serialization: one message goes through a Writer (the C++           *)
(* talos::cdr::Writer or the Python _CdrWriter), the payload is delivered, *)
(* whole or cut short, and goes through a Reader (C++ or CdrReader).       *)
(* A message type is a layout: the sequence of primitives its Write        *)
(* function emits, where a list is a count followed by that many copies of *)
(* its element's layout.  Both sides walk their own layout with a cursor   *)
(* into the bytes; a step is one primitive.  What is published and what    *)
(* the wire carries are two things: a Python number is masked, narrowed or *)
(* refused on the way out, a Python text replaces what is not UTF-8 on the *)
(* way in.                                                                 *)
(***************************************************************************)
EXTENDS Integers, Sequences

CONSTANTS
  Lang,        \* the implementations, C++ and Python
  Py,          \* those whose numbers have any width and whose texts are decoded
  Writes,      \* Writes[l][t]: the layout the writers of l use
  Reads,       \* Reads[l][t]: the layout the readers of l use
  Publishes,   \* Publishes[l]: the types l can write
  Subscribes,  \* Subscribes[l]: the types l can read
  Samples,     \* Samples[i]: what is tried as the content of primitive number
               \* i, modulo Len(Samples)
  MaxLength,   \* the longest string or list; a length + 1 must fit in a uint32
  Cuts         \* by how many bytes a delivered payload may be short

Byte == 0..255
Word == {"w1", "bool", "w2", "w4", "w8"}
Width == [w1 |-> 1, bool |-> 1, w2 |-> 2, w4 |-> 4, w8 |-> 8]

\* One entry of a layout: a primitive, or the count of a list of names.
Op(names) ==
  [tag : {"put"}, name : Word \cup {"text"}, path : Seq(STRING)]
    \cup [tag : {"seq"}, name : names, path : Seq(STRING)]

\* A word is aligned to its size, a string and a list to their uint32 length.
IsWord(op) == op.tag = "put" /\ op.name \in Word
Alignment(op) == IF IsWord(op) THEN Width[op.name] ELSE 4

\* A word is tried as nine bytes, little-endian: a Python int may be wider than the
\* member it is assigned to, and a Python float holds more than the four bytes of the
\* nearest f32, here in front of what narrowing drops.
Sample ==
  [word : SUBSET [1..9 -> Byte],
   text : SUBSET {s \in Seq(Byte) : Len(s) <= MaxLength},
   count : SUBSET (0..MaxLength)]

ASSUME PyAssumption == Py \subseteq Lang
ASSUME LengthAssumption ==
  MaxLength \in Nat /\ (((MaxLength + 1) \div 256) \div 256) \div 256 < 256
ASSUME LayoutAssumption ==
  \A l \in Lang :
    /\ Publishes[l] \subseteq DOMAIN Writes[l]
    /\ Subscribes[l] \subseteq DOMAIN Reads[l]
    /\ \A t \in DOMAIN Writes[l] : Writes[l][t] \in Seq(Op(DOMAIN Writes[l]))
    /\ \A t \in DOMAIN Reads[l] : Reads[l][t] \in Seq(Op(DOMAIN Reads[l]))
    /\ \A t \in DOMAIN Writes[l] : Writes[l][t] # <<>>
    /\ \A t \in DOMAIN Reads[l] : Reads[l][t] # <<>>
ASSUME SampleAssumption == Samples \in Seq(Sample) /\ Len(Samples) > 0
ASSUME CutsAssumption == Cuts \subseteq Nat

VARIABLES
  type, enc, dec,  \* the message's type, the writing and the reading language
  phase,           \* "write", then "raised" or "read", then "done" or "error"
  wtodo, buf,      \* what the writer has still to emit, and Writer::buf_
  trail,           \* what it has emitted: each primitive as published and on the wire
  len,             \* the length of the payload the reader is given
  rtodo, pos,      \* what the reader has still to take, and Reader::pos_
  got              \* what it has taken, as the message it returns holds it

vars == <<type, enc, dec, phase, wtodo, buf, trail, len, rtodo, pos, got>>
wvars == <<type, enc, wtodo, buf, trail>>
rvars == <<dec, len, rtodo, pos, got>>

-----------------------------------------------------------------------------
kEncapsulationHeaderSize == 4
kCdrLeHeader == <<0, 1, 0, 0>>

\* Variant with a bug: alignment counts from the first byte of the buffer.
AlignFromStart(n, at) == (n - (at % n)) % n

\* The padding either side puts in front of a word of n bytes at offset at:
\* alignment counts from the end of the encapsulation header.
WriterAlign(n, at) == (n - ((at - kEncapsulationHeaderSize) % n)) % n

ReaderAlign(n, at) == (n - ((at - kEncapsulationHeaderSize) % n)) % n

\* uint32 to and from its little-endian bytes.
LittleEndian(n) ==
  LET hi(m) == m \div 256
  IN <<n % 256, hi(n) % 256, hi(hi(n)) % 256, hi(hi(hi(n))) % 256>>
Value(b) == b[1] + 256 * (b[2] + 256 * (b[3] + 256 * b[4]))

\* n copies of layout s.
Repeat(n, s) == [i \in 1..(n * Len(s)) |-> s[((i - 1) % Len(s)) + 1]]

-----------------------------------------------------------------------------
(* Words.  What is published as op when s is tried: a C++ member has op's width    *)
(* already.  Encoded is what is written of it: a bool's truth, a number's low      *)
(* bytes (v & 0xFF..., struct.pack).                                               *)
Published(op, s) ==
  IF enc \in Py THEN s
  ELSE IF op.name = "bool" THEN <<s[1] % 2>> ELSE SubSeq(s, 1, Width[op.name])

IsTrue(x) == \E i \in DOMAIN x : x[i] # 0
Encoded(op, x) ==
  IF op.name = "bool" THEN <<IF IsTrue(x) THEN 1 ELSE 0>> ELSE SubSeq(x, 1, Width[op.name])

\* A number that n bytes hold in two's complement; a float that four hold.
Fits(n, x) == \A i \in (n + 1)..Len(x) : x[i] = IF x[n] < 128 THEN 0 ELSE 255

(* Texts.  The bytes of a std::string may be any; those of a Python str are UTF-8. *)
Cont == 128..191

\* How many bytes a character that starts with byte b has, and what its second may be:
\* no overlong form, no surrogate, nothing behind U+10FFFF.
Size(b) ==
  IF b < 128 THEN 1 ELSE IF b \in 194..223 THEN 2
  ELSE IF b \in 224..239 THEN 3 ELSE IF b \in 240..244 THEN 4 ELSE 0
Second(b) ==
  CASE b = 224 -> 160..191 [] b = 237 -> 128..159
    [] b = 240 -> 144..191 [] b = 244 -> 128..143 [] OTHER -> Cont

Char(s, j) ==
  LET n == Size(s[j]) IN
  /\ n > 0 /\ j + n - 1 <= Len(s)
  /\ n > 1 => s[j + 1] \in Second(s[j])
  /\ \A i \in (j + 2)..(j + n - 1) : s[i] \in Cont
WellFormed(s, i) == \E j \in 1..i : Char(s, j) /\ i < j + Size(s[j])
Utf8(s) == \A i \in DOMAIN s : WellFormed(s, i)

\* What a reader of language l makes of the bytes of a text: errors="replace" puts
\* U+FFFD for what is ill-formed.  One mark a byte stands for the one that CPython
\* puts for the longest start of a character.
Replacement == 65533
Decode(l, s) ==
  [i \in DOMAIN s |-> IF l \in Py /\ ~WellFormed(s, i) THEN Replacement ELSE s[i]]
Returned(l, op, v) == IF op.tag = "put" /\ op.name = "text" THEN Decode(l, v) ELSE v

-----------------------------------------------------------------------------
Init ==
  /\ enc \in Lang
  /\ type \in Publishes[enc]
  /\ wtodo = Writes[enc][type]
  /\ buf = kCdrLeHeader
  /\ trail = <<>>
  /\ phase = "write"
  /\ dec = enc /\ len = 0 /\ rtodo = <<>> /\ pos = 0 /\ got = <<>>

Tried == Samples[(Len(trail) % Len(Samples)) + 1]

\* The buffer after Align(Len(v)) and the bytes v.
Aligned(n) == buf \o [i \in 1..WriterAlign(n, Len(buf)) |-> 0]

\* x, published as op, is emitted as v: the bytes b follow the padding to n, todo is
\* left.
Emit(op, x, v, n, b, todo) ==
  /\ buf' = Aligned(n) \o b
  /\ trail' = Append(trail, [op |-> op, src |-> x, val |-> v, at |-> Len(Aligned(n)),
                             end |-> Len(Aligned(n)) + Len(b), todo |-> todo])
  /\ wtodo' = todo
  /\ UNCHANGED <<type, enc, phase, rvars>>

Writing(tag) == phase = "write" /\ wtodo # <<>> /\ Head(wtodo).tag = tag

\* A word of 1, 2, 4 or 8 bytes: signed, unsigned and floating-point ones are alike.
WriteWord ==
  /\ Writing("put") /\ Head(wtodo).name \in Word
  /\ LET op == Head(wtodo)
         n == Width[op.name]
     IN \E s \in Tried.word :
          LET x == Published(op, s)
              v == Encoded(op, x)
          IN Emit(op, x, v, n, v, Tail(wtodo))

\* A Python number its member does not hold: struct.pack raises for a signed word and
\* for a float, and publish with it.  (An unsigned one is masked by WriteWord; which of
\* the two a member gets is left open here, since a layout knows its width only.)  So
\* does encode for a str that has no UTF-8 form.
Raise ==
  /\ enc \in Py /\ Writing("put")
  /\ \/ /\ Head(wtodo).name \in {"w2", "w4", "w8"}
        /\ \E s \in Tried.word : ~Fits(Width[Head(wtodo).name], s)
     \/ /\ Head(wtodo).name = "text"
        /\ \E s \in Tried.text : ~Utf8(s)
  /\ phase' = "raised"
  /\ UNCHANGED <<wvars, rvars>>

\* A string: its size plus one, its bytes and a NUL.  The bytes of a Python str are
\* what encode("utf-8") makes of it.
WriteText ==
  /\ Writing("put") /\ Head(wtodo).name = "text"
  /\ \E s \in Tried.text :
       /\ enc \in Py => Utf8(s)
       /\ Emit(Head(wtodo), s, s, 4, LittleEndian(Len(s) + 1) \o s \o <<0>>, Tail(wtodo))

\* A vector: its size, after which its elements are emitted one by one.
WriteCount ==
  /\ Writing("seq")
  /\ \E n \in Tried.count :
       Emit(Head(wtodo), <<n>>, <<n>>, 4, LittleEndian(n),
            Repeat(n, Writes[enc][Head(wtodo).name]) \o Tail(wtodo))

-----------------------------------------------------------------------------
\* Variant with a bug: the reader starts on the header.
DeliverUnskipped ==
  /\ phase = "write" /\ wtodo = <<>>
  /\ \E d \in Lang, c \in Cuts :
       /\ type \in Subscribes[d] /\ c <= Len(buf)
       /\ dec' = d
       /\ len' = Len(buf) - c
       /\ phase' = IF len' < kEncapsulationHeaderSize THEN "error" ELSE "read"
       /\ rtodo' = Reads[d][type]
       /\ pos' = 0
       /\ got' = <<>>
  /\ UNCHANGED wvars

\* The bytes reach a reader of language d, the last c of them lost; the Reader's
\* constructor refuses a payload shorter than the header.
Deliver ==
  /\ phase = "write" /\ wtodo = <<>>
  /\ \E d \in Lang, c \in Cuts :
       /\ type \in Subscribes[d] /\ c <= Len(buf)
       /\ dec' = d
       /\ len' = Len(buf) - c
       /\ phase' = IF len' < kEncapsulationHeaderSize THEN "error" ELSE "read"
       /\ rtodo' = Reads[d][type]
       /\ pos' = kEncapsulationHeaderSize
       /\ got' = <<>>
  /\ UNCHANGED wvars

\* Variant with a bug: one byte too many is taken for available.
EnsureAvailOrOne(p, k) == p + k <= len + 1

\* Where a word of n bytes starts for the reader; whether k bytes at p are there.
Start(n) == pos + ReaderAlign(n, pos)

EnsureAvail(p, k) == p + k <= len

Bytes(p, k) == SubSeq(buf, p + 1, p + k)

Take(op, v, p, todo) ==
  /\ got' = Append(got, [op |-> op, val |-> v])
  /\ pos' = p
  /\ rtodo' = todo
  /\ UNCHANGED <<wvars, dec, len, phase>>

Reading(tag) == phase = "read" /\ rtodo # <<>> /\ Head(rtodo).tag = tag

ReadWord ==
  /\ Reading("put") /\ Head(rtodo).name \in Word
  /\ LET op == Head(rtodo)
         n == Width[op.name]
         v == Bytes(Start(n), n)
     IN /\ EnsureAvail(Start(n), n)
        /\ Take(op, IF op.name = "bool" THEN <<IF v[1] = 0 THEN 0 ELSE 1>> ELSE v,
                Start(n) + n, Tail(rtodo))

ReadText ==
  /\ Reading("put") /\ Head(rtodo).name = "text"
  /\ LET p == Start(4)
         n == Value(Bytes(p, 4))
     IN /\ EnsureAvail(p, 4)
        /\ IF n = 0 THEN Take(Head(rtodo), <<>>, p + 4, Tail(rtodo))
                    ELSE /\ EnsureAvail(p + 4, n)
                         /\ Take(Head(rtodo), Decode(dec, Bytes(p + 4, n - 1)), p + 4 + n,
                                 Tail(rtodo))

\* A count with fewer bytes behind it than elements ends in an underrun, since an
\* element takes a byte at least; the steps up to it are left out (and C++'s resize to
\* the count before it: a payload cut short holds no count that was not written).
ReadCount ==
  /\ Reading("seq")
  /\ LET p == Start(4)
         n == Value(Bytes(p, 4))
     IN /\ EnsureAvail(p, 4)
        /\ EnsureAvail(p + 4, n)
        /\ Take(Head(rtodo), <<n>>, p + 4,
                Repeat(n, Reads[dec][Head(rtodo).name]) \o Tail(rtodo))

\* EnsureAvail throws: the reader is abandoned, and with it the partial message.
Underrun ==
  /\ phase = "read" /\ rtodo # <<>>
  /\ LET n == Alignment(Head(rtodo))
     IN ~ /\ EnsureAvail(Start(n), n)
          /\ \/ IsWord(Head(rtodo))
             \/ EnsureAvail(Start(4) + 4, Value(Bytes(Start(4), 4)))
  /\ phase' = "error"
  /\ UNCHANGED <<wvars, rvars>>

Finish ==
  /\ phase = "read" /\ rtodo = <<>>
  /\ phase' = "done"
  /\ UNCHANGED <<wvars, rvars>>

Terminated == phase \in {"raised", "done", "error"} /\ UNCHANGED vars

Next ==
  \/ WriteWord \/ Raise \/ WriteText \/ WriteCount \/ Deliver
  \/ ReadWord \/ ReadText \/ ReadCount \/ Underrun \/ Finish
  \/ Terminated

Spec == Init /\ [][Next]_vars

-----------------------------------------------------------------------------
\* Type invariant: the buffer is bytes behind the header, the reader stands between
\* the header and the end of what it was given, the cursors are layouts.
CdrTypeOK ==
  /\ enc \in Lang /\ dec \in Lang /\ type \in Publishes[enc]
  /\ phase \in {"write", "raised", "read", "done", "error"}
  /\ wtodo \in Seq(Op(DOMAIN Writes[enc]))
  /\ buf \in Seq(Byte) /\ Len(buf) >= kEncapsulationHeaderSize
  /\ trail \in Seq([op : Op(DOMAIN Writes[enc]), src : Seq(Nat), val : Seq(Nat),
                   at : Nat, end : Nat, todo : Seq(Op(DOMAIN Writes[enc]))])
  /\ len \in 0..Len(buf)
  /\ rtodo \in Seq(Op(DOMAIN Reads[dec]))
  /\ pos \in Nat /\ (phase = "read" => pos >= kEncapsulationHeaderSize /\ pos <= len)
  /\ got \in Seq([op : Op(DOMAIN Reads[dec]), val : Seq(Nat)])

\* What the writer has emitted, as the reader returns it, and where the writer stood
\* after k primitives.
Emitted(k) ==
  [i \in 1..k |->
     [op |-> trail[i].op, val |-> Returned(dec, trail[i].op, trail[i].val)]]
End(k) == IF k = 0 THEN kEncapsulationHeaderSize ELSE trail[k].end
Left(k) == IF k = 0 THEN Writes[enc][type] ELSE trail[k].todo

\* A reader that has taken k primitives has taken the writer's first k, member by
\* member and value by value, and stands where the writer stood then with the same
\* layout before it: no padding, count or string length can put the two out of step
\* (Align and the Read/Write overloads of serialization.h, cdr.py and runtime.py).
InStep ==
  phase = "read" =>
    LET k == Len(got) IN
    /\ k <= Len(trail)
    /\ got = Emitted(k) /\ pos = End(k) /\ rtodo = Left(k)

\* v is what may come back for entry e of the trail: a number's low bytes, so the number
\* itself where its member holds it, otherwise modulo 2^8n or the nearest f32; the truth
\* of a bool; a text as it was, unless it is not UTF-8 and a Python reader returns it.
Arrived(e, v) ==
  /\ IsWord(e.op) /\ e.op.name # "bool" => v = SubSeq(e.src, 1, Width[e.op.name])
  /\ IsWord(e.op) /\ e.op.name = "bool" => v = <<IF IsTrue(e.src) THEN 1 ELSE 0>>
  /\ e.op.tag = "put" /\ ~IsWord(e.op) =>
       (v = e.src <=> dec \notin Py \/ Utf8(e.src))
  /\ e.op.tag = "seq" => v = e.src

\* A message comes back whole, member for member what was published up to the
\* conversions of Arrived and with every byte of the payload consumed, or not at all:
\* a payload cut short anywhere, the empty one included, never decodes, and one that
\* arrives whole is never refused (serialization.h:167, cdr.py:36).
WholeOrNothing ==
  /\ phase = "done" =>
       /\ Len(got) = Len(trail)
       /\ \A i \in 1..Len(trail) :
            got[i].op = trail[i].op /\ Arrived(trail[i], got[i].val)
       /\ len = Len(buf) /\ pos = len
  /\ phase = "error" => len < Len(buf)

\* Every word of n bytes starts at a multiple of n counted from the end of the
\* encapsulation header: "primitives follow standard CDR alignment relative to the
\* 4-byte encapsulation header" (cdr.py:4-5), whatever strings precede it.
StandardAlignment ==
  \A i \in DOMAIN trail :
    (trail[i].at - kEncapsulationHeaderSize) % Alignment(trail[i].op) = 0

-----------------------------------------------------------------------------
\* What the theorems about reading suppose.  Either side names a type's layout on its
\* own; where the two agree on all of them, the bytes written come back as values.
SameLayouts ==
  \A e, d \in Lang : \A t \in DOMAIN Writes[e] \cap DOMAIN Reads[d] :
    Writes[e][t] = Reads[d][t]
=============================================================================
