-------------------------------- MODULE MCCodec --------------------------------
(* Every shipped message type through every pair of implementations.  The first
   primitives of a message get strings of every length modulo 8, so that whatever
   follows is met at every alignment, and strings beyond ASCII, well-formed and not;
   later ones get one string and one count. *)
EXTENDS MessageSchemas, Cdr

MCLang == {"cpp", "py"}
MCPy == {"py"}
MCWrites == WriteLayouts
MCReads == ReadLayouts
MCPublishes == Publishable
MCSubscribes == Subscribable

\* Nine bytes that differ from each other and from one sample to the next, a number too
\* wide for any member; the fourth sample is zero and the sixth is -2, which fit.
MCWord(i) ==
  [j \in 1..9 |-> IF i = 4 THEN 0 ELSE IF i = 6 THEN IF j = 1 THEN 254 ELSE 255
                 ELSE (37 * i + 11 * j) % 256]
MCText(i, n) == [j \in 1..n |-> (13 * i + j) % 128]
\* A character of two bytes and one of three; one that is cut short.
MCBeyondAscii == {<<195, 169>>, <<65, 226, 130, 172>>, <<226, 130, 65>>}
MCSamples ==
  [i \in 1..7 |->
     [word |-> {MCWord(i)},
      text |-> IF i \in {1, 2, 3} THEN {MCText(i, n) : n \in 0..7}
                                                   \cup IF i = 2 THEN {} ELSE MCBeyondAscii
               ELSE {MCText(i, i % 4)},
      count |-> IF i = 1 THEN 0..2 ELSE {i % 3}]]

\* The repository's own layouts agree.
ASSUME SameLayouts
===============================================================================
