------------------------------- MODULE HashJen -------------------------------
(***************************************************************************)
(* HASH_JEN of src/contrib/uthash/uthash.h, the function that uthash takes *)
(* when no other is chosen, for the keys of server->session_hash: a        *)
(* descriptor, an int of four bytes. Its words of 32 bits, whose arithmetic *)
(* is modulo 2^32, are pairs of halves <<high, low>>.                      *)
(***************************************************************************)
EXTENDS Integers

Half == 65536

Plus(x, y) ==
  LET low == x[2] + y[2]
  IN  <<(x[1] + y[1] + low \div Half) % Half, low % Half>>

Minus(x, y) ==
  LET low == x[2] - y[2]
  IN  <<(x[1] - y[1] + low \div Half) % Half, low % Half>>

\* ^ of two halves, bit by bit from the lowest.
HalfXor(x, y) ==
  LET Bit(z, n) == (z \div 2^(n - 1)) % 2
      bits[n \in 0 .. 16] ==
        IF n = 0 THEN 0 ELSE bits[n - 1] + 2^(n - 1) * ((Bit(x, n) + Bit(y, n)) % 2)
  IN  bits[16]

Xor(x, y) == <<HalfXor(x[1], y[1]), HalfXor(x[2], y[2])>>

\* Shifts by at most the width of a half.
Left(x, n) ==
  <<(x[1] % 2^(16 - n)) * 2^n + x[2] \div 2^(16 - n), (x[2] % 2^(16 - n)) * 2^n>>

Right(x, n) ==
  <<x[1] \div 2^n, x[2] \div 2^n + (x[1] % 2^n) * 2^(16 - n)>>

\* Three lines of HASH_JEN_MIX, with their shifts.
MixRow(w, shift) ==
  LET a == Xor(Minus(Minus(w.a, w.b), w.c), Right(w.c, shift[1]))
      b == Xor(Minus(Minus(w.b, w.c), a), Left(a, shift[2]))
      c == Xor(Minus(Minus(w.c, a), b), Right(b, shift[3]))
  IN  [a |-> a, b |-> b, c |-> c]

HashJenMix(w) ==
  MixRow(MixRow(MixRow(w, <<13, 8, 13>>), <<12, 16, 5>>), <<3, 10, 15>>)

\* A key of four bytes, which the switch adds to the first word one by one.
HashJen(key) ==
  LET golden == <<40503, 31161>>  \* 0x9e3779b9
  IN  HashJenMix([a |-> Plus(golden, key), b |-> golden,
                  c |-> Plus(<<65261, 48879>>, <<0, 4>>)]).c  \* 0xfeedbeef

\* What HASH_TO_BKT looks at: there are fewer buckets than a half has values.
HashOfDescriptor(fd) == HashJen(<<0, fd>>)[2]
=============================================================================
