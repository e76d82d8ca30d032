----------------------------- MODULE Mp32Words -----------------------------
(***************************************************************************)
(* The word-vector representation shared by the mp32 modules.  A vector  *)
(* of n words (uint32 in the code, most significant word first) is       *)
(* modelled by the natural number it denotes, below Cap(n).  The word    *)
(* width is the constant WBITS, small in the models; every operation    *)
(* that drops a carry or a borrow in the code is taken modulo Cap(n).    *)
(***************************************************************************)
EXTENDS Integers, Sequences

CONSTANT WBITS          \* bits per word (32 in the code)

ASSUME WBITS \in Nat \ {0}

\* b, the radix of one word
Radix == 2^WBITS

\* b^n: an n-word vector holds 0 .. Cap(n) - 1
Cap(n) == Radix^n

Vec(n) == 0 .. (Cap(n) - 1)

\* word i of v, counting from the least significant word (index 0)
WordAt(v, i) == (v \div Radix^i) % Radix

\* the top bit of the most significant word of an n-word vector
\* (the tests "x & 0x80000000" on its first word)
MsbSet(v, n) == v >= Cap(n) \div 2

\* an n-word vector read as a two's complement number
Signed(v, n) == IF MsbSet(v, n) THEN v - Cap(n) ELSE v

\* the n-word vector holding integer i, carries and borrows dropped
Wrap(i, n) == i % Cap(n)

Odd(v) == v % 2 = 1

\* a word sequence q (most significant word first) as a number
RECURSIVE ExpValue(_)
ExpValue(q) ==
  IF q = <<>> THEN 0 ELSE ExpValue(SubSeq(q, 1, Len(q) - 1)) * Radix + q[Len(q)]

=============================================================================
