----------------------------- MODULE Mp32Reduce -----------------------------
(***************************************************************************)
(* Barrett reduction as done by src/mp32barrett.c: the constant mu of     *)
(* mp32bmu and the reduction mp32bmodres of a 2 size-word operand, with  *)
(* the products mp32bmulmodres and mp32bsqrmodres built on it.  Pure     *)
(* operators, shared by the context and the exponentiation modules.      *)
(***************************************************************************)
EXTENDS Mp32Words, Functions

\* fault model for MuOf: a dividend one word short, b^(2 size - 1)
MuOfShortDividend(m, s) == (Cap(2 * s - 1) \div m) % Cap(s + 1)

(***************************************************************************)
(* mp32bmu: mu = floor(b^(2 size) / modl).  The modulus is normalised and *)
(* the quotient of 2^shift * b^(2 size) by it taken; the quotient has    *)
(* size+2 words, of which mu keeps the low size+1 (the top word lands in *)
(* the spare word of modl).  Normalising and de-normalising cancel.      *)
(***************************************************************************)
MuOf(m, s) == (Cap(2 * s) \div m) % Cap(s + 1)

(***************************************************************************)
(* mp32bmodres, first loop: the high part of q1 * mu.  q1 is x divided  *)
(* by b^(size-1); its word k (from the lsw) is multiplied with the top   *)
(* sp = min(k+2, size+1) words of mu (mp32setmul/mp32addmul over sp      *)
(* words), every product aligned on the same low word except the last,  *)
(* which is one word higher.  q3 is the window without its two low words.*)
(***************************************************************************)
SpOf(k, s) == IF k + 2 <= s + 1 THEN k + 2 ELSE s + 1

MuTop(u, s, sp) == u \div Radix^(s + 1 - sp)

PartialTerm(x, u, s, k) ==
  WordAt(x \div Cap(s - 1), k) * MuTop(u, s, SpOf(k, s))
    * (IF k = s THEN Radix ELSE 1)

Q3(x, u, s) ==
  (SumFunction([k \in 0 .. s |-> PartialTerm(x, u, s, k)]) \div Radix^2)
    % Cap(s + 1)

(***************************************************************************)
(* mp32bmodres, second part: r = (x - q3 * modl) mod b^(size+1) (the     *)
(* product is only formed on its low size+1 words), then the modulus is *)
(* subtracted while r >= modl.  RemOf is the value of r before the loop, *)
(* the loop leaves RemOf % m after RemOf \div m subtractions.            *)
(***************************************************************************)
RemOf(x, m, u, s) ==
  Wrap(Wrap(x, s + 1) - Wrap(Q3(x, u, s) * m, s + 1), s + 1)

ModRes(x, m, u, s) == RemOf(x, m, u, s) % m

SubsOf(x, m, u, s) == RemOf(x, m, u, s) \div m

\* mp32bmulmodres: x * y zero-filled to 2 size words, then mp32bmodres
MulModRes(x, y, m, u, s) == ModRes(x * y, m, u, s)

\* mp32bsqrmodres (and mp32bnsqrmodres): x * x, then mp32bmodres
SqrModRes(x, m, u, s) == ModRes(x * x, m, u, s)

=============================================================================
