---------------------------- MODULE BinaryInverse ----------------------------
(***************************************************************************)
(* mp32binv of src/mp32barrett.c: the inverse of x modulo the Barrett    *)
(* modulus by the binary extended gcd, one step per iteration of its     *)
(* loops.  u, v are the gcd remainders and bb, d the Bezout coefficients *)
(* (b and d in the code), each a vector of size + 1 words; the           *)
(* coefficients are read as two's complement numbers.                    *)
(*                                                                         *)
(* With an odd modulus the code starts from u = modl, v = x and adjusts  *)
(* the coefficients by modl; with an even modulus and an odd x it starts *)
(* from u = x, v = modl and adjusts them by x.  Otherwise it returns 0   *)
(* at once.  ret is the return value, None while the call runs.          *)
(***************************************************************************)
EXTENDS Mp32Words

CONSTANTS
  Sizes,         \* sizes of the Barrett context
  Moduli(_),     \* Moduli(s): moduli of s words
  Xs(_, _),      \* Xs(m, s): the operands x (xsize = s) to invert modulo m
  None

VARIABLES size, modl, x, u, v, bb, d, data, ret, pc

vars == <<size, modl, x, u, v, bb, d, data, ret, pc>>

Inputs == <<size, modl, x>>

\* the working vectors have size + 1 words
W1 == size + 1

\* gcd of two naturals, the reference for what the loop computes
RECURSIVE Gcd(_, _)
Gcd(a, c) == IF c = 0 THEN a ELSE Gcd(c, a % c)

\* the value the coefficients are adjusted by: modl, or xdata on the even path
Den == IF Odd(modl) THEN modl ELSE x

\* fault models for Ge: mp32gt in place of mp32ge; the comparison left out
GeStrict(a, c) == a > c

GeAlways(a, c) == TRUE

\* mp32ge(size+1, udata, vdata): unsigned comparison
Ge(a, c) == a >= c

\* mp32sdivtwo: arithmetic shift right of a (size + 1)-word vector
SDivTwo(w) == Wrap(Signed(w, W1) \div 2, W1)

\* fault model for HalfCoef: mp32divtwo (logical shift) in place of mp32sdivtwo
HalfCoefUnsigned(c) == (IF Odd(c) THEN Wrap(c - Den, W1) ELSE c) \div 2

\* the coefficient halved with its remainder: if (odd) mp32subx; mp32sdivtwo
HalfCoef(c) == SDivTwo(IF Odd(c) THEN Wrap(c - Den, W1) ELSE c)

Init ==
  /\ size \in Sizes
  /\ modl \in Moduli(size)
  /\ x \in Xs(modl, size)
  /\ data = 0
  /\ bb = 0
  /\ \/ /\ Odd(modl)
        /\ u = modl /\ v = x /\ d = 1
        /\ ret = None /\ pc = "loop"
     \/ /\ ~Odd(modl) /\ Odd(x)
        /\ u = x /\ v = modl /\ d = 1
        /\ ret = None /\ pc = "loop"
     \/ /\ ~Odd(modl) /\ ~Odd(x)
        /\ u = 0 /\ v = 0 /\ d = 0
        /\ ret = 0 /\ pc = "done"

\* one iteration of: while (mp32even(size+1, udata)) { ... }
HalveU ==
  /\ pc = "loop"
  /\ ~Odd(u)
  /\ u' = u \div 2
  /\ bb' = HalfCoef(bb)
  /\ UNCHANGED <<Inputs, v, d, data, ret, pc>>

\* one iteration of: while (mp32even(size+1, vdata)) { ... }
HalveV ==
  /\ pc = "loop"
  /\ Odd(u) /\ ~Odd(v)
  /\ v' = v \div 2
  /\ d' = HalfCoef(d)
  /\ UNCHANGED <<Inputs, u, bb, data, ret, pc>>

\* fault model for Finish: all size + 1 words of ddata copied and fixed up
FinishWide(dd) == IF MsbSet(dd, W1) THEN Wrap(dd + Den, W1) ELSE dd

\* b->data from ddata: its low size words, plus modl (or x) if ddata < 0
Finish(dd) ==
  LET lo == Wrap(dd, size)
  IN IF MsbSet(dd, W1) THEN Wrap(lo + Den, size) ELSE lo

\* fault model for IsOne: only the low bit tested, as mp32odd does
IsOneOdd(w) == Odd(w)

\* mp32isone(size+1, vdata)
IsOne(w) == w = 1

(***************************************************************************)
(* Both remainders odd: the smaller is subtracted from the larger, the   *)
(* matching coefficient likewise; when u reaches zero the call returns   *)
(* 1 with the inverse in b->data if v is one, and 0 otherwise.          *)
(***************************************************************************)
Subtract ==
  /\ pc = "loop"
  /\ Odd(u) /\ Odd(v)
  /\ LET ge == Ge(u, v)
         nu == IF ge THEN Wrap(u - v, W1) ELSE u
         nv == IF ge THEN v ELSE Wrap(v - u, W1)
         nb == IF ge THEN Wrap(bb - d, W1) ELSE bb
         nd == IF ge THEN d ELSE Wrap(d - bb, W1)
     IN /\ u' = nu /\ v' = nv /\ bb' = nb /\ d' = nd
        /\ IF nu = 0
             THEN /\ pc' = "done"
                  /\ ret' = IF IsOne(nv) THEN 1 ELSE 0
                  /\ data' = IF IsOne(nv) THEN Finish(nd) ELSE data
             ELSE UNCHANGED <<pc, ret, data>>
  /\ UNCHANGED Inputs

Next == HalveU \/ HalveV \/ Subtract

\* a single thread, never blocked: weak fairness; the call returns at "done"
Spec == Init /\ [][Next]_vars /\ WF_vars(Next)

-----------------------------------------------------------------------------
TypeOK ==
  /\ {u, v, bb, d} \subseteq Vec(W1)
  /\ data \in Vec(size)
  /\ ret \in {None, 0, 1}
  /\ pc \in {"loop", "done"}
  /\ (pc = "done") = (ret # None)

\* the number whose inverse the loop builds, modulo Den
Num == IF Odd(modl) THEN x ELSE modl

(***************************************************************************)
(* The Bezout relations the coefficients keep, read as signed numbers of *)
(* size + 1 words: u = bb * Num and v = d * Num modulo Den.  They must     *)
(* survive every halving (mp32subx then mp32sdivtwo) and every           *)
(* subtraction on wrapped (size + 1)-word vectors; when they hold and v  *)
(* ends at 1, d is the inverse of Num modulo Den.                        *)
(***************************************************************************)
Bezout ==
  pc = "loop" =>
    /\ (u - Signed(bb, W1) * Num) % Den = 0
    /\ (v - Signed(d, W1) * Num) % Den = 0

(***************************************************************************)
(* The gcd of the remainders is the gcd of modl and x while the loop    *)
(* runs (a halving never drops a common factor 2), so the call returns 1 *)
(* exactly when x and the modulus are coprime (spec 4.3, invert).        *)
(***************************************************************************)
GcdKept == pc = "loop" => Gcd(u, v) = Gcd(modl, x)

ResultIffCoprime == pc = "done" => (ret = 1 <=> Gcd(modl, x) = 1)

(***************************************************************************)
(* Every call returns: the remainders shrink until u reaches zero.      *)
(***************************************************************************)
Terminates == <>(pc = "done")

(***************************************************************************)
(* The spec (4.3, invert): on success b->data is x^-1 mod modl, the      *)
(* coefficient d sign-corrected into [0, modl).                          *)
(***************************************************************************)
InverseCorrect ==
  pc = "done" /\ ret = 1 => data < modl /\ (data * x) % modl = 1

=============================================================================
