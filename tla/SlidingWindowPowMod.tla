------------------------- MODULE SlidingWindowPowMod -------------------------
(***************************************************************************)
(* mp32bpowmod of src/mp32barrett.c, one step per iteration of its loops: *)
(* the skip of leading zero words, the precomputation of the odd powers  *)
(* x^1, x^3, .., x^15, the skip of leading zero bits, the window scan   *)
(* (K = 4) driven by the tables presq / mulg / postsq, the move to the   *)
(* next exponent word, and the flush of a last partial window.           *)
(*                                                                         *)
(* The inputs (size s, modulus m with its mu, base x, exponent words p)  *)
(* are variables fixed by Init.  temp is the exponent word being scanned *)
(* (read before it is written when psize is 0: then any word; otherwise *)
(* overwritten before it is read), pidx the index                      *)
(* of the next word (pdata), n and l the open window and its length.    *)
(***************************************************************************)
EXTENDS Mp32Reduce, Sequences

CONSTANTS
  Sizes,        \* sizes of the Barrett context
  Moduli(_),    \* Moduli(s): moduli of s words
  Bases(_),     \* Bases(s): the base x, at most s words
  MaxPsize      \* most words an exponent has

VARIABLES s, m, mu, x, p,
          data, xpow, temp, count, psize, pidx, n, l, pc

vars == <<s, m, mu, x, p, data, xpow, temp, count, psize, pidx, n, l, pc>>

\* the decode tables mp32bslide_presq, mp32bslide_mulg, mp32bslide_postsq
\* fault model for PresqTable: window 11 given one pre-squaring, not two
PresqTableTypo == << 0, 1, 1, 1, 1, 3, 2, 3, 1, 4, 3, 4, 2, 4, 3, 4 >>
PresqTable  == << 0, 1, 1, 2, 1, 3, 2, 3, 1, 4, 3, 4, 2, 4, 3, 4 >>
MulgTable   == << 0, 0, 0, 1, 0, 2, 1, 3, 0, 4, 2, 5, 1, 6, 3, 7 >>
PostsqTable == << 0, 0, 1, 0, 2, 0, 1, 0, 3, 0, 1, 0, 2, 0, 1, 0 >>

Sqr(v) == SqrModRes(v, m, mu, s)

RECURSIVE SqrTimes(_, _)
SqrTimes(v, k) == IF k = 0 THEN v ELSE SqrTimes(Sqr(v), k - 1)

\* x^(2i+1) from x^(2i-1): x^3 = x * x^2, then one more factor x^2 each
RECURSIVE OddPow(_, _, _, _, _, _)
OddPow(b, x2, i, md, u, sz) ==
  IF i = 1 THEN MulModRes(b, x2, md, u, sz)
  ELSE MulModRes(x2, OddPow(b, x2, i - 1, md, u, sz), md, u, sz)

(***************************************************************************)
(* The precomputation: x^2 into xpow[0], x^3 = x * x^2, then each odd    *)
(* power from the previous one times x^2, and finally x itself copied   *)
(* (not reduced) into xpow[0].                                          *)
(***************************************************************************)
Table(b, md, u, sz) ==
  LET x2 == SqrModRes(b, md, u, sz)
  IN [i \in 0 .. 7 |-> IF i = 0 THEN b ELSE OddPow(b, x2, i, md, u, sz)]

\* presq[k] squarings, one multiply by xpow[mulg[k]], postsq[k] squarings
ApplyWindow(v, k) ==
  SqrTimes(MulModRes(xpow[MulgTable[k + 1]], SqrTimes(v, PresqTable[k + 1]),
                     m, mu, s),
           PostsqTable[k + 1])

ExpWords == UNION {[1 .. k -> Vec(1)] : k \in 0 .. MaxPsize}

Init ==
  /\ s \in Sizes
  /\ m \in Moduli(s)
  /\ mu = MuOf(m, s)
  /\ x \in Bases(s)
  /\ p \in ExpWords
  /\ data = 0
  /\ xpow = [i \in 0 .. 7 |-> 0]
  /\ temp \in IF p = <<>> THEN Vec(1) ELSE {0}
  /\ count = 0
  /\ psize = Len(p)
  /\ pidx = 1
  /\ n = 0 /\ l = 0
  /\ pc = "start"

Inputs == <<s, m, mu, x, p>>

\* mp32setw(size, data, 1)
Start ==
  /\ pc = "start"
  /\ data' = 1
  /\ pc' = "skipword"
  /\ UNCHANGED <<Inputs, xpow, temp, count, psize, pidx, n, l>>

\* one iteration of: while (psize) { if ((temp = *(pdata++))) break; psize--; }
SkipWord ==
  /\ pc = "skipword"
  /\ IF psize = 0
       THEN /\ pc' = "test"
            /\ UNCHANGED <<temp, pidx, psize>>
       ELSE /\ temp' = p[pidx]
            /\ pidx' = pidx + 1
            /\ IF p[pidx] # 0
                 THEN pc' = "test" /\ UNCHANGED psize
                 ELSE psize' = psize - 1 /\ UNCHANGED pc
  /\ UNCHANGED <<Inputs, data, xpow, count, n, l>>

\* if (temp): the table of odd powers, count = 32; otherwise the result stays 1
Test ==
  /\ pc = "test"
  /\ IF temp # 0
       THEN /\ xpow' = Table(x, m, mu, s)
            /\ count' = WBITS
            /\ pc' = "skipbit"
       ELSE /\ pc' = "done"
            /\ UNCHANGED <<xpow, count>>
  /\ UNCHANGED <<Inputs, data, temp, psize, pidx, n, l>>

\* one iteration of the skip of leading zero bits of the first non-zero word
SkipBit ==
  /\ pc = "skipbit"
  /\ IF count = 0 \/ MsbSet(temp, 1)
       THEN pc' = "scan" /\ UNCHANGED <<temp, count>>
       ELSE /\ temp' = Wrap(2 * temp, 1)
            /\ count' = count - 1
            /\ UNCHANGED pc
  /\ UNCHANGED <<Inputs, data, xpow, psize, pidx, n, l>>

\* fault model for ScanBit: a 0 bit outside a window not squared (line 516)
ScanBitNoZeroSqr ==
  /\ pc = "scan"
  /\ psize > 0 /\ count > 0
  /\ LET bit == IF MsbSet(temp, 1) THEN 1 ELSE 0
         n1 == 2 * n + bit
         l1 == IF l # 0 THEN l + 1 ELSE IF bit = 1 THEN 1 ELSE l
     IN IF l1 = 4 /\ n1 # 0
          THEN /\ data' = ApplyWindow(data, n1)
               /\ n' = 0 /\ l' = 0
          ELSE /\ n' = n1 /\ l' = l1
               /\ UNCHANGED data
  /\ temp' = Wrap(2 * temp, 1)
  /\ count' = count - 1
  /\ UNCHANGED <<Inputs, xpow, psize, pidx, pc>>

(***************************************************************************)
(* One bit of the inner loop: the bit is shifted into n; a window opens  *)
(* at the first 1; a window of 4 bits is applied and closed; a 0 with no *)
(* open window is one squaring.                                          *)
(***************************************************************************)
ScanBit ==
  /\ pc = "scan"
  /\ psize > 0 /\ count > 0
  /\ LET bit == IF MsbSet(temp, 1) THEN 1 ELSE 0
         n1 == 2 * n + bit
         l1 == IF l # 0 THEN l + 1 ELSE IF bit = 1 THEN 1 ELSE l
     IN IF n1 # 0
          THEN IF l1 = 4
                 THEN /\ data' = ApplyWindow(data, n1)
                      /\ n' = 0 /\ l' = 0
                 ELSE /\ n' = n1 /\ l' = l1
                      /\ UNCHANGED data
          ELSE /\ data' = Sqr(data)
               /\ n' = n1 /\ l' = l
  /\ temp' = Wrap(2 * temp, 1)
  /\ count' = count - 1
  /\ UNCHANGED <<Inputs, xpow, psize, pidx, pc>>

\* fault model for NextWord: if (psize--) as in mp32btwopowmod, one word more
NextWordPostDec ==
  /\ pc = "scan"
  /\ psize > 0 /\ count = 0
  /\ psize' = psize - 1
  /\ count' = WBITS
  /\ temp' \in Vec(1)
  /\ pidx' = pidx + 1
  /\ UNCHANGED <<Inputs, data, xpow, n, l, pc>>

\* if (--psize) { count = 32; temp = *(pdata++); }
NextWord ==
  /\ pc = "scan"
  /\ psize > 0 /\ count = 0
  /\ psize' = psize - 1
  /\ IF psize - 1 # 0
       THEN /\ count' = WBITS
            /\ temp' = p[pidx]
            /\ pidx' = pidx + 1
       ELSE UNCHANGED <<count, temp, pidx>>
  /\ UNCHANGED <<Inputs, data, xpow, n, l, pc>>

\* after the last word: an open window is applied as it stands
Flush ==
  /\ pc = "scan"
  /\ psize = 0
  /\ data' = IF n # 0 THEN ApplyWindow(data, n) ELSE data
  /\ pc' = "done"
  /\ UNCHANGED <<Inputs, xpow, temp, count, psize, pidx, n, l>>

Next == Start \/ SkipWord \/ Test \/ SkipBit \/ ScanBit \/ NextWord \/ Flush

(***************************************************************************)
(* The call returns at pc = "done"; it runs to completion (spec section  *)
(* 5): a single thread that is never blocked, hence weak fairness.  Every *)
(* step changes pc or a counter, so ENABLED <<Next>>_vars is exactly      *)
(* pc # "done", and WF_vars(Next) is written out with that predicate     *)
(* (TLC evaluates ENABLED of the arithmetic without caching).            *)
(***************************************************************************)
Fairness == []<>(pc = "done") \/ []<><<Next>>_vars

Spec == Init /\ [][Next]_vars /\ Fairness

-----------------------------------------------------------------------------
TypeOK ==
  /\ data \in Vec(s) /\ xpow \in [0 .. 7 -> Vec(s)]
  /\ temp \in Vec(1) /\ count \in 0 .. WBITS
  /\ psize \in 0 .. Len(p) /\ pidx \in 1 .. Len(p) + 1
  /\ n \in 0 .. 15 /\ l \in 0 .. 3
  /\ pc \in {"start", "skipword", "test", "skipbit", "scan", "done"}

\* the promise of the call, with the detailed state mapped onto it
Abs == INSTANCE PowModSpec
         WITH base <- x, exp <- ExpValue(p), modulus <- m,
              result <- IF pc = "done" THEN data ELSE 0,
              done <- pc = "done"

\* exponent bits not yet shifted out of temp or still in unread words
Remaining == count + WBITS * (IF psize > 0 THEN psize - 1 ELSE 0)

\* the value of the exponent bits already scanned
Scanned == ExpValue(p) \div 2^Remaining

(***************************************************************************)
(* The loop invariant of the window scan: the l bits of the open window  *)
(* are exactly the low bits of what was scanned, and b->data holds x to *)
(* the power of the scanned bits without them.  A squaring skipped for a *)
(* 0 bit outside a window (line 516), or a window closed a bit early or  *)
(* late, breaks it at a later bit of the same exponent.                 *)
(***************************************************************************)
WindowInvariant ==
  pc = "scan" =>
    /\ n = Scanned % 2^l
    /\ data = Abs!PowModRef(x, Scanned \div 2^l, m)

(***************************************************************************)
(* mp32bpowmod implements the abstract exponentiation: every call ends,  *)
(* and ends with b->data = x^p mod m, for every exponent including zero, *)
(* leading zero words, windows that straddle words, and a partial window *)
(* applied after a full one, whose presq, mulg and postsq entries then   *)
(* act on a value other than 1.                                          *)
(***************************************************************************)
PowModRefines == Abs!Spec

=============================================================================
