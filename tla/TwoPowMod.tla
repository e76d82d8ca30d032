------------------------------ MODULE TwoPowMod ------------------------------
(***************************************************************************)
(* mp32btwopowmod of src/mp32barrett.c: 2^p mod modl, left to right, one *)
(* step per loop iteration: the skip of leading zero words and bits, one *)
(* bit (a squaring, and a modular doubling when the bit is set), and the *)
(* move to the next exponent word, which the code does with if (psize--) *)
(* and therefore also after the last word.                                *)
(*                                                                         *)
(* temp is the exponent word being scanned; a read past the last word   *)
(* of pdata yields any word.  pidx is the index of the next word read.   *)
(***************************************************************************)
EXTENDS Mp32Reduce, Sequences

CONSTANTS
  Sizes,        \* sizes of the Barrett context
  Moduli(_),    \* Moduli(s): moduli of s words
  MaxPsize      \* most words an exponent has

VARIABLES s, m, mu, p, data, temp, count, psize, pidx, pc

vars == <<s, m, mu, p, data, temp, count, psize, pidx, pc>>

Inputs == <<s, m, mu, p>>

ExpWords == UNION {[1 .. k -> Vec(1)] : k \in 0 .. MaxPsize}

\* *(pdata++): the word at pidx, any word once past the end
ReadWord(w) == IF pidx <= Len(p) THEN w = p[pidx] ELSE w \in Vec(1)

\* fault model for Double: the adjusting mp32sub left out
DoubleNoReduce(v) == 2 * v

\* fault model for Double: the carry out of mp32add ignored
DoubleNoCarry(v) ==
  IF Wrap(2 * v, s) >= m THEN Wrap(2 * v - m, s) ELSE Wrap(2 * v, s)

(***************************************************************************)
(* mp32add(data, data), and mp32sub of the modulus when it carried out   *)
(* or the sum is not below the modulus.                                  *)
(***************************************************************************)
Double(v) ==
  IF 2 * v >= Cap(s) \/ Wrap(2 * v, s) >= m THEN Wrap(2 * v - m, s)
                                            ELSE Wrap(2 * v, s)

Init ==
  /\ s \in Sizes
  /\ m \in Moduli(s)
  /\ mu = MuOf(m, s)
  /\ p \in ExpWords
  /\ data = 0
  /\ temp \in IF p = <<>> THEN Vec(1) ELSE {0}
  /\ count = 0
  /\ psize = Len(p)
  /\ pidx = 1
  /\ pc = "start"

\* mp32setw(b->size, b->data, 1)
Start ==
  /\ pc = "start"
  /\ data' = 1
  /\ pc' = "skipword"
  /\ UNCHANGED <<Inputs, temp, count, psize, pidx>>

\* one iteration of: while (psize) { if ((temp = *(pdata++))) break; psize--; }
SkipWord ==
  /\ pc = "skipword"
  /\ IF psize = 0
       THEN /\ pc' = "test"
            /\ UNCHANGED <<temp, pidx, psize>>
       ELSE /\ temp' = p[pidx]
            /\ pidx' = pidx + 1
            /\ IF p[pidx] # 0
                 THEN pc' = "test" /\ UNCHANGED psize
                 ELSE psize' = psize - 1 /\ UNCHANGED pc
  /\ UNCHANGED <<Inputs, data, count>>

\* fault model for Test: count = 31 for 32-bit words
TestShortCount ==
  /\ pc = "test"
  /\ IF temp # 0
       THEN count' = WBITS - 1 /\ pc' = "skipbit"
       ELSE pc' = "done" /\ UNCHANGED count
  /\ UNCHANGED <<Inputs, data, temp, psize, pidx>>

\* if (temp) with count = 32; otherwise the result stays one
Test ==
  /\ pc = "test"
  /\ IF temp # 0
       THEN count' = WBITS /\ pc' = "skipbit"
       ELSE pc' = "done" /\ UNCHANGED count
  /\ UNCHANGED <<Inputs, data, temp, psize, pidx>>

\* one iteration of the skip of leading zero bits
SkipBit ==
  /\ pc = "skipbit"
  /\ IF count = 0 \/ MsbSet(temp, 1)
       THEN pc' = "scan" /\ UNCHANGED <<temp, count>>
       ELSE /\ temp' = Wrap(2 * temp, 1)
            /\ count' = count - 1
            /\ UNCHANGED pc
  /\ UNCHANGED <<Inputs, data, psize, pidx>>

\* one bit: always square; double when the bit is 1
ScanBit ==
  /\ pc = "scan"
  /\ psize > 0 /\ count > 0
  /\ LET sq == SqrModRes(data, m, mu, s)
     IN data' = IF MsbSet(temp, 1) THEN Double(sq) ELSE sq
  /\ temp' = Wrap(2 * temp, 1)
  /\ count' = count - 1
  /\ UNCHANGED <<Inputs, psize, pidx, pc>>

\* if (psize--) { count = 32; temp = *(pdata++); }: psize is non-zero here
NextWord ==
  /\ pc = "scan"
  /\ psize > 0 /\ count = 0
  /\ psize' = psize - 1
  /\ count' = WBITS
  /\ \E w \in Vec(1) : ReadWord(w) /\ temp' = w
  /\ pidx' = pidx + 1
  /\ UNCHANGED <<Inputs, data, pc>>

\* the outer while (psize) ends
Exit ==
  /\ pc = "scan"
  /\ psize = 0
  /\ pc' = "done"
  /\ UNCHANGED <<Inputs, data, temp, count, psize, pidx>>

Next == Start \/ SkipWord \/ Test \/ SkipBit \/ ScanBit \/ NextWord \/ Exit

(***************************************************************************)
(* A single thread that runs to completion: weak fairness.  Every step  *)
(* changes pc or a counter, so ENABLED <<Next>>_vars is pc # "done" and  *)
(* WF_vars(Next) is written out with that predicate.                     *)
(***************************************************************************)
Fairness == []<>(pc = "done") \/ []<><<Next>>_vars

Spec == Init /\ [][Next]_vars /\ Fairness

-----------------------------------------------------------------------------
TypeOK ==
  /\ data \in Vec(s) /\ temp \in Vec(1) /\ count \in 0 .. WBITS
  /\ psize \in 0 .. Len(p) /\ pidx \in Nat \ {0}
  /\ pc \in {"start", "skipword", "test", "skipbit", "scan", "done"}

Abs == INSTANCE PowModSpec
         WITH base <- 2, exp <- ExpValue(p), modulus <- m,
              result <- IF pc = "done" THEN data ELSE 0,
              done <- pc = "done"

\* exponent bits not yet shifted out of temp or still in unread words
\* (none once psize is 0, whatever word was read past the end)
Remaining == IF psize = 0 THEN 0 ELSE count + WBITS * (psize - 1)

(***************************************************************************)
(* The loop invariant of the scan: b->data is 2 to the power of the     *)
(* exponent bits scanned so far, reduced.  A doubling that loses the    *)
(* carry of mp32add, or a bit skipped, breaks it at some later bit.      *)
(***************************************************************************)
DoublingInvariant ==
  pc = "scan" =>
    data = Abs!PowModRef(2, ExpValue(p) \div 2^Remaining, m)

(***************************************************************************)
(* mp32btwopowmod implements the abstract exponentiation with base 2:   *)
(* every call returns, with 2^p mod modl in b->data, whatever word the  *)
(* read past the end of pdata returns.                                   *)
(***************************************************************************)
TwoPowRefines == Abs!Spec

=============================================================================
