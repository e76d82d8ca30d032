---------------------------- MODULE RandomResidue ----------------------------
(***************************************************************************)
(* The random residues of src/mp32barrett.c: mp32brndres, mp32brndoddres *)
(* and mp32brndinvres, one step per loop iteration.  A draw is one call  *)
(* of rc->rng->next filling size words; the top word is masked to the    *)
(* bit length of the modulus; the result is brought below wksp = modl-1  *)
(* by subtracting wksp (mp32brndoddres sets the low bit after the mask   *)
(* and after each subtraction); a result <= 1 is drawn again.            *)
(* mp32brndinvres draws with mp32brndoddres for an even modulus and with *)
(* mp32brndres otherwise, until mp32binv succeeds; mp32binv's return is  *)
(* taken as "x and modl are coprime" (the ResultIffCoprime run of        *)
(* BinaryInverse).                                                       *)
(***************************************************************************)
EXTENDS Mp32Words

CONSTANTS
  Sizes,        \* sizes of the Barrett context
  Moduli(_)     \* Moduli(s): moduli of s words with a non-zero msw

VARIABLES s, m, kind, result, pc

vars == <<s, m, kind, result, pc>>

Inputs == <<s, m, kind>>

Kinds == {"res", "odd", "inv"}

\* the words a draw can fill, for any size
Draws == UNION {Vec(k) : k \in Sizes}

RECURSIVE BitLen(_)
BitLen(v) == IF v = 0 THEN 0 ELSE 1 + BitLen(v \div 2)

\* mp32mszcnt(size, modl): leading zero bits of the modulus
Msz == s * WBITS - BitLen(m)

\* result[0] &= (0xffffffff >> msz)
Mask(r) == r % 2^(s * WBITS - Msz)

\* mp32brndoddres is used: called directly, or by mp32brndinvres for an even modl
OddDraw == kind = "odd" \/ (kind = "inv" /\ ~Odd(m))

\* mp32setlsb when drawing odd residues
Lsb(r) == IF OddDraw /\ ~Odd(r) THEN r + 1 ELSE r

RECURSIVE Gcd(_, _)
Gcd(a, c) == IF c = 0 THEN a ELSE Gcd(c, a % c)

Init ==
  /\ s \in Sizes
  /\ m \in Moduli(s)
  /\ kind \in Kinds
  /\ result = 0
  /\ pc = "draw"

\* rc->rng->next, the mask, and mp32setlsb for the odd variant
Draw(r) ==
  /\ pc = "draw"
  /\ r \in Vec(s)
  /\ result' = Lsb(Mask(r))
  /\ pc' = "reduce"
  /\ UNCHANGED Inputs

\* fault model for ReduceStep: the modulus subtracted in place of wksp
ReduceStepByModulus ==
  /\ pc = "reduce"
  /\ result >= m - 1
  /\ result' = Lsb(result - m)
  /\ UNCHANGED <<Inputs, pc>>

\* one iteration of: while (mp32ge(result, wksp)) mp32sub(result, wksp)
ReduceStep ==
  /\ pc = "reduce"
  /\ result >= m - 1
  /\ result' = Lsb(result - (m - 1))
  /\ UNCHANGED <<Inputs, pc>>

\* fault model for Accept: mp32leone replaced by mp32z
AcceptNonZero ==
  /\ pc = "reduce"
  /\ result < m - 1
  /\ pc' = IF result = 0 THEN "draw"
           ELSE IF kind = "inv" THEN "inv" ELSE "done"
  /\ UNCHANGED <<Inputs, result>>

\* } while (mp32leone(result)): draw again, or return (or try to invert)
Accept ==
  /\ pc = "reduce"
  /\ result < m - 1
  /\ pc' = IF result <= 1 THEN "draw"
           ELSE IF kind = "inv" THEN "inv" ELSE "done"
  /\ UNCHANGED <<Inputs, result>>

\* fault model for Invert: the loop condition on mp32binv inverted
InvertFlipped ==
  /\ pc = "inv"
  /\ pc' = IF Gcd(result, m) = 1 THEN "draw" ELSE "done"
  /\ UNCHANGED <<Inputs, result>>

\* } while (mp32binv(b, b->size, result) == 0)
Invert ==
  /\ pc = "inv"
  /\ pc' = IF Gcd(result, m) = 1 THEN "done" ELSE "draw"
  /\ UNCHANGED <<Inputs, result>>

Next ==
  \/ \E r \in Draws : Draw(r)
  \/ ReduceStep
  \/ Accept
  \/ Invert

(***************************************************************************)
(* The deterministic steps are taken (weak fairness), and the generator *)
(* does not avoid any word forever: whenever drawing is possible over    *)
(* and over, each word is eventually drawn (strong fairness per word),   *)
(* the way a random source yields every value with probability one.     *)
(***************************************************************************)
Spec ==
  /\ Init /\ [][Next]_vars
  /\ WF_vars(ReduceStep \/ Accept \/ Invert)
  /\ \A r \in Draws : SF_vars(Draw(r))

-----------------------------------------------------------------------------
TypeOK ==
  /\ s \in Sizes /\ m \in Moduli(s) /\ kind \in Kinds
  /\ result \in Vec(s)
  /\ pc \in {"draw", "reduce", "inv", "done"}

(***************************************************************************)
(* What the caller gets: a residue in [2, modl - 2] (the reduction is   *)
(* by modl - 1, and 0 and 1 are drawn again), odd when drawn by          *)
(* mp32brndoddres, and a unit when returned by mp32brndinvres.           *)
(***************************************************************************)
ResultContract ==
  pc = "done" =>
    /\ result \in 2 .. (m - 2)
    /\ OddDraw => Odd(result)
    /\ kind = "inv" => Gcd(result, m) = 1

(***************************************************************************)
(* Every call returns, given a generator that does not avoid a value    *)
(* forever.                                                               *)
(***************************************************************************)
Terminates == <>(pc = "done")

=============================================================================
