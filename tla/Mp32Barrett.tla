---------------------------- MODULE Mp32Barrett ----------------------------
(***************************************************************************)
(* The Barrett context of src/mp32barrett.c: its lifecycle (mp32bzero,    *)
(* mp32binit, mp32bset, mp32bfree) and the arithmetic that goes through  *)
(* the reduction mp32bmodres (mp32bmod, mp32baddmod, mp32bsubmod,         *)
(* mp32bmulmod, mp32bsqrmod) together with mp32bneg and mp32bmodsubone.  *)
(*                                                                         *)
(* The context keeps size, the modulus modl, the constant mu and the     *)
(* result buffer b->data; mem says whether the combined calloc'd buffer  *)
(* exists.  want is the reference value of the last operation, subs the  *)
(* number of times the final loop of mp32bmodres subtracted the modulus. *)
(***************************************************************************)
EXTENDS Mp32Reduce

CONSTANTS
  Sizes,            \* word lengths a caller may pass to mp32binit/mp32bset
  Moduli(_),        \* Moduli(s): moduli of s words with a non-zero msw
  Operands(_, _),   \* Operands(m, s): values passed as x, y to the mod ops
  AllocOutcomes,    \* the results calloc may have: TRUE ok, FALSE failed
  None

ASSUME Sizes \subseteq Nat \ {0}
ASSUME AllocOutcomes \subseteq BOOLEAN /\ AllocOutcomes # {}

VARIABLES size, mem, modl, mu, data, want, subs

vars == <<size, mem, modl, mu, data, want, subs>>

Ready == mem /\ modl # 0

\* every operation that ends in mp32bmodres writes b->data and counts subs
Reduce(opnd, ref) ==
  /\ data' = ModRes(opnd, modl, mu, size)
  /\ subs' = SubsOf(opnd, modl, mu, size)
  /\ want' = ref
  /\ UNCHANGED <<size, mem, modl, mu>>

-----------------------------------------------------------------------------
(* mp32bzero: the empty context *)
Init ==
  /\ size = 0
  /\ mem = FALSE
  /\ modl = 0 /\ mu = 0 /\ data = 0
  /\ want = None
  /\ subs = 0

(* mp32binit: size is stored before calloc, the buffer is zeroed *)
BInit(s) ==
  /\ size' = s
  /\ mem' \in AllocOutcomes
  /\ modl' = 0 /\ mu' = 0 /\ data' = 0
  /\ want' = None /\ subs' = 0

(* mp32bfree: releases the buffer if any (without wiping it), clears size *)
BFree ==
  /\ size' = 0
  /\ mem' = FALSE
  /\ modl' = 0 /\ mu' = 0 /\ data' = 0
  /\ want' = None /\ subs' = 0

(***************************************************************************)
(* mp32bset: frees a previous buffer, and for a non-zero size initialises *)
(* the context, copies the modulus and computes mu when calloc succeeded.*)
(* For size 0 only the free happens (and size is kept when there was no *)
(* buffer to free).                                                      *)
(***************************************************************************)
BSet(s, m) ==
  /\ want' = None /\ subs' = 0
  /\ IF s = 0
       THEN /\ size' = IF mem THEN 0 ELSE size
            /\ mem' = FALSE
            /\ modl' = 0 /\ mu' = 0 /\ data' = 0
       ELSE \E ok \in AllocOutcomes :
              /\ size' = s
              /\ mem' = ok
              /\ modl' = IF ok THEN m ELSE 0
              /\ mu' = IF ok THEN MuOf(m, s) ELSE 0
              /\ data' = 0

(* mp32bmod: x (up to 2 size words) padded to 2 size words and reduced *)
BMod(x) ==
  /\ Ready
  /\ Reduce(x, x % modl)

(* mp32baddmod: x + y formed on 2 size words, then reduced *)
BAddMod(x, y) ==
  /\ Ready
  /\ Reduce(Wrap(x + y, 2 * size), (x + y) % modl)

\* fault model for BSubMod: the borrow of mp32subx ignored
BSubModNoFixup(x, y) ==
  /\ Ready
  /\ Reduce(Wrap(x - y, 2 * size), (x - y) % modl)

(* mp32bsubmod: x - y on 2 size words; on a borrow the modulus is added *)
BSubMod(x, y) ==
  /\ Ready
  /\ LET d == Wrap(x - y, 2 * size)
         opnd == IF x < y THEN Wrap(d + modl, 2 * size) ELSE d
     IN Reduce(opnd, (x - y) % modl)

(* mp32bmulmodres into b->data (mp32bmulmod): zero-filled product, reduced *)
BMulMod(x, y) ==
  /\ Ready
  /\ Reduce(x * y, (x * y) % modl)

(* mp32bsqrmodres into b->data (mp32bsqrmod) *)
BSqrMod(x) ==
  /\ Ready
  /\ Reduce(x * x, (x * x) % modl)

\* fault model for BNeg: the sum taken on size + 1 words, never wrapped
BNegNoWrap ==
  /\ Ready
  /\ data' = Wrap(0 - data, size) + modl
  /\ want' = (0 - data) % modl
  /\ subs' = 0
  /\ UNCHANGED <<size, mem, modl, mu>>

(* mp32bneg: two's complement of b->data, plus the modulus, on size words *)
BNeg ==
  /\ Ready
  /\ data' = Wrap(Wrap(0 - data, size) + modl, size)
  /\ want' = (0 - data) % modl
  /\ subs' = 0
  /\ UNCHANGED <<size, mem, modl, mu>>

(* mp32bmodsubone: b->data = modl - 1 *)
BModSubOne ==
  /\ Ready
  /\ data' = Wrap(modl - 1, size)
  /\ want' = (modl - 1) % modl
  /\ subs' = 0
  /\ UNCHANGED <<size, mem, modl, mu>>

Next ==
  \/ \E s \in Sizes : BInit(s)
  \/ BFree
  \/ \E s \in Sizes \cup {0} : \E m \in (IF s = 0 THEN {0} ELSE Moduli(s)) :
        BSet(s, m)
  \/ Ready /\ \E x \in Vec(2 * size) : BMod(x)
  \/ Ready /\ \E x, y \in Operands(modl, size) : BAddMod(x, y)
  \/ Ready /\ \E x, y \in Operands(modl, size) : BSubMod(x, y)
  \/ Ready /\ \E x, y \in Operands(modl, size) : BMulMod(x, y)
  \/ Ready /\ \E x \in Operands(modl, size) : BSqrMod(x)
  \/ BNeg
  \/ BModSubOne

Spec == Init /\ [][Next]_vars

-----------------------------------------------------------------------------
TypeOK ==
  /\ size \in Sizes \cup {0}
  /\ mem \in BOOLEAN
  /\ modl \in Vec(size) /\ mu \in Vec(size + 1) /\ data \in Vec(size)
  /\ want \in Nat \cup {None}
  /\ subs \in Nat

(***************************************************************************)
(* Every operation of the context leaves in b->data a value congruent to *)
(* the exact result modulo the modulus: the truncated partial products   *)
(* of mp32bmodres, the borrow fix-up of mp32bsubmod and the wrap-around  *)
(* of mp32bneg never lose a multiple of anything but the modulus.        *)
(***************************************************************************)
ResultCongruent ==
  Ready /\ want # None => data % modl = want

(***************************************************************************)
(* The spec: after the Barrett estimate, the final loop of mp32bmodres   *)
(* subtracts the modulus at most twice.  This depends on the estimate q3 *)
(* built from mu and the truncated product being within 2 of the quotient.*)
(***************************************************************************)
SubtractionsBounded == subs <= 2

=============================================================================
