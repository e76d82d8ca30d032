----------------------------- MODULE PowModSpec -----------------------------
(***************************************************************************)
(* What modular exponentiation promises (spec 4.3): one call turns the   *)
(* base, the exponent and the modulus into b->data = base^exp mod modulus *)
(* and returns.  The detailed models of mp32bpowmod and mp32btwopowmod   *)
(* are checked to implement this specification.                          *)
(***************************************************************************)
EXTENDS Integers

VARIABLES base, exp, modulus, result, done

vars == <<base, exp, modulus, result, done>>

(***************************************************************************)
(* b^e mod m, the reference definition: b^e = (b^(e div 2))^2 * b^(e%2), *)
(* every intermediate product reduced.                                    *)
(***************************************************************************)
RECURSIVE PowModRef(_, _, _)
PowModRef(b, e, m) ==
  IF e = 0 THEN 1 % m
  ELSE LET h == PowModRef(b, e \div 2, m)
       IN (h * h * (IF e % 2 = 1 THEN b ELSE 1)) % m

Init ==
  /\ base \in Nat /\ exp \in Nat /\ modulus \in Nat /\ modulus > 1
  /\ result = 0
  /\ done = FALSE

\* the whole call, as one step
Compute ==
  /\ ~done
  /\ done' = TRUE
  /\ result' = PowModRef(base, exp, modulus)
  /\ UNCHANGED <<base, exp, modulus>>

Spec == Init /\ [][Compute]_vars /\ WF_vars(Compute)

=============================================================================
