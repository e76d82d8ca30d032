------------------------------ MODULE RsaKeyPair ------------------------------
(***************************************************************************)
(* RSA key-pair generation of src/rsakp.c: rsakpInit, rsakpMake and        *)
(* rsakpFree on one key pair kp.                                           *)
(*                                                                         *)
(* rsakpMake is written against the mp* API (mpprnd_w, mpmul, mple,       *)
(* mpbset, mpninv, ...), whose code is not in the repository.  Each call   *)
(* is taken for what it computes: mpprnd_w(&x, ...) allocates x and        *)
(* returns any member of Primes (a prime of pqsize words whose p-1 is      *)
(* coprime to e); mple is <=; mpmsbset(nsize, p*q) is "the product has     *)
(* all 2 * PrimeBits bits"; mpbset, mpnset, mpnsize and mpninv allocate    *)
(* the block of the number they set.                                       *)
(*                                                                         *)
(* The heap is observed per owner: held is the set of fields and locals    *)
(* that own a live block, secret those whose block holds secret material  *)
(* (a prime of the key, p-1, q-1, phi, d and the CRT values), and leaked   *)
(* those whose block was released while still holding it.                *)
(***************************************************************************)
EXTENDS Integers

CONSTANTS
  Primes,         \* what mpprnd_w may return
  PrimeBits,      \* bits of pqsize words
  AllocOutcomes,  \* what malloc of temp may return: TRUE a block, FALSE null
  MaxDraws        \* bound on the iterations of the while (1) loop

ASSUME /\ Primes \subseteq 2^(PrimeBits - 1) .. 2^PrimeBits - 1
       /\ AllocOutcomes \subseteq BOOLEAN /\ MaxDraws \in Nat

VARIABLES
  phase,   \* "init", "draw", "loop", "tail", "made", "failed", "freed"
  p, q,    \* kp->p.modl, kp->q.modl (0 when zero)
  newn,    \* the local newn
  draws,   \* iterations of the loop that drew r
  held, secret, leaked

vars == <<phase, p, q, newn, draws, held, secret, leaked>>

\* the fields of kp, which rsakpFree releases
KpFields == {"n", "e", "d", "p", "q", "d1", "d2", "c"}

\* mpmsbset(nsize, temp) after mpmul: p*q fills its 2 * pqsize words
FullSize(x) == x >= 2^(2 * PrimeBits - 1)

(* rsakpInit: memset(kp, 0, ...) *)
Init ==
  /\ phase = "init"
  /\ p = 0 /\ q = 0 /\ newn = TRUE /\ draws = 0
  /\ held = {} /\ secret = {} /\ leaked = {}

(* rsakpMake, lines 45-49: temp = malloc(...); when null, return -1 *)
MakeAlloc ==
  /\ phase = "init"
  /\ \E ok \in AllocOutcomes :
       /\ phase' = IF ok THEN "draw" ELSE "failed"
       /\ held' = IF ok THEN {"temp"} ELSE {}
  /\ UNCHANGED <<p, q, newn, draws, secret, leaked>>

(***************************************************************************)
(* Lines 54-74: e = 65535, mpprnd_w for p and q, the swap when p <= q,    *)
(* and mpbzero of r, psubone, qsubone and phi.                            *)
(***************************************************************************)
MakeDraw ==
  /\ phase = "draw"
  /\ \E a, b \in Primes :
       /\ p' = IF a <= b THEN b ELSE a
       /\ q' = IF a <= b THEN a ELSE b
  /\ held' = held \cup {"e", "p", "q"}
  /\ secret' = secret \cup {"p", "q"}
  /\ phase' = "loop"
  /\ UNCHANGED <<newn, draws, leaked>>

(* lines 78-81: the product has the required size after a new prime *)
LoopBreak ==
  /\ phase = "loop"
  /\ newn /\ FullSize(p * q)
  /\ phase' = "tail"
  /\ UNCHANGED <<p, q, newn, draws, held, secret, leaked>>

(***************************************************************************)
(* Lines 85-106: one more prime r; it replaces q, shifting p down, when   *)
(* p <= r, replaces q when q <= r, and is freed otherwise.  The replaced  *)
(* q goes to mpbfree: a candidate that is no longer part of the key.      *)
(***************************************************************************)
LoopDraw ==
  /\ phase = "loop"
  /\ ~(newn /\ FullSize(p * q))
  /\ draws < MaxDraws
  /\ \E r \in Primes :
       \/ /\ p <= r
          /\ q' = p /\ p' = r /\ newn' = TRUE
       \/ /\ ~(p <= r) /\ q <= r
          /\ q' = r /\ p' = p /\ newn' = TRUE
       \/ /\ ~(p <= r) /\ ~(q <= r)
          /\ UNCHANGED <<p, q>> /\ newn' = FALSE
  /\ draws' = draws + 1
  /\ UNCHANGED <<phase, held, secret, leaked>>

(***************************************************************************)
(* Lines 109-139: n, p-1 and q-1 (computed in temp, then set into the    *)
(* contexts psubone and qsubone), phi = (p-1)(q-1) in temp and set into  *)
(* phi, d = e^-1 mod phi, d1, d2 and c; then free(temp), whose words hold *)
(* phi and mpbmod_w's workspace.  psubone, qsubone and phi are not freed. *)
(***************************************************************************)
MakeTail ==
  /\ phase = "tail"
  /\ held' = (held \ {"temp"})
               \cup {"n", "psubone", "qsubone", "phi", "d", "d1", "d2", "c"}
  /\ secret' = secret \cup {"psubone", "qsubone", "phi", "d", "d1", "d2", "c"}
  /\ leaked' = leaked \cup {"temp"}
  /\ phase' = "made"
  /\ UNCHANGED <<p, q, newn, draws>>

(***************************************************************************)
(* rsakpFree: mpbfree/mpnfree of every field, each secret one wiped first *)
(* (n and e are public and are freed as they are).                        *)
(***************************************************************************)
KpFree ==
  /\ phase \in {"init", "made", "failed"}
  /\ held' = held \ KpFields
  /\ secret' = secret \ KpFields
  /\ phase' = "freed"
  /\ UNCHANGED <<p, q, newn, draws, leaked>>

Next ==
  \/ MakeAlloc \/ MakeDraw \/ LoopBreak \/ LoopDraw \/ MakeTail \/ KpFree

Spec == Init /\ [][Next]_vars

-----------------------------------------------------------------------------
(***************************************************************************)
(* Secret material is wiped before it is released, and a key pair owns    *)
(* nothing after rsakpFree: what rsakpFree's "wipe all secret key         *)
(* components" does for kp, and what the spec (3, BarrettContext) asks of *)
(* every context whose modulus derives from the secret primes.  It covers *)
(* rsakpMake's temp, psubone, qsubone and phi as well as kp's fields.     *)
(***************************************************************************)
KeySecretsContained ==
  /\ leaked = {}
  /\ phase = "freed" => held = {}

=============================================================================
