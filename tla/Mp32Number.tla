----------------------------- MODULE Mp32Number -----------------------------
(***************************************************************************)
(* The heap-owned number of src/mp32number.c: mp32nzero, mp32ninit,       *)
(* mp32nsize, mp32nset (and mp32ncopy, which is mp32nset), mp32nsetw,     *)
(* mp32nsethex, mp32nwipe and mp32nfree.                                  *)
(*                                                                         *)
(* The words themselves are abstracted to whether they may hold non-zero  *)
(* data (secret).  size is n->size, buf says n->data is not null and blen *)
(* is the length of the block it points to.  The heap is observed through *)
(* blocks (allocated blocks, reachable or not) and residue (released      *)
(* blocks that still held non-zero data).  oob records a write outside   *)
(* the block or through a null n->data.                                  *)
(***************************************************************************)
EXTENDS Naturals, FiniteSets

CONSTANTS
  Sizes,            \* word lengths passed to the functions (non-zero)
  AllocOutcomes,    \* results malloc/realloc may have: TRUE ok, FALSE null
  DigitsPerWord,    \* hex digits per word (8 in the code)
  MaxHexLen,        \* longest hex string passed to mp32nsethex
  MaxCount          \* bound on the heap counters blocks and residue

ASSUME Sizes \subseteq Nat \ {0} /\ AllocOutcomes \subseteq BOOLEAN
ASSUME DigitsPerWord \in Nat \ {0} /\ MaxHexLen \in Nat \ {0}
ASSUME MaxCount \in Nat \ {0}

VARIABLES size, buf, blen, blocks, secret, residue, oob

vars == <<size, buf, blen, blocks, secret, residue, oob>>

\* free(n->data): the block goes back to the heap as it is
Release ==
  /\ blocks' = blocks - 1
  /\ residue' = residue + (IF secret THEN 1 ELSE 0)

(***************************************************************************)
(* The allocation shared by mp32nsize, mp32nset, mp32nsetw, mp32nsethex: *)
(* realloc when there is a block of another length, malloc when there is  *)
(* none.  A failed realloc returns null and the old block stays           *)
(* allocated; a realloc that moves the block frees the old one as is.   *)
(* On failure n->size becomes 0.                                         *)
(***************************************************************************)
Resize(s, ok, moved) ==
  /\ \/ /\ buf /\ size = s
        /\ UNCHANGED <<buf, blen, blocks, residue>>
     \/ /\ buf /\ size # s
        /\ buf' = ok
        /\ blen' = IF ok THEN s ELSE 0
        /\ UNCHANGED blocks
        /\ residue' = residue + (IF ok /\ moved /\ secret THEN 1 ELSE 0)
     \/ /\ ~buf
        /\ buf' = ok
        /\ blen' = IF ok THEN s ELSE 0
        /\ blocks' = blocks + (IF ok THEN 1 ELSE 0)
        /\ UNCHANGED residue
  /\ size' = IF buf' THEN s ELSE 0

\* the size 0 branch of mp32nsize and mp32nset: free the block if any
FreeIfAny ==
  IF buf
    THEN /\ Release
         /\ buf' = FALSE /\ blen' = 0 /\ size' = 0 /\ secret' = FALSE
    ELSE UNCHANGED <<size, buf, blen, blocks, residue, secret>>

(* mp32nzero *)
Init ==
  /\ size = 0 /\ buf = FALSE /\ blen = 0
  /\ blocks = 0 /\ secret = FALSE /\ residue = 0 /\ oob = FALSE

(* mp32ninit: size stored before malloc; the data copied if it succeeded *)
NInit(s, nz) ==
  /\ ~buf
  /\ \E ok \in AllocOutcomes :
       /\ size' = s
       /\ buf' = ok
       /\ blen' = IF ok THEN s ELSE 0
       /\ blocks' = blocks + (IF ok THEN 1 ELSE 0)
       /\ secret' = (ok /\ nz)
  /\ UNCHANGED <<residue, oob>>

(* mp32nsize: the words kept by realloc are left as they are *)
NSize(s) ==
  /\ IF s = 0
       THEN FreeIfAny
       ELSE \E ok \in AllocOutcomes, moved \in BOOLEAN :
              /\ Resize(s, ok, moved)
              /\ secret' = (buf' /\ secret)
  /\ UNCHANGED oob

(* mp32nset and mp32ncopy: resize, then copy size words *)
NSet(s, nz) ==
  /\ IF s = 0
       THEN FreeIfAny
       ELSE \E ok \in AllocOutcomes, moved \in BOOLEAN :
              /\ Resize(s, ok, moved)
              /\ secret' = (buf' /\ nz)
  /\ UNCHANGED oob

(* mp32nsetw: a one-word number *)
NSetW(nz) ==
  /\ \E ok \in AllocOutcomes, moved \in BOOLEAN :
       /\ Resize(1, ok, moved)
       /\ secret' = (buf' /\ nz)
  /\ UNCHANGED oob

\* size = (length+7) >> 3 for words of DigitsPerWord digits
HexSize(len) == (len + DigitsPerWord - 1) \div DigitsPerWord

(***************************************************************************)
(* The words mp32nsethex stores: one each time the remaining length,     *)
(* after length--, is a multiple of 8, and one more after the loop when  *)
(* the length has a remainder (if (rem) *dst = val).                     *)
(***************************************************************************)
HexStores(len) ==
  Cardinality({k \in 0 .. (len - 1) : k % DigitsPerWord = 0})
    + (IF len % DigitsPerWord # 0 THEN 1 ELSE 0)

(* mp32nsethex: resize to the digits' words, then parse into them *)
NSetHex(len, nz) ==
  /\ \E ok \in AllocOutcomes, moved \in BOOLEAN :
       /\ Resize(HexSize(len), ok, moved)
       /\ secret' = (buf' /\ nz)
       /\ oob' = (oob \/ (buf' /\ HexStores(len) > HexSize(len)))

(* mp32nwipe: mp32zero(n->size, n->data) *)
NWipe ==
  /\ secret' = FALSE
  /\ oob' = (oob \/ (~buf /\ size > 0))
  /\ UNCHANGED <<size, buf, blen, blocks, residue>>

\* fault model for NFree: n->data not reset after free
NFreeKeepPointer ==
  /\ IF buf THEN Release ELSE UNCHANGED <<blocks, residue>>
  /\ size' = 0 /\ secret' = FALSE
  /\ UNCHANGED <<buf, blen, oob>>

(* mp32nfree: free the block if any, size 0 *)
NFree ==
  /\ IF buf THEN Release ELSE UNCHANGED <<blocks, residue>>
  /\ buf' = FALSE /\ blen' = 0 /\ size' = 0 /\ secret' = FALSE
  /\ UNCHANGED oob

\* the heap counters stay below MaxCount (mp32nwipe does not move them)
HeapBounded == blocks < MaxCount /\ residue < MaxCount

Next ==
  \/ NWipe
  \/ /\ HeapBounded
     /\ \/ \E s \in Sizes, nz \in BOOLEAN : NInit(s, nz)
        \/ \E s \in Sizes \cup {0} : NSize(s)
        \/ \E s \in Sizes \cup {0}, nz \in BOOLEAN : NSet(s, nz)
        \/ \E nz \in BOOLEAN : NSetW(nz)
        \/ \E len \in 1 .. MaxHexLen, nz \in BOOLEAN : NSetHex(len, nz)
        \/ NFree

Spec == Init /\ [][Next]_vars

-----------------------------------------------------------------------------
TypeOK ==
  /\ size \in Sizes \cup {0} \cup {HexSize(k) : k \in 1 .. MaxHexLen}
  /\ buf \in BOOLEAN /\ secret \in BOOLEAN /\ oob \in BOOLEAN
  /\ blen \in Nat
  /\ blocks \in 0 .. MaxCount /\ residue \in 0 .. MaxCount

(***************************************************************************)
(* The spec (3): freeing wipes, then releases; no block goes back to the *)
(* heap still holding the number's words.                                *)
(***************************************************************************)
FreedWiped == residue = 0

(***************************************************************************)
(* No word is written outside the block n->data points to: not by the   *)
(* parse loop of mp32nsethex, not by mp32nwipe on a number whose size   *)
(* says it has words.                                                    *)
(***************************************************************************)
WritesInBounds == ~oob

(***************************************************************************)
(* The number's heap contract (spec 3, "exclusively owned ... freeing     *)
(* wipes then releases"): no block is released still holding the        *)
(* number's words, and no word is written outside the block it owns.    *)
(***************************************************************************)
NumberHeapSafe == FreedWiped /\ WritesInBounds

=============================================================================
