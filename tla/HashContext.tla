----------------------------- MODULE HashContext -----------------------------
(***************************************************************************)
(* The hash-function context of src/beecrypt.c (hashFunctionContextInit,  *)
(* Free, Reset, Update, UpdateMP32, Digest) bound to the SHA-512 context  *)
(* of src/sha512.c: each context call dispatches through ctxt->hash to    *)
(* the sha512 function of the same name, acting on ctxt->param.           *)
(*                                                                         *)
(* cparam is the state of ctxt->param: "none" before Init, "null" when  *)
(* malloc failed, "raw" when it holds the uninitialised sha512Param that  *)
(* malloc returned, "live" after a Reset, "freed" after Free.  The caller *)
(* is the documented one: it resets a context before using it, does not  *)
(* use it after a failed Init or after Free, and does not Init it twice. *)
(* What the code does when a caller breaks this is listed as hazards.    *)
(*                                                                         *)
(* A multi-precision word is WordBytes bytes (4 in the code).             *)
(***************************************************************************)
EXTENDS Sha512

CONSTANTS
  WordBytes,      \* bytes per mp32 word
  PlainInputs,    \* byte strings passed to hashFunctionContextUpdate
  MpInputs,       \* word vectors (most significant first) of UpdateMP32
  AllocOutcomes   \* what malloc may return: TRUE a block, FALSE null

ASSUME WordBytes \in Nat \ {0} /\ AllocOutcomes \subseteq BOOLEAN

VARIABLES
  cparam,   \* the state of ctxt->param
  mpHashed  \* history: the numbers fed through UpdateMP32 since the last
            \* Reset or Digest, with the bytes handed to sha512Update

cvars == <<vars, cparam, mpHashed>>

WordMod == 256^WordBytes

(* encodeInts: each word as WordBytes bytes, most significant first *)
EncodeInts(n) ==
  FlattenSeq([i \in 1 .. Len(n) |->
                [j \in 1 .. WordBytes |->
                   (n[i] \div 256^(WordBytes - j)) % 256]])

\* fault model for MP32Bytes: the sign byte left out
MP32BytesNoSign(n) == EncodeInts(n)

(***************************************************************************)
(* hashFunctionContextUpdateMP32: when mp32msbset, a 0 byte and then the *)
(* words, (size << 2) + 1 bytes; otherwise the words, size << 2 bytes.   *)
(***************************************************************************)
MP32Bytes(n) ==
  IF n[1] >= WordMod \div 2 THEN <<0>> \o EncodeInts(n) ELSE EncodeInts(n)

CInit ==
  /\ Init
  /\ cparam = "none"
  /\ mpHashed = <<>>

(* hashFunctionContextInit: ctxt->hash = &sha512, param = malloc(...) *)
CtxInit ==
  /\ cparam \in {"none", "null", "freed"}
  /\ \E ok \in AllocOutcomes : cparam' = IF ok THEN "raw" ELSE "null"
  /\ UNCHANGED <<vars, mpHashed>>

(* hashFunctionContextFree: free(ctxt->param), the pointer left as it is *)
CtxFree ==
  /\ cparam \in {"null", "raw", "live"}
  /\ pc = "idle"
  /\ cparam' = "freed"
  /\ UNCHANGED <<vars, mpHashed>>

(* hashFunctionContextReset: sha512Reset(ctxt->param) *)
CtxReset ==
  /\ cparam \in {"raw", "live"}
  /\ Reset
  /\ cparam' = "live"
  /\ mpHashed' = <<>>

(* hashFunctionContextUpdate / UpdateMC: sha512Update(param, data, size) *)
CtxUpdate(d) ==
  /\ cparam = "live"
  /\ Bounded(d)
  /\ UpdateCall(d)
  /\ UNCHANGED <<cparam, mpHashed>>

(* hashFunctionContextUpdateMP32: the encoded number to sha512Update *)
CtxUpdateMP32(n) ==
  /\ cparam = "live"
  /\ Bounded(MP32Bytes(n))
  /\ UpdateCall(MP32Bytes(n))
  /\ mpHashed' = Append(mpHashed, [val |-> n, bytes |-> MP32Bytes(n)])
  /\ UNCHANGED cparam

(* hashFunctionContextDigest: sha512Digest(param, dig->data) *)
CtxDigest ==
  /\ cparam = "live"
  /\ Len(out) < MaxDigests
  /\ Digest
  /\ mpHashed' = <<>>
  /\ UNCHANGED cparam

\* one iteration or the return of the sha512Update loop; ctxt->param stays
UpdateLoop == (UpdateStep \/ UpdateReturn) /\ UNCHANGED <<cparam, mpHashed>>

CNext ==
  \/ CtxInit
  \/ CtxFree
  \/ CtxReset
  \/ \E d \in PlainInputs : CtxUpdate(d)
  \/ \E n \in MpInputs : CtxUpdateMP32(n)
  \/ UpdateLoop
  \/ CtxDigest

(* the sha512Update loop runs to completion, as in Sha512 *)
CSpec == CInit /\ [][CNext]_cvars /\ WF_cvars(UpdateLoop)

-----------------------------------------------------------------------------
\* the type of the composed state
CtxTypeOK ==
  /\ TypeOK
  /\ cparam \in {"none", "null", "raw", "live", "freed"}
  /\ mpHashed \in Seq([val : MpInputs, bytes : Seq(Bytes)])

\* the value of a byte string read as a big-endian two's-complement integer
SignedValue(e) ==
  LET u == FoldLeft(LAMBDA acc, b : acc * 256 + b, 0, e)
  IN IF e # <<>> /\ e[1] >= 128 THEN u - 256^Len(e) ELSE u

\* the value of a word vector, most significant word first
WordsValue(n) == FoldLeft(LAMBDA acc, w : acc * WordMod + w, 0, n)

(***************************************************************************)
(* Every number hashFunctionContextUpdateMP32 has fed to the hash since  *)
(* the last Reset or Digest was hashed as the bytes that a signed        *)
(* big-endian reader (a Java BigInteger on the other side) takes for the *)
(* same non-negative value: the leading 0 byte is what keeps a number    *)
(* whose top word has its msb set from reading as negative.             *)
(***************************************************************************)
MpEncodingSigned ==
  \A i \in DOMAIN mpHashed :
     SignedValue(mpHashed[i].bytes) = WordsValue(mpHashed[i].val)

=============================================================================
