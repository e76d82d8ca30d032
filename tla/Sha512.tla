-------------------------------- MODULE Sha512 --------------------------------
(***************************************************************************)
(* The SHA-512 context of src/sha512.c: sha512Reset, sha512Update (one   *)
(* step per iteration of its copy loop), and sha512Digest with the       *)
(* padding of sha512Finish.  buf is sp->data as bytes, offset sp->offset, *)
(* length the 128-bit bit counter sp->length.                             *)
(*                                                                         *)
(* sha512Process is abstracted to what the buffering depends on: the     *)
(* chaining value h is represented by the blocks compressed since Reset  *)
(* (the compression taken as collision-free), and the block buffer is    *)
(* left holding words that are no longer the bytes written (the byte     *)
(* swap and the message schedule overwrite it), shown as Stale.  out     *)
(* records what each Digest returned.                                     *)
(***************************************************************************)
EXTENDS Naturals, Sequences, SequencesExt

CONSTANTS
  BlockBytes,   \* bytes per block (128)
  LenBytes,     \* bytes of the length field (16)
  DataBytes,    \* byte values the caller's data is drawn from
  MaxUpdate,    \* most bytes passed to one Update
  SizeBits,     \* width of the word mpsetw stores size in
  MaxBlocks,    \* bound on the blocks compressed between two Resets
  MaxDigests,   \* bound on the number of Digest calls
  Stale         \* a byte of sp->data after sha512Process

ASSUME BlockBytes \in Nat /\ LenBytes \in 1 .. (BlockBytes - 1)
ASSUME SizeBits \in Nat \ {0} /\ MaxBlocks \in Nat /\ MaxDigests \in Nat

VARIABLES h, buf, offset, length, pend, pc, out

vars == <<h, buf, offset, length, pend, pc, out>>

Pos == 0 .. (BlockBytes - 1)

\* the message the context holds: bytes compressed, buffered, and not yet copied
Message == FlattenSeq(h) \o [i \in 1 .. offset |-> buf[i - 1]] \o pend

Abs == INSTANCE Sha512Spec WITH msg <- Message, digests <- out

\* the length field: the counter's bytes, most significant first
LengthField(n) == [i \in 1 .. LenBytes |-> (n \div 256^(LenBytes - i)) % 256]

\* the counter is 8 * LenBytes bits wide, as the field Finish writes
LenMod == 256^LenBytes

AsBlock(b) == [i \in 1 .. BlockBytes |-> b[i - 1]]

\* sha512Process: the block is compressed, sp->data no longer holds it
Processed == [i \in Pos |-> Stale]

(* sha512Reset: the initial chaining value, zeroed data, length, offset *)
Reset ==
  /\ pc = "idle"
  /\ h' = <<>>
  /\ buf' = [i \in Pos |-> 0]
  /\ offset' = 0 /\ length' = 0
  /\ UNCHANGED <<pend, pc, out>>

Init ==
  /\ h = <<>> /\ buf = [i \in Pos |-> 0]
  /\ offset = 0 /\ length = 0
  /\ pend = <<>> /\ pc = "idle" /\ out = <<>>

\* fault model for UpdateCall: the length counted in bytes, not bits
UpdateCallBytes(d) ==
  /\ pc = "idle"
  /\ length' = (length + (Len(d) % 2^SizeBits)) % LenMod
  /\ pend' = d /\ pc' = "update"
  /\ UNCHANGED <<h, buf, offset, out>>

(* sha512Update, entry: mpsetw, mplshift by 3, mpadd into sp->length *)
UpdateCall(d) ==
  /\ pc = "idle"
  /\ length' = (length + 8 * (Len(d) % 2^SizeBits)) % LenMod
  /\ pend' = d /\ pc' = "update"
  /\ UNCHANGED <<h, buf, offset, out>>

\* fault model for ProcLength: one byte short of the block end
ProcLengthShort == IF offset + Len(pend) > BlockBytes THEN BlockBytes - offset - 1
                                                     ELSE Len(pend)

\* the bytes of pend copied at offset by one iteration
ProcLength == IF offset + Len(pend) > BlockBytes THEN BlockBytes - offset
                                                ELSE Len(pend)

Filled ==
  [i \in Pos |-> IF offset <= i /\ i < offset + ProcLength
                   THEN pend[i - offset + 1] ELSE buf[i]]

\* fault model for UpdateStep: if (sp->offset > 128U), the full block kept
UpdateStepNoFlush ==
  /\ pc = "update" /\ pend # <<>>
  /\ buf' = Filled
  /\ offset' = offset + ProcLength
  /\ pend' = SubSeq(pend, ProcLength + 1, Len(pend))
  /\ UNCHANGED <<h, length, pc, out>>

(* one iteration of while (size > 0): memcpy, and a full block processed *)
UpdateStep ==
  /\ pc = "update" /\ pend # <<>>
  /\ pend' = SubSeq(pend, ProcLength + 1, Len(pend))
  /\ IF offset + ProcLength = BlockBytes
       THEN /\ h' = Append(h, AsBlock(Filled))
            /\ buf' = Processed
            /\ offset' = 0
       ELSE /\ buf' = Filled
            /\ offset' = offset + ProcLength
            /\ UNCHANGED h
  /\ UNCHANGED <<length, pc, out>>

(* the loop ends with size = 0; sha512Update returns *)
UpdateReturn ==
  /\ pc = "update" /\ pend = <<>>
  /\ pc' = "idle"
  /\ UNCHANGED <<h, buf, offset, length, pend, out>>

\* the length counter as Finish stores it at byte 112 (MP_WBITS 32 or 64)
WithLength(b) ==
  [i \in Pos |-> IF i >= BlockBytes - LenBytes
                   THEN LengthField(length)[i - (BlockBytes - LenBytes) + 1]
                   ELSE b[i]]

ZeroFrom(b, lo, hi) == [i \in Pos |-> IF lo <= i /\ i < hi THEN 0 ELSE b[i]]

\* fault model for FinishBlocks: if (sp->offset >= 112)
FinishBlocksGe ==
  LET m == [buf EXCEPT ![offset] = Abs!Marker]
      o == offset + 1
  IN IF o >= BlockBytes - LenBytes
       THEN << AsBlock(ZeroFrom(m, o, BlockBytes)),
               AsBlock(WithLength(ZeroFrom(Processed, 0,
                                           BlockBytes - LenBytes))) >>
       ELSE << AsBlock(WithLength(ZeroFrom(m, o, BlockBytes - LenBytes))) >>

(***************************************************************************)
(* sha512Finish: 0x80 at offset++; when offset is then past 112, zeros   *)
(* to 128 and a block processed, offset 0; zeros up to 112; the length   *)
(* at 112; the last block processed.                                     *)
(***************************************************************************)
FinishBlocks ==
  LET m == [buf EXCEPT ![offset] = Abs!Marker]
      o == offset + 1
  IN IF o > BlockBytes - LenBytes
       THEN << AsBlock(ZeroFrom(m, o, BlockBytes)),
               AsBlock(WithLength(ZeroFrom(Processed, 0,
                                           BlockBytes - LenBytes))) >>
       ELSE << AsBlock(WithLength(ZeroFrom(m, o, BlockBytes - LenBytes))) >>

(* sha512Digest: sha512Finish, h encoded as the output, sha512Reset *)
Digest ==
  /\ pc = "idle"
  /\ out' = Append(out, h \o FinishBlocks)
  /\ h' = <<>>
  /\ buf' = [i \in Pos |-> 0]
  /\ offset' = 0 /\ length' = 0
  /\ UNCHANGED <<pend, pc>>

\* the bounds of the model: blocks between Resets, and Digest calls
Bounded(d) == Len(h) + (offset + Len(d)) \div BlockBytes <= MaxBlocks

Next ==
  \/ Reset
  \/ \E d \in Abs!Inputs : Bounded(d) /\ UpdateCall(d)
  \/ UpdateStep
  \/ UpdateReturn
  \/ Len(out) < MaxDigests /\ Digest

(* one call runs to completion: the loop of sha512Update is never blocked *)
Spec == Init /\ [][Next]_vars /\ WF_vars(UpdateStep \/ UpdateReturn)

-----------------------------------------------------------------------------
Bytes == 0 .. 255

\* the type of the context: sp->offset is always below 128 between steps
TypeOK ==
  /\ h \in Seq([1 .. BlockBytes -> Bytes])
  /\ buf \in [Pos -> Bytes \cup {Stale}]
  /\ offset \in Pos
  /\ length \in 0 .. (LenMod - 1)
  /\ pend \in Seq(DataBytes)
  /\ pc \in {"idle", "update"}
  /\ out \in Seq(Seq([1 .. BlockBytes -> Bytes]))

(***************************************************************************)
(* sp->length, which sha512Update adds size * 8 to on entry before a byte *)
(* is copied, always counts the bits of every byte the context holds:     *)
(* compressed, buffered, and still to be copied by the current call.      *)
(***************************************************************************)
LengthCountsMessage == length = (8 * Len(Message)) % LenMod

(***************************************************************************)
(* sha512Update's copy loop, its block flush at offset 128, and           *)
(* sha512Finish's padding together implement the SHA-512 interface:       *)
(* every Digest returns the chained blocks of the FIPS 180 padding of     *)
(* exactly the bytes given to Update since the last Reset or Digest.      *)
(***************************************************************************)
Sha512Refines == Abs!SSpec

\* every call of sha512Update returns: the copy loop consumes size bytes
UpdateReturns == pc = "update" ~> pc = "idle"

=============================================================================
