------------------------------ MODULE Sha512Spec ------------------------------
(***************************************************************************)
(* What a SHA-512 context promises its caller: the bytes given to Update  *)
(* since the last Reset or Digest accumulate into one message, and Digest *)
(* returns the hash of that message and starts a new one.  The hash is    *)
(* the compression chained over the blocks of the padded message (FIPS    *)
(* 180: the message, a 0x80 byte, zero bytes, and the bit length as a    *)
(* big-endian field that ends a block).  The compression is taken as     *)
(* collision-free, so a digest is represented by the blocks it chains.    *)
(***************************************************************************)
EXTENDS Naturals, Sequences

CONSTANTS
  BlockBytes,   \* bytes per block (128)
  LenBytes,     \* bytes of the length field (16)
  DataBytes,    \* byte values the caller's data is drawn from
  MaxUpdate     \* most bytes passed to one Update

ASSUME BlockBytes \in Nat /\ LenBytes \in 1 .. (BlockBytes - 1)
ASSUME MaxUpdate \in Nat

VARIABLES msg, digests

svars == <<msg, digests>>

\* the byte that follows the message
Marker == 128

\* the length field: n as LenBytes big-endian bytes, n taken modulo its range
BigEndian(n) ==
  [i \in 1 .. LenBytes |-> (n \div 256^(LenBytes - i)) % 256]

\* the fewest zero bytes that make the length field end a block
PadZeros(len) ==
  (2 * BlockBytes - LenBytes - ((len + 1) % BlockBytes)) % BlockBytes

Pad(m) ==
  m \o <<Marker>> \o [i \in 1 .. PadZeros(Len(m)) |-> 0]
    \o BigEndian(8 * Len(m))

\* the blocks of a padded message, in order
Blocks(p) ==
  [j \in 1 .. (Len(p) \div BlockBytes) |->
     SubSeq(p, (j - 1) * BlockBytes + 1, j * BlockBytes)]

\* the inputs one Update call may be given
Inputs == UNION {[1 .. k -> DataBytes] : k \in 0 .. MaxUpdate}

SInit == msg = <<>> /\ digests = <<>>

SReset == msg' = <<>> /\ UNCHANGED digests

SUpdate(d) == msg' = msg \o d /\ UNCHANGED digests

SDigest ==
  /\ digests' = Append(digests, Blocks(Pad(msg)))
  /\ msg' = <<>>

SNext == SReset \/ (\E d \in Inputs : SUpdate(d)) \/ SDigest

SSpec == SInit /\ [][SNext]_svars

=============================================================================
