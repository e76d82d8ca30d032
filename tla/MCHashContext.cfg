\* A hash-function context bound to SHA-512: Init (malloc may fail), Reset,
\* Update, UpdateMP32, Digest and Free, with the SHA-512 context under it.
CONSTANTS
  BlockBytes <- MCBlockBytes
  LenBytes <- MCLenBytes
  DataBytes <- MCDataBytes
  PlainInputs <- MCPlainInputs
  MpInputs <- MCMpInputs
  MaxUpdate = 2
  SizeBits = 3
  MaxBlocks = 1
  MaxDigests = 1
  WordBytes = 1
  AllocOutcomes = {TRUE, FALSE}
  Stale = Stale
SPECIFICATION CSpec
INVARIANTS CtxTypeOK LengthCountsMessage MpEncodingSigned
PROPERTIES Sha512Refines UpdateReturns
