\* Whether rsakpMake and rsakpFree wipe and release every block of secret
\* material (rsakp.c).
CONSTANTS
  PrimeBits = 5
  Primes <- MCPrimes
  AllocOutcomes = {TRUE, FALSE}
  MaxDraws = 2
SPECIFICATION Spec
INVARIANT
  KeySecretsContained
\* a key pair's life ends with rsakpFree, and the loop stops at MaxDraws
CHECK_DEADLOCK FALSE
