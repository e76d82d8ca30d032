---------------------------- MODULE MCRsaKeyPair ----------------------------
EXTENDS RsaKeyPair

\* the public exponent rsakpMake sets (line 57)
MCE == 65535

IsPrime(x) == x > 1 /\ \A k \in 2 .. x - 1 : x % k # 0

Gcd(a, b) == CHOOSE g \in 1 .. a : /\ a % g = 0 /\ b % g = 0
                                   /\ \A h \in g + 1 .. a : ~(a % h = 0 /\ b % h = 0)

\* 5-bit primes whose p-1 is coprime to e: {17, 23, 29}; 17 * 17, 17 * 23
\* and 17 * 29 are one bit short of 10 bits, so the loop retries
MCPrimes == {x \in 2^(PrimeBits - 1) .. 2^PrimeBits - 1 :
               IsPrime(x) /\ Gcd(x - 1, MCE) = 1}
=============================================================================
