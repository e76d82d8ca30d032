--------------------------- MODULE MCBinaryInverse ---------------------------
EXTENDS BinaryInverse

\* moduli of s words with a non-zero most significant word
MCModuli(sz) == {md \in Cap(sz - 1) .. (Cap(sz) - 1) : md >= 2}

\* every non-zero s-word operand
MCNonZero(md, sz) == 1 .. (Cap(sz) - 1)

\* the reduced residues coprime to the modulus
MCUnits(md, sz) == {y \in 1 .. (md - 1) : Gcd(y, md) = 1}

=============================================================================
