--------------------------- MODULE MCRandomResidue ---------------------------
EXTENDS RandomResidue

\* moduli of sz words with a non-zero most significant word
MCModuli(sz) == {md \in Cap(sz - 1) .. (Cap(sz) - 1) : md >= 2}

\* the moduli above 6, for which every variant has a value it accepts
MCModuliAbove6(sz) == {md \in MCModuli(sz) : md > 6}
=============================================================================
