----------------------------- MODULE MCTwoPowMod -----------------------------
EXTENDS TwoPowMod

\* moduli of sz words with a non-zero most significant word, at least 2
MCModuli(sz) == {md \in Cap(sz - 1) .. (Cap(sz) - 1) : md >= 2}
=============================================================================
