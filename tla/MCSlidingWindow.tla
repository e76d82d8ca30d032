-------------------------- MODULE MCSlidingWindow --------------------------
(***************************************************************************)
(* Model-checking instance of SlidingWindowPowMod: 2-bit words and      *)
(* exponents of up to three words (six bits), so that two windows, the  *)
(* squaring of a zero bit between them, and windows straddling words    *)
(* all occur; contexts of one and two words.                            *)
(***************************************************************************)
EXTENDS SlidingWindowPowMod

\* moduli of s words with a non-zero top word, the trivial modulus 1 left out
MCModuli(sz) == {md \in Cap(sz - 1) .. (Cap(sz) - 1) : md >= 2}

\* bases of at most s words: every one-word base; for two words 0, a few
\* reduced bases and the unreduced 15, whose powers differ from 1 and from
\* each other so that a wrong presq, mulg or postsq entry shows
MCBases(sz) == IF sz = 1 THEN Vec(1) ELSE {0, 2, 3, 7, 15}

=============================================================================
