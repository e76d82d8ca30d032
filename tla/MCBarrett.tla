----------------------------- MODULE MCBarrett -----------------------------
(***************************************************************************)
(* Model-checking instance of Mp32Barrett: words of WBITS bits, contexts *)
(* of one and two words, every modulus mp32bset accepts (or all but the  *)
(* powers of the radix), operands that are residues.                    *)
(***************************************************************************)
EXTENDS Mp32Barrett

\* every modulus of s words whose most significant word is non-zero
MCModuliAll(s) == Cap(s - 1) .. (Cap(s) - 1)

\* the same without b^(s-1), the one modulus whose mu needs s+2 words
MCModuliNoRadixPower(s) == (Cap(s - 1) + 1) .. (Cap(s) - 1)

\* operands that are residues of the modulus
MCResidues(m, s) == 0 .. (m - 1)

=============================================================================
