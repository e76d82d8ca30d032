\* mp32bpowmod for one- and two-word moduli (WBITS = 2) and exponents of up
\* to three words: two windows with zero bits between them, windows that straddle a word, partial windows at the end,
\* leading zero words and the zero exponent; its loop invariant and the
\* abstract exponentiation it implements.
CONSTANTS
  WBITS = 2
  Sizes = {1, 2}
  Moduli <- MCModuli
  Bases <- MCBases
  MaxPsize = 3
SPECIFICATION Spec
\* mp32bpowmod returns at pc = "done"
CHECK_DEADLOCK FALSE
INVARIANTS
  TypeOK
  WindowInvariant
PROPERTIES
  PowModRefines
