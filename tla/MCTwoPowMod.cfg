\* mp32btwopowmod for one- and two-word moduli and exponents of up to three
\* words (WBITS = 2), against the abstract exponentiation.
CONSTANTS
  WBITS = 2
  Sizes = {1, 2}
  Moduli <- MCModuli
  MaxPsize = 3
SPECIFICATION Spec
\* mp32btwopowmod returns at pc = "done"
CHECK_DEADLOCK FALSE
INVARIANTS
  TypeOK
  DoublingInvariant
PROPERTIES
  TwoPowRefines
