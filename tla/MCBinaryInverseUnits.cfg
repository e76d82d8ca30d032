\* mp32binv on both paths: every unit modulo a one- or two-word modulus, odd
\* (modl is the denominator) or even (x is the denominator).
CONSTANTS
  WBITS = 3
  Sizes = {1, 2}
  Moduli <- MCModuli
  Xs <- MCUnits
  None = None
SPECIFICATION Spec
CHECK_DEADLOCK FALSE
INVARIANT
  InverseCorrect
