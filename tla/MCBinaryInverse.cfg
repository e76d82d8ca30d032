\* Both paths of mp32binv, moduli of one and two words, every non-zero
\* operand of the same size, coprime to the modulus or not.  WBITS = 3: the
\* spare word of the (size + 1)-word vectors then leaves the coefficients
\* the headroom a 32-bit spare word gives them in the code.
CONSTANTS
  WBITS = 3
  Sizes = {1, 2}
  Moduli <- MCModuli
  Xs <- MCNonZero
  None = None
SPECIFICATION Spec
\* mp32binv returns at pc = "done"
CHECK_DEADLOCK FALSE
INVARIANTS
  TypeOK
  Bezout
  GcdKept
  ResultIffCoprime
PROPERTIES
  Terminates
