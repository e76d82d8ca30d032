\* The three random-residue functions for every modulus of one and two words.
CONSTANTS
  WBITS = 2
  Sizes = {1, 2}
  Moduli <- MCModuli
SPECIFICATION Spec
CHECK_DEADLOCK FALSE
PROPERTY
  Terminates
