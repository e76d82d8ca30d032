\* The three random-residue functions for two-word moduli 7 .. 15 (WBITS = 2).
CONSTANTS
  WBITS = 2
  Sizes = {2}
  Moduli <- MCModuliAbove6
SPECIFICATION Spec
\* the functions return at pc = "done"
CHECK_DEADLOCK FALSE
INVARIANTS
  TypeOK
  ResultContract
PROPERTIES
  Terminates
