CONSTANTS
  WBITS = 2
  Sizes = {2}
  Moduli <- MCModuliAll
  Operands <- MCResidues
  AllocOutcomes = {TRUE, FALSE}
  None = None
SPECIFICATION Spec
INVARIANTS
  SubtractionsBounded
