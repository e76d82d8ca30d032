CONSTANTS
  WBITS = 2
  Sizes = {1, 2}
  Moduli <- MCModuliNoRadixPower
  Operands <- MCResidues
  AllocOutcomes = {TRUE, FALSE}
  None = None
SPECIFICATION Spec
INVARIANTS
  TypeOK
  ResultCongruent
  SubtractionsBounded
