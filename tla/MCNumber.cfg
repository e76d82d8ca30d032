\* The number's lifecycle with allocations that may fail, numbers of one and
\* two words, hex strings of one to five digits at two digits per word.
CONSTANTS
  Sizes = {1, 2}
  AllocOutcomes = {TRUE, FALSE}
  DigitsPerWord = 2
  MaxHexLen = 5
  MaxCount = 3
SPECIFICATION Spec
INVARIANT
  TypeOK
