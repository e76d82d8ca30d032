\* Whether the number's heap contract holds when every allocation succeeds:
\* every block released wiped, every write inside n->data.
CONSTANTS
  Sizes = {1, 2}
  AllocOutcomes = {TRUE}
  DigitsPerWord = 2
  MaxHexLen = 5
  MaxCount = 3
SPECIFICATION Spec
INVARIANT
  NumberHeapSafe
