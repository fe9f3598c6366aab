\* The editors, the modes and the displays, with two letter buttons and values of
\* two characters.
SPECIFICATION Spec
CONSTANTS
  Buttons = {1, 2, 3}
  MAX_LENGTH = 2
  LINE_BUFF = 13
  PastBytes = 1
  MaxPuts = 1
INVARIANTS
  KeyHoldsTyped
  DisplaysTellTruth
PROPERTIES
  LettersOfButton
