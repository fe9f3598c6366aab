\* The assert of print_lcd, with the sizes of the code, one button (digits only) and
\* as many pairs as it takes for an index of three digits.
SPECIFICATION Spec
CONSTANTS
  Buttons = {2}
  MAX_LENGTH = 5
  LINE_BUFF = 16
  PastBytes = 1
  MaxPuts = 101
CHECK_DEADLOCK FALSE
INVARIANTS
  LinesFit
