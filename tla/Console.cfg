SPECIFICATION ConsoleSpec
CONSTANTS
  ROWS = 2
  COLS = 2
  LineMax = 2
  RingSize = 3
  Count = 2
  Printable = {"a"}
INVARIANTS ReadOneLine 
PROPERTIES RingIsFifo 
