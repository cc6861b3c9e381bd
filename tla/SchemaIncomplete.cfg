\* One interruption during a start.
SPECIFICATION Spec
CONSTANTS
  a1 = a1
  a2 = a2
  b1 = b1
  Sub = {a1, a2, b1}
  KeyOf <- TwoOfOneBrowser
  MaxInterrupts = 1
INVARIANT
  ServedSchemaIsComplete
CHECK_DEADLOCK FALSE
