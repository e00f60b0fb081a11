CONSTANTS
  Bytes = 40
  Lengths = {0, 1, 24, 72, 130}
  Starts = {0, 1, 2, 3, 4, 5, 6, 7, 160, 161, 162, 163, 164, 165, 166, 167}
SPECIFICATION Spec
INVARIANT CopiesBits
CHECK_DEADLOCK FALSE
