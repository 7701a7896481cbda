SPECIFICATION Spec
CONSTANTS
  Counters = {}
  Delays = {0, 1, 2, 3}
  Word = 4
  Frequency = 2
  MaxCycle = 9
PROPERTIES LoadsWaitExactly
CHECK_DEADLOCK FALSE
