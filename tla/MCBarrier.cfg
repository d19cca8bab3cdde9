CONSTANTS
  device_count = 3
  MaxCalls = 3
  MaxTurns = 5
  MaxTests = 2
SPECIFICATION RSpec
CHECK_DEADLOCK FALSE
INVARIANTS CompletionIsExclusive PairKeepsItsDevices RoundsAreFair
PROPERTIES WaitersAreReleased
