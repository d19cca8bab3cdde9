CONSTANTS
  device_count = 3
  MaxCalls = 1
  MaxTurns = 0
  MaxTests = 1
SPECIFICATION RSpec
CHECK_DEADLOCK FALSE
PROPERTIES NoPartnerDeadlock
