CONSTANTS
  Slice = {0, 1}
  Thread = {0, 1}
  thread_range <- MCThreadRange
  Config <- MCConfig
  DataSize = {4}
  Difference <- MCDifference
SPECIFICATION LogSpec
INVARIANTS
  WellNested
  MismatchShowsOffset
PROPERTIES
  MessagesArePrinted
  StdoutTellsFailures
