CONSTANTS
  a = a  b = b  c = c  z = z  s = s  mce = mce
  device_count = 4
  HasBuiltinTestList = TRUE
  MaxRetestCount = 128
  CommandLines <- MCCommandLines
  Regular <- MCRegular
  Selftests <- MCSelftests
  mce_check = mce
  quality_level <- MCQuality
  optional <- MCOptional
  groups <- MCGroups
  id <- MCId
  KnobNames <- MCKnobNames
  KnobDefault <- MCKnobDefault
  Width = 4
  Builtin <- MCBuiltin
  MaxTestTime = 2
  MaxEndTime = 3
  BatchSize = 2
  DelayBetweenTestBatch = 6
  MinimumDelayBetweenTests = 1
  MaxTests = 1
  MaxRestarts = 1
SPECIFICATION PSpec
INVARIANTS LastOptionDecides IterationRunsSelection KnobsReachTests
PROPERTIES BatchLimit RunsGoOnAndEnd
