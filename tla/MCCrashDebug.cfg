CONSTANTS
  Slice = {s1, s2}
  Thread = {t1, t2}
  NoSlice = NoSlice
  MaxCrashes = 3
SPECIFICATION Spec
CHECK_DEADLOCK FALSE
PROPERTIES DebuggedBeforeDeath LoneCrashEndsChild
