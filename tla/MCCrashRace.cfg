CONSTANTS
  Slice = {s1}
  Thread = {t1, t2}
  NoSlice = NoSlice
  MaxCrashes = 2
SPECIFICATION Spec
CHECK_DEADLOCK FALSE
PROPERTIES CrashEndsChild
