CONSTANTS
  s0 = s0
  s1 = s1
  t0 = t0
  t1 = t1
  u0 = u0
  u1 = u1
  Slice <- MCSlice
  Thread <- MCThread
  thread_range <- MCRange
  thread_num <- MCNumber
  package_id <- MCPackage
  Stale <- MCStale
  ignore_os_errors = TRUE
  MaxTests = 2
SPECIFICATION SSpec
INVARIANTS SelftestsEndAsExpected ThreadFailureIsSeen
