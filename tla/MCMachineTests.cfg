SPECIFICATION MCSpec
CONSTANTS
  Test <- Tests
  RecycleAfter = 2
  MaxRuns = 5
  MaxRetries = 2
  MaxTests = 1
  Machines <- MCMachines
  Limit = 4
  MaxEvents = 2
  MaxHotplugs = 2
  MaxChecks = 2
INVARIANTS
  CtxIsLive
  RunReleases
  SelftestVerdicts
PROPERTIES
  MonitorsTell
