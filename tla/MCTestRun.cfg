CONSTANTS
  thread_count = 2
  MaxTests = 2
  MaxFractures = 2
  retest_count = 2
  Budgets <- MCBudgets
  MaxRetestCount = 4
  FatalOptions <- MCFatalOptions
  Environments <- MCEnvironments
SPECIFICATION EnvSpec
INVARIANTS RetriesAreExact FailuresAreLocalised ExitCodeTells AttemptsRepeatAndVary MachineIsRestored
PROPERTIES RunTerminates
