CONSTANTS
  Slice = {s1, s2}
  MaxSignals = 2
  Outcomes <- MCOutcomes
  Killers <- MCKillers
SPECIFICATION Spec
INVARIANTS HandlesAreUnreaped OurKillIsATimeout
PROPERTIES ImplementsVerdicts WaitTerminates
