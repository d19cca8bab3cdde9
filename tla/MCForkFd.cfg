SPECIFICATION Spec
CHECK_DEADLOCK FALSE
CONSTANTS
    main = main
    other = other
    Threads <- MCThreads
    Main = main
    Callers <- MCCallers
    Children = {1, 2, 3}
    Pids = {1, 2, 3}
    Reuse = FALSE
    SmallArray = 1
    BigArray = 1
    BigArrays = 1
    Kernels <- MCKernels
INVARIANTS
    PayloadsAreOwn
    OneTestPerCall
PROPERTIES
    EveryEndIsNotified
