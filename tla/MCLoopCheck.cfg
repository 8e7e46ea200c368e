\* One sub-action that always succeeds, three iterations.
CONSTANTS
    N = 1
    Concurrency = 2
    MaxRuns = 1
    MaxIterations <- MCThree
    MayFail = {}
SPECIFICATION Spec
INVARIANT
    NoAbort
