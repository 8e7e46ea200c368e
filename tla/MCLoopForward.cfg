\* Two sub-actions that always succeed, two iterations.
CONSTANTS
    N = 2
    Concurrency = 2
    MaxRuns = 1
    MaxIterations <- MCTwo
    MayFail = {}
SPECIFICATION Spec
INVARIANT
    IterationOrder
