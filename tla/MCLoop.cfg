\* Two sub-actions, three iterations of one run or two of two runs, a failure
\* or an exception of either sub-action in the first of them.
CONSTANTS
    N = 2
    Concurrency = 2
    MaxRuns = 2
    MaxIterations <- MCThreeThenTwo
    MayFail = {1}
SPECIFICATION Spec
INVARIANTS
    FirstIterationSafe
    OrderKept
    UsersChecked
PROPERTIES
    IterationComplete
    Termination
