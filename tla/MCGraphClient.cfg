\* Two callers, two spaces, four calls of any kind, two tries each.
CONSTANTS
    Callers = {c1, c2}
    Spaces = {s1, s2}
    NoSpace = NoSpace
    NoCaller = NoCaller
    RetryTimes = 2
    MaxCalls = 4
SPECIFICATION Spec
INVARIANTS
    SpaceIsAsked
    AnswerIsTrue
PROPERTY
    EveryCallReturns
