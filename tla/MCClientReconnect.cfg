\* One caller, one space.
CONSTANTS
    Callers = {c1}
    Spaces = {s1}
    NoSpace = NoSpace
    NoCaller = NoCaller
    RetryTimes = 2
    MaxCalls = 4
SPECIFICATION Spec
PROPERTY
    SpaceUsedWhenReconnecting
