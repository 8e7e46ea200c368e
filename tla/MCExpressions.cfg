SPECIFICATION Spec
CONSTANTS
    Vars = {a}
    MaxInt = 7
    Scale = 2
    Eps = 2
    MaxDouble = 16
    MaxLen = 2
    MaxStack = 2
INVARIANTS
    ComparisonsConsistent
PROPERTIES
    IntegersExact
    EndsForAReason
