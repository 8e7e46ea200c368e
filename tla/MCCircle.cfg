SPECIFICATION Spec
CONSTANTS
    Actions <- MCActions
    Kind <- MCKind
    After <- MCAfter
    TotalRows = 3
    BatchNum = 1
    Try = 3
    NoRow = NoRow
    MaxFaults = 1
INVARIANTS
    WriteComplete
    WalkSound
    IndexComplete
    NoFalseAlarm
