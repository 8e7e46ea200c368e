SPECIFICATION MCSpec
CONSTANTS
    Actions <- MCActions
    Kind <- MCKind
    After <- MCAfter
    HostNum = 3
    Ip <- MCIp
    Parts = {p1, p2, p3}
    NoHost = 0
    RetryTimes = 3
    MaxChanges = 2
    FileActions <- MCFileActions
    Class <- MCClass
    DescOf <- MCDescOf
    FilesAfter <- MCFilesAfter
    Insts = {i1, i2}
    Inst = i1
    PathNum = 2
    Spaces = {1, 2}
    Count = 1
    Bytes = 2
    MaxInt32 = 3
    MaxFileActions = 1
    MaxTurns = 1
INVARIANTS
    StableMeansSame
    NothingHalfDone
PROPERTIES
    OKMeansDone
    FilesAsAsked
SYMMETRY MCSymmetry
