\* Any two actions on two instances, one turn, two tries each.
CONSTANTS
    Instances = {i1, i2}
    Disturbers = {d1, d2}
    Kinds = {"StartAction", "StopAction", "CrashAction", "CleanDataAction",
             "RandomRestartAction", "RandomTruncateRestartAction",
             "RandomPartitionAction", "RandomTrafficControlAction",
             "FillDiskAction", "SlowDiskAction"}
    NoInstance = NoInstance
    LoopTimes = 1
    FillCount = 1
    StopTries = 2
    StartTries = 2
SPECIFICATION Spec
INVARIANTS
    StoppedInHand
    PickSucceeds
    DisturbanceUndone
    ProbesUndone
SYMMETRY Symmetry
