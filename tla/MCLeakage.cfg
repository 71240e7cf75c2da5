SPECIFICATION Spec
CONSTANTS
    Simulations <- mcSimulations
    PathOrder <- mcPathOrder
    Times <- mcTimes
    Disks <- mcDisks
    Commands <- mcCommands
    MaxTraces = 4
    Unit = 12
    Out = 1
    NaN = NaN
INVARIANTS OutcomeFollowsDump TraceIsWaveform StatisticsAreBatch VerdictOnDumps
CHECK_DEADLOCK FALSE
