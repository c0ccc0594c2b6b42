SPECIFICATION Spec
CONSTANTS
    Streams = {1, 2}
    Layouts <- MCLayouts
    FirstTimes = {0, 10}
    Steps = {0, 10}
    RowTimes = {0, 1}
    MaxRows = 10
    MaxSamples = 5
    MaxFrames = 3
    Memory = 5
    Tolerance = 10
CHECK_DEADLOCK FALSE
INVARIANTS
    TimesGoUp
    ThinnedEvenly
    EndsAreKept
    FramesMatchNearest
