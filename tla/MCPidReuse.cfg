SPECIFICATION Spec
CONSTANTS
    Pids = {1, 2}
    MaxProcess = 2
    Word = 16
    SleepAfter = 1
    DefaultInterval = 7
    StackCpu = {0, 3}
    MaxNow = 3
    MaxStarts = 3
INVARIANTS
    UsageWithinLifetime
