SPECIFICATION Spec
CONSTANTS
    Pids = {1, 2, 3}
    MaxProcess = 2
    Word = 16
    SleepAfter = 1
    DefaultInterval = 7
    StackCpu = {0, 1}
    MaxNow = 1
    MaxStarts = 3
INVARIANTS
    EveryProcessListed
