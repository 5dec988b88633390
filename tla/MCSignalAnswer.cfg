SPECIFICATION Spec
CONSTANTS
    Conns = {c1, c2}
    Pids = {1, 2, 3}
    Self = 3
    Group <- MCGroup
    Mine = {1, 3}
    Privileged = FALSE
    Requests <- MCSignalRequests
    NoValue = NoValue
    Megabyte = 4
    Word = 128
    Unit = 2
    MaxRequests = 1
INVARIANTS
    DeliveredSignalAnswered
CHECK_DEADLOCK FALSE
