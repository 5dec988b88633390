SPECIFICATION Spec
CONSTANTS
    Conns = {c1, c2}
    Pids = {1, 2, 3}
    Self = 3
    Group <- MCGroup
    Mine = {1, 3}
    Privileged = TRUE
    Requests <- MCReniceRequests
    NoValue = NoValue
    Megabyte = 4
    Word = 128
    Unit = 2
    MaxRequests = 1
INVARIANTS
    ReniceNeedsValue
CHECK_DEADLOCK FALSE
