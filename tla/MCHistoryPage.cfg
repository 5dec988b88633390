SPECIFICATION FairSpec
CONSTANTS
    Disks = {1, 2}
    Cores = 2
    NumCores = 2
    Points = 2
    None = None
    Precision = 4
    Boot = 5
    MaxNet = 6
    MaxIo = 11
    MaxWork = 1
    MaxPlugs = 1
    MaxInFlight = 2
    MaxFailures = 1
INVARIANTS
    TypeOK
    TrafficDrawnOnce
    ColumnsAligned
    TotalNearDisks
PROPERTIES
    NetCatchesUp
CHECK_DEADLOCK FALSE
