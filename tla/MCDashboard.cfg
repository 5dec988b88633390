SPECIFICATION FairSpec
CONSTANTS
    Pids = {1}
    Sorts = {"cpu", "ram"}
    Shows <- MCShows
    Forms = {"renice"}
    MaxVersion = 3
    MaxInFlight = 2
    MaxFailures = 1
INVARIANTS
    TypeOK
    ControlsHonoured
    TimersFollowFreeze
    EffectShown
PROPERTIES
    TableCatchesUp
CHECK_DEADLOCK FALSE
