SPECIFICATION FairSpec
CONSTANTS
    Conns = {c1, c2}
    Pids = {1, 2, 3}
    Self = 3
    Group <- MCGroup
    Mine = {1, 3}
    Privileged = FALSE
    Requests <- MCRequests
    NoValue = NoValue
    Megabyte = 4
    Word = 128
    Unit = 2
    MaxRequests = 2
INVARIANTS
    TypeOK
    EffectAtMostOnce
    AnswerTellsEffect
PROPERTIES
    EveryRequestAnswered
    ActsAtomically
CHECK_DEADLOCK FALSE
