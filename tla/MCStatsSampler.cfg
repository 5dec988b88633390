SPECIFICATION Spec
CONSTANTS
    NumCpus = 2
    Devices <- MCDevices
    MaxDisk = 2
    Int32 = 4
    Word = 16
    MaxTicks = 3
    MaxSectors = 1
INVARIANTS
    TypeOK
    CoreUsageHonest
    UsageConserved
    DisksCountedOnce
