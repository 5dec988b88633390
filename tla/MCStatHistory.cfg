SPECIFICATION Spec
CONSTANTS
    MaxEntries = 3
    MaxDisk = 2
    Stats <- MCStats
    Zero = Zero
INVARIANTS
    TypeOK
    RingInv
PROPERTIES
    KeepsRecentSamples
