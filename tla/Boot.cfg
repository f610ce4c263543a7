CONSTANTS
    CHAR_BIT = 2
    kNumPageDirEntries = 6
    kPageSize = 3
    LowMemory = 1
    KernelPage = 1
    kMmapsBuffer = 3
    MaxEntries = 4
SPECIFICATION Spec
INVARIANTS FreePagesAreRam
PROPERTIES BootsOnGoodMaps
CHECK_DEADLOCK FALSE
