CONSTANTS
    W = 8
    AllocSize = 64
    Allocations <- TwoPages
    Sizes = {0, 12, 18, 36, 252}
    Aligns = {1, 3, 16, 128}
SPECIFICATION Spec
INVARIANTS MallocTypeOK HeadersTile CallersKeepTheirBlocks AllIsAvailable FailsOnlyWhenFull
