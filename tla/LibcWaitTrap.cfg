CONSTANTS
    t1 = t1
    t2 = t2
    t3 = t3
    Tasks = {t1, t2}
    Kernel = Kernel
    NoTask = NoTask
    Masks <- LibcMasks
    Retvals = {0, 1}

SPECIFICATION UserSpec
INVARIANT WaitNeverTraps
