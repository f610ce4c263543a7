CONSTANTS
    t1 = t1
    t2 = t2
    t3 = t3
    Tasks = {t1, t2, t3}
    Kernel = Kernel
    NoTask = NoTask
    Masks <- LibcMasks
    Retvals = {0, 1}
SYMMETRY Addresses
SPECIFICATION UserSpec
INVARIANTS BufferIsLargeEnough OnlyTerminationResumesWait BlockedInWait QueueIsSound ListenersAreLive
PROPERTIES RunnableTasksAdvance
