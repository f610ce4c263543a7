CONSTANTS
    t1 = t1
    t2 = t2
    t3 = t3
    Tasks = {t1, t2}
    Kernel = Kernel
    NumPages = 8
    Reserved = {0, 6, 7}
    NumVPages = 7
    KernelPage = 1
    kMaxPages = 256
    NoPage = NoPage
SYMMETRY AnyTask
SPECIFICATION ExecSpec
INVARIANT StackIsNotCode
CHECK_DEADLOCK FALSE
