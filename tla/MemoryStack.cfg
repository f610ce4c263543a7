CONSTANTS
    t1 = t1
    t2 = t2
    t3 = t3
    Tasks = {t1, t2}
    Kernel = Kernel
    NumPages = 8
    Reserved = {0, 5, 6, 7}
    NumVPages = 5
    KernelPage = 1
    kMaxPages = 256
    NoPage = NoPage
SYMMETRY AnyTask
SPECIFICATION Spec
INVARIANT StackIsMapped
