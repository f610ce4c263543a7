CONSTANTS
    t1 = t1
    t2 = t2
    t3 = t3
    Tasks = {t1, t2, t3}
    Kernel = Kernel
    NumPages = 8
    Reserved = {0}
    NumVPages = 7
    KernelPage = 1
    kMaxPages = 256
    NoPage = NoPage
    Messages <- SomeMessages
SYMMETRY AnyTask
SPECIFICATION StartupSpec
INVARIANTS StartupTypeOK StartupReadsSucceed ProgramsGetWhatWasSent StartupChannelsAreClosed ProgramsOwnTheirPages PagesAreTheirs OnlyLoadersShare
CHECK_DEADLOCK FALSE
