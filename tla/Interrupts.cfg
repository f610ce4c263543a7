CONSTANTS
    t1 = t1
    t2 = t2
    t3 = t3
    Tasks = {t1, t2}
    Kernel = Kernel
    NoTask = NoTask
    Masks <- SomeMasks
    Retvals = {0, 1}
SPECIFICATION FairMachineSpec
INVARIANTS TypeOK ScheduleFindsATask TerminationWillBeSent InterruptsOnlyInTasks TasksRunInTheirOwnSpace
PROPERTIES NoStarvation TerminationIsReported ImplementsScheduler
