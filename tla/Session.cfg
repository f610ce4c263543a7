CONSTANTS
    Archives <- SomeArchives
    Inputs <- SomePaths
    Settings <- SomeSettings
    Environments <- SomeEnvironments
    Argvs <- SomeArgvs
    Addresses = {8, 64}
    PageSize = 4096
SPECIFICATION Spec
INVARIANTS SessionTypeOK TreeIsTheArchive AbsPathsResolve EnvironIsCurrent ArgvSurvives
PROPERTIES ChildStartsWhereItsParentWas
CHECK_DEADLOCK FALSE
