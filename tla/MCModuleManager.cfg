SPECIFICATION ManagerSpec
CONSTANTS
    a = a
    b = b
    c = c
    d = d
    a2 = a2
    Modules <- MCModules
    Names <- MCModules
    Paths <- MCPaths
    Expand <- MCExpand
    Hash <- MCHash
    Programs <- MCPrograms
    StackLimit = 6
    InitialCapacity = 1
    None = None
INVARIANTS
    LoadsAllNeeded
    FailsForACause
    LoadedIsAcyclic
    OneHome
    TableAnswersLoader
PROPERTIES
    AcyclicTerminates
    ImplementsModuleSet
CHECK_DEADLOCK FALSE
