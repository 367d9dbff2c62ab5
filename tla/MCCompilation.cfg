SPECIFICATION Spec
CONSTANTS
    main = main
    x = x
    depX = depX
    y = y
    Entry = main
    Modules <- MCModules
    Paths <- MCPaths
    ObjectPath <- MCObjectPath
    EntryPath = "main.o"
    MaxBuilds = 2
INVARIANTS
    SuccessMeansObjects
PROPERTIES
    ImplementsBuilds
CHECK_DEADLOCK FALSE
