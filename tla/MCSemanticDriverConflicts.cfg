SPECIFICATION FairSpec
CONSTANTS
    entry = entry
    a = a
    b = b
    c = c
    f = f
    g = g
    io = io
    none = none
    Entry = entry
    None = none
    Target = b
    Modules <- MCModules
    Names <- MCNames
    Programs <- MCPrograms
INVARIANT ConflictsRaiseErrors
CHECK_DEADLOCK FALSE
