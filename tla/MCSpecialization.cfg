SPECIFICATION FairSpec
CONSTANTS
    TypeGenerics = {"Box"}
    FunGenerics = {"f", "g"}
    Root = "Main"
    Names = {"u8", "T", "U"}
    Declared <- MCDeclared
    Ptr = "ptr"
    Slice = "slice"
    FixedArrays = {"arr2", "arr3"}
    None = "none"
    Previous = "Previous"
    Buckets = {0, 1}
    StackLimit = 5
    Programs <- MCPrograms
CHECK_DEADLOCK FALSE
INVARIANTS CacheClosed SpecialisedOnce FreedNeverGenerated OneBodyPerName
PROPERTIES RegularEnds
