SPECIFICATION Spec
CONSTANTS
    S = S
    T = T
    A = A
    u8 = u8
    i32 = i32
    slice = slice
    Types <- MCTypes
    Prims <- MCPrims
    PrimSize <- MCPrimSize
    PrimAlign <- MCPrimAlign
    Programs <- MCPrograms
INVARIANT ImportedLayoutsKnown
CHECK_DEADLOCK FALSE
