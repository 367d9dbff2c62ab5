SPECIFICATION Spec
CONSTANTS
    Locals <- MCLocals
    Results <- MCResults
    Fields <- MCFields
    Params <- MCParams
    MaxNodes = 6
    Half = 2
INVARIANT SlicesBecomePointers
