SPECIFICATION Spec
CONSTANTS
    MaxTokens = 4
    Conds = {"value", "name"}
INVARIANT EveryPathReturns
