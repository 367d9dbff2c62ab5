SPECIFICATION Spec
CONSTANTS
    MaxTokens = 5
    Conds = {"value", "name"}
INVARIANT ConditionsDecide
