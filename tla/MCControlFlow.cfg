SPECIFICATION Spec
CONSTANTS
    MaxTokens = 6
    Conds = {"value", "name", "composite"}
CONSTRAINT Bound
INVARIANTS
    VerdictFollowsBody
    LoopContextIsInnermost
    FollowsSource
    MergeIsReached
