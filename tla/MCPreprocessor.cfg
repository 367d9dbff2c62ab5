SPECIFICATION Spec
CONSTANT MaxLines = 5
INVARIANTS
    FramesSummarise
    KeepsSelectedText
    PreservesLineNumbers
    SucceedsOnWellFormed
PROPERTY ImplementsConditionalText
CHECK_DEADLOCK FALSE
