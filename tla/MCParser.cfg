SPECIFICATION FairSpec
CONSTANT Texts <- MCTexts
INVARIANTS
    NamesNextStatement
    ParsesExpressions
    RecoversAtNext
    ConditionsReadAsExpressions
PROPERTY EveryParseEnds
CHECK_DEADLOCK FALSE
