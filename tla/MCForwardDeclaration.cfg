SPECIFICATION Spec
CONSTANT Texts <- MCTexts
INVARIANT FunctionsCanBeForwardDeclared
CHECK_DEADLOCK FALSE
