SPECIFICATION Spec
CONSTANT Texts <- MCTexts
INVARIANT AssignmentIsRightAssociative
CHECK_DEADLOCK FALSE
