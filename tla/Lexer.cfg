CONSTANT Source <- AllTexts
SPECIFICATION LexSpec
CHECK_DEADLOCK FALSE
INVARIANTS ReadsAsWritten LineRight
PROPERTY Analyzed
