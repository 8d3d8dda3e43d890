SPECIFICATION Spec
CONSTANT MaxTxn = 3
INVARIANTS AnswerRight StackIsPath
PROPERTY SearchEnds
CHECK_DEADLOCK FALSE
