SPECIFICATION Spec
CONSTANT MaxBlocks <- MCMaxBlocks
INVARIANTS TypeOK LockAccounted OperationsBalanced
PROPERTY NoRecordingCut
CHECK_DEADLOCK FALSE
