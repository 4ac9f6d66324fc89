SPECIFICATION FairSpec
CONSTANT MaxBlocks <- MCMaxBlocks
PROPERTY RecordingEnds
CHECK_DEADLOCK FALSE
