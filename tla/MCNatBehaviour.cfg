SPECIFICATION FairSpec
INVARIANT ConclusionIsRight
PROPERTIES Terminates
CHECK_DEADLOCK FALSE
