SPECIFICATION FairSpec
CONSTANTS
  ID = {i1, i2}
  Thread = {g1, g2}
  Deadline <- MCDeadline
  Absent = Absent
  Free = Free
  Handler = {h1, h2}
  NilHandler = NilHandler
  MaxClock = 2
  MaxReg = 2
INVARIANT NotLost
PROPERTIES TimeoutOnlyWhenDue ImplementsLedger HandlerEventuallyCalled
CHECK_DEADLOCK FALSE
