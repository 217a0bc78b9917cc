SPECIFICATION FairSpec
CONSTANTS
  User = {u1, u2}
  Wait = {x1, x2}
  MaxCalls = 3
INVARIANT CallbackIsSet
PROPERTIES ReturnsAfterCallback DoReturns
CHECK_DEADLOCK FALSE
