SPECIFICATION FairSpec
CONSTANTS
  DefaultRTO = 3
  DefaultMaxAttempts = 3
  Rate = 2
  RTOs = {0, 1, 4}
  MaxStart = 3
INVARIANTS TypeOK LinearBackoff
PROPERTIES TimesOut
CHECK_DEADLOCK FALSE
