CONSTANTS
  MaxAttempts = 2
  MaxDo = 3
  MaxApp = 3
SPECIFICATION FairSpec
INVARIANT FailsOnlyBehindData
PROPERTIES DoEnds EchoesAll ClientEnds
