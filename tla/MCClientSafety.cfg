SPECIFICATION Spec
CONSTANTS
  u1 = u1  u2 = u2  k1 = k1  k2 = k2  w1 = w1  i1 = i1  i2 = i2
  coll = coll  reader = reader  Coll = coll  Reader = reader
  User <- Users2
  Closer <- Closers1
  Owner <- Owners0
  Thread <- MCThread
  ID = {ZeroID, i1, i2}
  ZeroID = ZeroID
  Deadline <- MCDeadline
  Absent = Absent
  Free = Free
  Obj = {o1, o2}
  Nil = Nil
  MaxAttempts = 1
  CloseConn = TRUE
  CollectorFails = FALSE
  HandlersClose = TRUE
  MsgLen <- Mixed
  BufCap = 2
  ReuseIDs = FALSE
  MaxCalls = 2
  MaxWriteErrs = 0
SYMMETRY Symm
INVARIANTS TypeOK OwnEventOnly OneHolder NoneStranded CloseOrder
PROPERTIES NoCallbackAfterClose ImplementsLedger
CHECK_DEADLOCK FALSE
