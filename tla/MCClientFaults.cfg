SPECIFICATION FairSpec
CONSTANTS
  u1 = u1  u2 = u2  k1 = k1  k2 = k2  w1 = w1  i1 = i1  i2 = i2
  coll = coll  reader = reader  Coll = coll  Reader = reader
  User <- Users1
  Closer <- Closers2
  Owner <- Owners1
  Thread <- MCThread
  ID = {ZeroID, i1}
  ZeroID = ZeroID
  Deadline <- MCDeadline
  Absent = Absent
  Free = Free
  Obj = {o1}
  Nil = Nil
  MaxAttempts = 1
  CloseConn = TRUE
  CollectorFails = TRUE
  HandlersClose = TRUE
  MsgLen <- Small
  BufCap = 2
  ReuseIDs = FALSE
  MaxCalls = 1
  MaxWriteErrs = 2
PROPERTIES ImplementsLedger HandledUnlessClosed CloseReturns NoCallbackAfterClose
CHECK_DEADLOCK FALSE
