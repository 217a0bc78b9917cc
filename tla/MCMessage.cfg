SPECIFICATION Spec
CONSTANTS
  Types <- BindingSuccess
  TIDs = {1}
  Attrs = {3, 32}
  Integrity = 4
  Fingerprint = 5
  OldXOR = 32
  NewXOR = 33
  Values <- MCValues
  Keys = {1, 2}
  Packets <- MCPackets
  padding = 4
  Word = 16
  messageIntegritySize = 4
  fingerprintSize = 4
  NewCap = 12
  Slack = 2
  MaxAttrs = 3
  MaxCalls = 5
  MaxTrailing = 1
INVARIANTS TypeOK RoundTrip PaddingIsZero IntegrityVerifies FingerprintVerifies
INVARIANTS GotStays ReadersAgree
CHECK_DEADLOCK FALSE
