SPECIFICATION Spec
CONSTANTS
  Cell = {0, 1, 2, 3}
  FFFF = 3
  Cookie = 2
  CookiePort = 1
  TIDs <- MCTIDs
  IPs <- MCIPs
  Ports = {0, 1, 2, 3}
  Values <- MCValues
  Caps = {0, 2, 4}
  MaxGets = 3
INVARIANT RoundTrip
PROPERTY NoLeftovers
CHECK_DEADLOCK FALSE
