SPECIFICATION SendSpec
CONSTANTS
  u = u
  b = b
  UniSends = {u}
  BidiSends = {b}
  PeerSessionWindow = 1
  PeerStreamWindow = 2
  PeerStreamLimit <- Limits
  Sizes = {2}
  MaxCalls <- Calls
  MaxGrants = 1
INVARIANTS
  AckedIsSent
  WaitsOnlyForPeer
PROPERTIES
  CallsEnd
CHECK_DEADLOCK FALSE
