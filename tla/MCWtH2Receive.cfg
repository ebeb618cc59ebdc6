SPECIFICATION Spec
CONSTANTS
  u = u
  b = b
  Uni = {u}
  Bidi = {b}
  l = l
  Local = {l}
  SessionWindow = 2
  StreamWindow = 2
  StreamLimit = 1
  MaxBytes <- Sent
INVARIANTS
  WindowsConserved
  StreamsReturned
PROPERTIES
  LeaversSettled
CHECK_DEADLOCK FALSE
