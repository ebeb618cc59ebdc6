SPECIFICATION MCSpec
CONSTANTS
  Routes = {"wt_h3"}
  Uni = {u1}
  Bidi = {b1}
  Capacity = 1
  DatagramCapacity = 1
  ReadSize = 1
  None = None
  MaxPeer = 2
  MaxOps = 1
PROPERTIES
  PayloadsAreSent
