SPECIFICATION MediaSpec
CONSTANTS
  ObjectsPerGroup = 3
  MaxCatchUp = 0
  MaxFailures = 2
  Capacity = 1
  MaxLag = 2
  MaxGroups = 2
INVARIANTS
  DecodedAsSent
  PublishesInOrder
  CountedOnce
PROPERTIES
  EndedStreamsAreRead
