SPECIFICATION Spec
CONSTANTS
  Tracks = {video, audio}
  Subscribed = {peer}
  Targets = {other, same, bad}
  NoGoaway = NoGoaway
  MigrateOnGoaway = TRUE
  Home = home
  SameUri = same
  BadUris = {bad}
  MaxRetry = 1
  HasDuration = TRUE
  Repeats = TRUE
INVARIANTS
  RequestsInOrder
  GoawayFollowed
  EndsForAReason
PROPERTIES
  EventsPaired
  HeldOnlyInWaits
