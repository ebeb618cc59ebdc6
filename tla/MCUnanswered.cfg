SPECIFICATION Spec
CONSTANTS
  Tracks = {video, audio}
  Subscribed = {}
  Targets = {other}
  NoGoaway = NoGoaway
  MigrateOnGoaway = TRUE
  Home = home
  SameUri = same
  BadUris = {}
  MaxRetry = 0
  HasDuration = FALSE
  Repeats = FALSE
PROPERTIES
  SilenceIsNoticed
