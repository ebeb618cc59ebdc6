SPECIFICATION MCSpec
CONSTANTS
  N = 3
  W = 2
  RuntimesFail = TRUE
  Absent = Absent
  MaxEndings = 3
  Endings <- Ends
  LimitSets <- Limits
  Asked <- AskedTracks
  Words = {"", "a", "b", "digits", "video", "subgroup", "datagram"}
  Rates = {1, 2}
  DefaultRate = 2
  DefaultSize = 2
  MaxSize = 3
  InstanceCount = 2
  Vcs = 2
  MaxObjects = 2
INVARIANTS
  ResultsAccounted
  SinksOutliveWorkers
  ReportEarned
  TracksAsAsked
PROPERTIES
  TestsComplete
