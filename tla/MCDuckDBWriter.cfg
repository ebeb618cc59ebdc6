SPECIFICATION Spec
CONSTANTS
  c1 = c1
  c2 = c2
  Clients = {c1, c2}
  StatsCapacity = 1
  MaxErrors = 2
  Reports <- ReportsOf
  MaxSamples <- Ticks
INVARIANTS
  CommandsRecorded
  SamplesAccounted
PROPERTIES
  WriterKeepsUp
