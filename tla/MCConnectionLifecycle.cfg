SPECIFICATION Spec
CONSTANTS
  s1 = s1
  s2 = s2
  None = None
  Streams = {s1, s2}
  DirOf <- BothWaysDir
  KindOf <- VideoOnly
  SettingsSet <- SendRecvVideo
  Grace = 1
  StallSamples = 1
  MaxTime = 1
  MaxCount = 1
  MaxSamples = 3
INVARIANTS
  RowIsTruthful
  FirstSeenExact
