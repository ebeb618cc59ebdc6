SPECIFICATION ProcessSpec
CONSTANTS
  Keys = {"log-level", "vcs", "flag", "audio", "name", "config"}
  Values = {"info", "error", "1", "2", "true", "false", "yes", "no"}
  LayerInputs <- Layers
  MediaInputs <- MediaAndTalk
  Descriptions <- Descriptions4
  Launched <- Played
  Talks <- Conversations
  Labels = {"a", "b"}
  Randoms = {1}
  MaxConnections = 2
  MaxMessages = 2
  MaxTalk = 2
  Codecs = {"vp8", "h264", "h265"}
  InternalEncoders = {"vp8"}
  None = None
  Frames = 2
  FpsNum = 2
  FpsDen = 3
  Packets <- OpusPackets
  PreSkip = 1
  WavFrames = 3
  WavRate = 2
  SampleRate = 3
  SamplesPer10ms = 3
  Vcs = 2
  Sizes = {1, 2}
  Rates = {1, 2}
  Silence = Silence
  MaxTime = 9
  MaxSent = 12
  MaxCalls = 4
  Connecting <- TwoClients
  Clients = {c1, c2}
  Hosts = {home, other}
  Home = home
  Paths = {path}
  Missing = Missing
  ResolveTimeout = 1
  AttemptTimeout = 1
  FinalTimeout = 3
  MaxAddrs = 2
  MaxConnects = 2
SYMMETRY Symmetry
INVARIANTS
  LayersAgree
  InputsArePlayed
  MediaKeepTime
  LibraryServed
  MessagesInSequence
  SharedState
  ConnectEnds
CHECK_DEADLOCK FALSE
