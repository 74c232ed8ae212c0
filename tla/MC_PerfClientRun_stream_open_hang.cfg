\* A failing StreamOpen, Wait without a timeout: the run never ends.
CONSTANTS
  WorkerCount = 1
  ConnectionCount = 1
  Streams = 1
  Upload = 0
  Download = 0
  StreamCount <- MCStreamCount
  RepeatConnections = FALSE
  RepeatStreams = FALSE
  WaitTimeout = FALSE
  PrintLatency = TRUE
  RunTime = 0
  PerSecond = 1
  MaxLatencyIndex <- MCMaxLatencyIndex
  SpecificLocalAddresses = FALSE
  BindAddresses <- MCNoBind
  InitCanFail = FALSE
  StreamOpenCanFail = TRUE
  TransportCanFail = FALSE
  MaxConnections = 1
  MaxStreamsPerConnection = 2
SPECIFICATION Spec
PROPERTY Termination
CHECK_DEADLOCK FALSE
