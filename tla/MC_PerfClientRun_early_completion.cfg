\* One worker, two connections without streams: the completion event is set
\* while a queued connection has not completed.
CONSTANTS
  WorkerCount = 1
  ConnectionCount = 2
  Streams = 0
  Upload = 0
  Download = 0
  StreamCount <- MCStreamCount
  RepeatConnections = FALSE
  RepeatStreams = FALSE
  WaitTimeout = FALSE
  PrintLatency = TRUE
  RunTime = 0
  PerSecond = 1
  MaxLatencyIndex <- MCMaxLatencyIndex
  SpecificLocalAddresses = FALSE
  BindAddresses <- MCNoBind
  InitCanFail = FALSE
  StreamOpenCanFail = FALSE
  TransportCanFail = FALSE
  MaxConnections = 2
  MaxStreamsPerConnection = 2
SPECIFICATION Spec
INVARIANT CompletionMeansAllCompleted
\* The process ends after Wait returns, so a final state is no error.
CHECK_DEADLOCK FALSE
