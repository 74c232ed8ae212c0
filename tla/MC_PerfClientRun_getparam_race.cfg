\* -share:1 with no bound address: the worker reads back the local address
\* of the connection it has just started.
CONSTANTS
  WorkerCount = 1
  ConnectionCount = 1
  Streams = 1
  Upload = 0
  Download = 0
  StreamCount <- MCStreamCount
  RepeatConnections = FALSE
  RepeatStreams = FALSE
  WaitTimeout = FALSE
  PrintLatency = TRUE
  RunTime = 0
  PerSecond = 1
  MaxLatencyIndex <- MCMaxLatencyIndex
  SpecificLocalAddresses = TRUE
  BindAddresses <- MCNoBind
  InitCanFail = FALSE
  StreamOpenCanFail = FALSE
  TransportCanFail = FALSE
  MaxConnections = 1
  MaxStreamsPerConnection = 2
SPECIFICATION Spec
INVARIANT NoHandleUseAfterClose
\* The process ends after Wait returns, so a final state is no error.
CHECK_DEADLOCK FALSE
