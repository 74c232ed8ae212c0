\* Two workers, two connections of two streams each, no failure, Wait
\* without a timeout; the caller then exports the extra data.
CONSTANTS
  WorkerCount = 2
  ConnectionCount = 2
  Streams = 2
  Upload = 0
  Download = 0
  StreamCount <- MCStreamCount
  RepeatConnections = FALSE
  RepeatStreams = FALSE
  WaitTimeout = FALSE
  PrintLatency = TRUE
  RunTime = 0
  PerSecond = 1
  MaxLatencyIndex <- MCMaxLatencyIndex
  SpecificLocalAddresses = TRUE
  BindAddresses <- MCNoBind
  InitCanFail = FALSE
  StreamOpenCanFail = FALSE
  TransportCanFail = FALSE
  MaxConnections = 2
  MaxStreamsPerConnection = 2
SPECIFICATION Spec
INVARIANT ExtraDataRoundTrip
\* The process ends after the export, so a final state is no error.
CHECK_DEADLOCK FALSE
