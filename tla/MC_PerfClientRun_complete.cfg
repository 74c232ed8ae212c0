\* One worker, two connections of two streams each, no failure, Wait
\* without a timeout: the run completes and the exported samples are kept.
CONSTANTS
  WorkerCount = 1
  ConnectionCount = 2
  Streams = 2
  Upload = 0
  Download = 0
  StreamCount <- MCStreamCount
  RepeatConnections = FALSE
  RepeatStreams = FALSE
  WaitTimeout = FALSE
  PrintLatency = TRUE
  RunTime = 0
  PerSecond = 1
  MaxLatencyIndex <- MCMaxLatencyIndex
  SpecificLocalAddresses = TRUE
  BindAddresses <- MCBindWildcard
  InitCanFail = FALSE
  StreamOpenCanFail = FALSE
  TransportCanFail = FALSE
  MaxConnections = 2
  MaxStreamsPerConnection = 2
SPECIFICATION Spec
INVARIANT TypeOK
INVARIANT LatencyRingIntegrity
INVARIANT LatencyCountMatchesSuccesses
INVARIANT StreamsCompletedPerConnection
INVARIANT ExtraDataRoundTrip
INVARIANT BindSpreadRoundRobin
INVARIANT WorkersOnDistinctActiveProcessors
PROPERTY Termination
PROPERTY CreatedConnectionsComplete
\* The process ends when Wait returns; a stop before that is a hang, which
\* Termination reports with its trace.
CHECK_DEADLOCK FALSE
