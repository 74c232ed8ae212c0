\* Every failure path: Initialize, StreamOpen and the transport may fail;
\* Wait has a timeout, so the run still ends.
CONSTANTS
  WorkerCount = 2
  ConnectionCount = 2
  Streams = 2
  Upload = 0
  Download = 0
  StreamCount <- MCStreamCount
  RepeatConnections = FALSE
  RepeatStreams = FALSE
  WaitTimeout = TRUE
  PrintLatency = TRUE
  RunTime = 0
  PerSecond = 1
  MaxLatencyIndex <- MCMaxLatencyIndex
  SpecificLocalAddresses = FALSE
  BindAddresses <- MCNoBind
  InitCanFail = TRUE
  StreamOpenCanFail = TRUE
  TransportCanFail = TRUE
  MaxConnections = 2
  MaxStreamsPerConnection = 2
SPECIFICATION Spec
INVARIANT LatencyRingIntegrity
INVARIANT ActiveCountsUncompletedConnections
PROPERTY Termination
\* The process ends when Wait returns; a stop before that is a hang, which
\* Termination reports with its trace.
CHECK_DEADLOCK FALSE
