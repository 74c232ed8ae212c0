\* Repeat mode (-rconn:1 -rstream:1 -runtime:1000 -bind:<addr>): connections and streams
\* are replaced until the timer stops the run; LatencyValues holds 2 samples.
CONSTANTS
  WorkerCount = 1
  ConnectionCount = 1
  Streams = 1
  Upload = 0
  Download = 0
  StreamCount <- MCStreamCount
  RepeatConnections = TRUE
  RepeatStreams = TRUE
  WaitTimeout = TRUE
  PrintLatency = TRUE
  RunTime = 1000
  PerSecond = 2
  MaxLatencyIndex <- MCMaxLatencyIndex
  SpecificLocalAddresses = TRUE
  BindAddresses <- MCBindSpecific
  InitCanFail = FALSE
  StreamOpenCanFail = FALSE
  TransportCanFail = TRUE
  MaxConnections = 3
  MaxStreamsPerConnection = 3
SPECIFICATION Spec
INVARIANT LatencyRingIntegrity
INVARIANT LatencyCountMatchesSuccesses
PROPERTY Termination
\* The process ends when Wait returns; a stop before that is a hang, which
\* Termination reports with its trace.
CHECK_DEADLOCK FALSE
