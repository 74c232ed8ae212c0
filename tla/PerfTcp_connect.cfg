\* One TCP connection with two streams, which the engine either connects
\* or fails to connect.
CONSTANTS
  StreamCount = 2
SPECIFICATION Spec
\* The connection object is freed or left waiting after its one callback.
CHECK_DEADLOCK FALSE
INVARIANT ConnectedConnectionRunsStreams
