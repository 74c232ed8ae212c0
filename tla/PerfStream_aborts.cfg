\* An upload of 7 bytes in I/O units of 3 (two full buffers and a short
\* last one), a 4-byte response, and the transport moving the ideal send
\* buffer below, to and above the upload size.  The peer may abort its
\* send (PEER_SEND_ABORTED) or its receive (PEER_RECEIVE_ABORTED) at any
\* point, so that buffers complete cancelled.
CONSTANTS
  IoSize = 3
  U64Size = 2
  Upload = 7
  Download = 4
  UseSendBuffering = FALSE
  PrintThroughput = TRUE
  IdealSizes = {1, 4, 8}
  TransportCanFail = TRUE
  TimedModes = {FALSE, TRUE}
  TimedUpload = 1
  TimedDownload = 1
  UsPerMs = 1
  MaxEventsPerTick = 2
  MaxTime = 3
SPECIFICATION Spec
\* The stream is freed after OnStreamShutdownComplete: that state has no
\* successor, and StreamCompletes reports a stream that stops before it.
CHECK_DEADLOCK FALSE
INVARIANT TypeOK
INVARIANT OutstandingIsInFlight
INVARIANT RequestDeliveredExactly
INVARIANT SampleIffDelivered
PROPERTY StreamCompletes
PROPERTY StreamSucceedsWithoutFaults
PROPERTY StreamOutcomeRefined
