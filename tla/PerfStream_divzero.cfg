\* A download-only stream (the 8-byte request, scaled to U64Size) asking for
\* a 2-byte response, with -ptput on: the server may answer in a single
\* RECEIVE that carries the FIN.
CONSTANTS
  IoSize = 3
  U64Size = 2
  Upload = 0
  Download = 2
  UseSendBuffering = FALSE
  PrintThroughput = TRUE
  IdealSizes = {1}
  TransportCanFail = FALSE
  TimedModes = {FALSE}
  TimedUpload = 1
  TimedDownload = 1
  UsPerMs = 1
  MaxEventsPerTick = 2
  MaxTime = 3
SPECIFICATION Spec
CHECK_DEADLOCK FALSE
INVARIANT NoDownloadDivideByZero
