----------------------------- MODULE PerfStream -----------------------------
(***************************************************************************)
(* One PerfClientStream on a QUIC connection (src/perf/lib/PerfClient.cpp, *)
(* PerfClientStream::Send, OnSendComplete, OnReceive, StreamCallback and   *)
(* OnStreamShutdownComplete), in byte-count mode or in timed mode, against *)
(* the QUIC transport: it completes the buffers given to StreamSend in     *)
(* order, delivers the server's response after the request, raises         *)
(* IDEAL_SEND_BUFFER_SIZE, and may abort either direction.                 *)
(*                                                                         *)
(* Byte sizes are scaled down keeping their order: U64Size stands for      *)
(* sizeof(uint64_t) and IoSize for the I/O size, with U64Size < IoSize as   *)
(* Init's check iosize >= 256 guarantees.  In timed mode Upload and       *)
(* Download are durations in ms; UsPerMs scales them to the clock's unit.  *)
(* The transport then completes or delivers at most MaxEventsPerTick      *)
(* events per clock tick while a timer of the stream runs: its bandwidth   *)
(* is finite, which bounds the bytes a timed stream moves.                 *)
(***************************************************************************)
EXTENDS Naturals, Sequences, SequencesExt

CONSTANTS
  IoSize,            \* PerfClient::IoSize
  U64Size,           \* sizeof(uint64_t): the download request
  Upload,            \* PerfClient::Upload (bytes)
  Download,          \* PerfClient::Download (bytes)
  UseSendBuffering,  \* PerfClient::UseSendBuffering
  PrintThroughput,   \* PerfClient::PrintThroughput
  IdealSizes,        \* values the transport may give as ideal send buffer
  TransportCanFail,  \* the peer may abort its send or its receive
  TimedModes,        \* values of PerfClient::Timed the stream may run with
  TimedUpload,       \* PerfClient::Upload in timed mode (ms)
  TimedDownload,     \* PerfClient::Download in timed mode (ms)
  UsPerMs,           \* MS_TO_US, scaled to the model's clock
  MaxEventsPerTick,  \* bound: transport events per clock tick while a timer runs
  MaxTime            \* bound: the microsecond clock

ASSUME /\ U64Size \in Nat \ {0} /\ IoSize \in Nat /\ U64Size < IoSize
       /\ Upload \in Nat /\ Download \in Nat
       /\ IdealSizes \subseteq Nat \ {0}
       /\ {UseSendBuffering, PrintThroughput, TransportCanFail} \subseteq BOOLEAN
       /\ TimedModes \subseteq BOOLEAN /\ TimedModes /= {}
       /\ {TimedUpload, TimedDownload, UsPerMs} \subseteq Nat
       /\ MaxEventsPerTick \in Nat \ {0}
       /\ MaxTime \in Nat \ {0}

VARIABLES
  timed,              \* PerfClient::Timed
  events,             \* transport events delivered in the current clock tick
  now,                \* CxPlatTimeUs64()
  startTime, sendEndTime, recvStartTime, recvEndTime,  \* 0 = unset
  bytesSent, bytesOutstanding, bytesAcked, bytesReceived,
  idealSendBuffer,    \* PerfClientStream::IdealSendBuffer
  sendComplete,       \* PerfClientStream::SendComplete
  inflight,           \* buffers given to StreamSend and not yet completed
  sendDir,            \* transport send side: "open", "finished", "aborted", "shutdown"
  recvDir,            \* transport receive side: "open", "fin", "aborted"
  peerGotFin,         \* the server has received the request's FIN
  peerSent,           \* response bytes the server has sent
  finalized,          \* OnStreamShutdownComplete has run
  result              \* its outcome

streamVars == <<startTime, sendEndTime, recvStartTime, recvEndTime, bytesSent,
                bytesOutstanding, bytesAcked, bytesReceived, idealSendBuffer,
                sendComplete>>
transportVars == <<inflight, sendDir, recvDir, peerGotFin, peerSent>>
vars == <<timed, events, now, streamVars, transportVars, finalized, result>>

Buffer == [len : Nat, fin : BOOLEAN]
Outcome == [sendSuccess : BOOLEAN, recvSuccess : BOOLEAN]

-----------------------------------------------------------------------------
(* PerfClientStream::Send.                                                 *)

(* PerfClient::Upload and Download: bytes, or ms when Timed.               *)
ClientUpload == IF timed THEN TimedUpload ELSE Upload
ClientDownload == IF timed THEN TimedDownload ELSE Download
MS_TO_US(ms) == ms * UsPerMs

(* UINT64_MAX, scaled like the byte sizes: above every byte count.        *)
UINT64_MAX == 2147483647

(* BytesLeftToSend: unbounded in timed mode ("timed sends forever"), else *)
(* the rest of the upload, or the 8-byte download request.                 *)
BytesLeftToSend(sent) ==
  IF timed THEN UINT64_MAX
  ELSE IF ClientUpload > 0 THEN ClientUpload - sent ELSE U64Size

(* DataLength of the next buffer, and whether it is the last one.          *)
IsLastBuffer(left) == IoSize >= left
DataLengthUnshrunk(left) == IoSize
DataLength(left) == IF IsLastBuffer(left) THEN left ELSE IoSize

(* One pass of the loop over s = [sent, out, complete, queue]: DataLength *)
(* is added to BytesSent and BytesOutstanding and one buffer goes to       *)
(* MsQuic->StreamSend.  It carries FIN when it is the last buffer, or, in  *)
(* timed mode, once Upload ms have passed since StartTime.                 *)
TimedUploadElapsed == timed /\ now - startTime >= MS_TO_US(ClientUpload)

SendPass(s) ==
  LET left == BytesLeftToSend(s.sent)
      len  == DataLength(left)
      fin  == IsLastBuffer(left) \/ TimedUploadElapsed
  IN  [sent |-> s.sent + len, out |-> s.out + len, complete |-> fin,
       queue |-> Append(s.queue, [len |-> len, fin |-> fin])]

(* Mutant of SendLoop: the loop waits for room for a whole buffer.       *)
RECURSIVE SendLoopNeedsFullRoom(_, _)
SendLoopNeedsFullRoom(s, ideal) ==
  IF s.complete \/ s.out + IoSize > ideal THEN s
  ELSE SendLoopNeedsFullRoom(SendPass(s), ideal)

(* The loop `while (!SendComplete && BytesOutstanding < IdealSendBuffer)`. *)
RECURSIVE SendLoop(_, _)
SendLoop(s, ideal) ==
  IF s.complete \/ s.out >= ideal THEN s
  ELSE SendLoop(SendPass(s), ideal)

(* Send() as a change of the stream and of the transport's send queue,    *)
(* given the IdealSendBuffer it runs with.                                 *)
Send(ideal) ==
  LET s == SendLoop([sent |-> bytesSent, out |-> bytesOutstanding,
                     complete |-> sendComplete, queue |-> inflight], ideal)
  IN  /\ bytesSent' = s.sent
      /\ bytesOutstanding' = s.out
      /\ sendComplete' = s.complete
      /\ inflight' = s.queue

-----------------------------------------------------------------------------
(* Stream callbacks.                                                       *)

(* A timer of a timed stream is running: the upload, until Send sees      *)
(* Upload ms elapsed, or the download, from the first RECEIVE until        *)
(* OnReceive sees Download ms elapsed.                                     *)
UploadTimerRunning == timed /\ ~sendComplete /\ ~TimedUploadElapsed
DownloadTimerRunning ==
  /\ timed /\ recvStartTime /= 0 /\ recvDir = "open"
  /\ now - recvStartTime < MS_TO_US(ClientDownload)
TimerRunning == UploadTimerRunning \/ DownloadTimerRunning

(* The transport's bandwidth: while a timer runs it delivers at most      *)
(* MaxEventsPerTick completions and receives per clock tick.               *)
CanDeliver == TimerRunning => events < MaxEventsPerTick
Delivered == events' = IF TimerRunning THEN events + 1 ELSE events

(* PerfClientStream::OnSendComplete for a buffer the transport acked.      *)
OnSendComplete ==
  LET b == Head(inflight) IN
  /\ sendDir = "open"
  /\ inflight /= <<>>
  /\ CanDeliver /\ Delivered
  /\ bytesAcked' = bytesAcked + b.len
  /\ LET s == SendLoop([sent |-> bytesSent, out |-> bytesOutstanding - b.len,
                        complete |-> sendComplete, queue |-> Tail(inflight)],
                       idealSendBuffer)
     IN  /\ bytesSent' = s.sent
         /\ bytesOutstanding' = s.out
         /\ sendComplete' = s.complete
         /\ inflight' = s.queue
  /\ sendDir' = IF b.fin THEN "finished" ELSE "open"
  /\ peerGotFin' = b.fin
  /\ UNCHANGED <<timed, now, startTime, sendEndTime, recvStartTime, recvEndTime,
                 bytesReceived, idealSendBuffer, recvDir, peerSent, finalized, result>>

OnSendCanceledKeepsOutstanding ==
  /\ sendDir = "aborted"
  /\ inflight /= <<>>
  /\ inflight' = Tail(inflight)
  /\ UNCHANGED <<timed, events, now, startTime, sendEndTime, recvStartTime,
                 recvEndTime, bytesSent, bytesOutstanding, bytesAcked, bytesReceived,
                 idealSendBuffer, sendComplete, sendDir, recvDir, peerGotFin,
                 peerSent, finalized, result>>

(* OnSendComplete(Length, Canceled = TRUE) for a buffer the abort of the   *)
(* send direction cancelled: only BytesOutstanding changes.                *)
OnSendCanceled ==
  /\ sendDir = "aborted"
  /\ inflight /= <<>>
  /\ bytesOutstanding' = bytesOutstanding - Head(inflight).len
  /\ inflight' = Tail(inflight)
  /\ UNCHANGED <<timed, events, now, startTime, sendEndTime, recvStartTime,
                 recvEndTime, bytesSent, bytesAcked, bytesReceived, idealSendBuffer,
                 sendComplete, sendDir, recvDir, peerGotFin, peerSent, finalized, result>>

(* QUIC_STREAM_EVENT_IDEAL_SEND_BUFFER_SIZE: when uploading without send  *)
(* buffering, a new value is stored and Send() runs again.  The handler   *)
(* has no guard of its own on the send direction: sendDir = "open" is the *)
(* assumption that msquic indicates the size only to a stream that can    *)
(* still send, so that every StreamSend of Send() (whose status the code  *)
(* ignores) is accepted.                                                   *)
OnIdealSendBufferSize(v) ==
  /\ sendDir = "open"
  /\ ClientUpload > 0 /\ ~UseSendBuffering /\ idealSendBuffer /= v
  /\ idealSendBuffer' = v
  /\ Send(v)
  /\ UNCHANGED <<timed, events, now, startTime, sendEndTime, recvStartTime,
                 recvEndTime, bytesAcked, bytesReceived, sendDir, recvDir,
                 peerGotFin, peerSent, finalized, result>>

(* QUIC_STREAM_EVENT_RECEIVE: PerfClientStream::OnReceive, with the        *)
(* server's next len response bytes and its FIN flag.  The first event     *)
(* stamps RecvStartTime; a FIN stamps RecvEndTime with the same Now, and   *)
(* so does, in timed mode, a RECEIVE Download ms after RecvStartTime,      *)
(* which then shuts the receive direction down with ABORT_RECEIVE.         *)
OnReceive(len, fin) ==
  LET start == IF recvStartTime = 0 THEN now ELSE recvStartTime
      stop  == timed /\ now - start >= MS_TO_US(ClientDownload)
  IN  /\ recvDir = "open"
      /\ peerGotFin
      /\ CanDeliver /\ Delivered
      /\ bytesReceived' = bytesReceived + len
      /\ recvStartTime' = start
      /\ recvEndTime' = IF fin \/ stop THEN now ELSE recvEndTime
      /\ peerSent' = peerSent + len
      /\ recvDir' = IF fin THEN "fin" ELSE IF stop THEN "stopped" ELSE "open"
      /\ UNCHANGED <<timed, now, startTime, sendEndTime, bytesSent, bytesOutstanding,
                     bytesAcked, idealSendBuffer, sendComplete, inflight, sendDir,
                     peerGotFin, finalized, result>>

(* The server's response: the requested Download bytes, in pieces, then   *)
(* FIN (on the last piece or alone).  A timed request asks for UINT64_MAX  *)
(* bytes: the server sends until the client stops receiving.               *)
PeerResponse ==
  IF timed
  THEN \E len \in 1 .. IoSize : OnReceive(len, FALSE)
  ELSE LET rem == Download - peerSent IN
       \E len \in 0 .. rem :
         \E fin \in (IF len = rem THEN BOOLEAN ELSE {FALSE}) :
           /\ len > 0 \/ fin
           /\ OnReceive(len, fin)

(* QUIC_STREAM_EVENT_PEER_SEND_ABORTED: stamp RecvEndTime once, then      *)
(* StreamShutdown(ABORT), which also aborts the send direction.            *)
OnPeerSendAborted ==
  /\ TransportCanFail
  /\ recvDir = "open"
  /\ recvEndTime' = IF recvEndTime = 0 THEN now ELSE recvEndTime
  /\ recvDir' = "aborted"
  /\ sendDir' = IF sendDir = "open" THEN "aborted" ELSE sendDir
  /\ UNCHANGED <<timed, events, now, startTime, sendEndTime, recvStartTime, bytesSent,
                 bytesOutstanding, bytesAcked, bytesReceived, idealSendBuffer,
                 sendComplete, inflight, peerGotFin, peerSent, finalized, result>>

(* A server that stopped receiving before the request's FIN has nothing  *)
(* to answer and resets its send side.                                     *)
PeerAbandons ==
  /\ ~peerGotFin /\ sendDir /= "open"
  /\ OnPeerSendAborted

(* QUIC_STREAM_EVENT_PEER_RECEIVE_ABORTED: stamp SendEndTime once,        *)
(* StreamShutdown(ABORT_SEND), SendComplete = true.                        *)
OnPeerReceiveAborted ==
  /\ TransportCanFail
  /\ sendDir = "open"
  /\ sendEndTime' = IF sendEndTime = 0 THEN now ELSE sendEndTime
  /\ sendDir' = "aborted"
  /\ sendComplete' = TRUE
  /\ UNCHANGED <<timed, events, now, startTime, recvStartTime, recvEndTime, bytesSent,
                 bytesOutstanding, bytesAcked, bytesReceived, idealSendBuffer,
                 inflight, recvDir, peerGotFin, peerSent, finalized, result>>

(* QUIC_STREAM_EVENT_SEND_SHUTDOWN_COMPLETE, once the FIN is acked or the *)
(* send direction aborted and drained: SendEndTime = CxPlatTimeUs64().     *)
OnSendShutdownComplete ==
  /\ sendDir \in {"finished", "aborted"}
  /\ inflight = <<>>
  /\ sendEndTime' = now
  /\ sendDir' = "shutdown"
  /\ UNCHANGED <<timed, events, now, startTime, recvStartTime, recvEndTime, bytesSent,
                 bytesOutstanding, bytesAcked, bytesReceived, idealSendBuffer,
                 sendComplete, inflight, recvDir, peerGotFin, peerSent, finalized, result>>

(* QUIC_STREAM_EVENT_SHUTDOWN_COMPLETE, once both directions are shut     *)
(* down: PerfClientStream::OnStreamShutdownComplete judges the stream.     *)
(* A timed stream needs only 8 bytes acked and one byte received.         *)
(* SendEndTime and RecvEndTime stay as they are; what the connection does  *)
(* with the outcome is modelled in PerfClientRun.                          *)
SendSuccess ==
  /\ sendEndTime /= 0
  /\ ClientUpload > 0 =>
       bytesAcked >= U64Size /\ (~timed => bytesAcked >= ClientUpload)

RecvSuccessStrict ==
  /\ recvStartTime /= 0 /\ recvEndTime /= 0
  /\ ClientDownload > 0 =>
       bytesReceived /= 0 /\ (~timed => bytesReceived > ClientDownload)

RecvSuccessAnyBytes ==
  /\ recvStartTime /= 0 /\ recvEndTime /= 0
  /\ ClientDownload > 0 => bytesReceived /= 0

RecvSuccess ==
  /\ recvStartTime /= 0 /\ recvEndTime /= 0
  /\ ClientDownload > 0 =>
       bytesReceived /= 0 /\ (~timed => bytesReceived >= ClientDownload)

OnStreamShutdownComplete ==
  /\ ~finalized
  /\ sendDir = "shutdown"
  /\ recvDir /= "open"
  /\ finalized' = TRUE
  /\ result' = [sendSuccess |-> SendSuccess, recvSuccess |-> RecvSuccess]
  /\ UNCHANGED <<timed, events, now, streamVars, transportVars>>

(* The microsecond clock advances.  In timed mode only the timers read    *)
(* it, and it is modelled only while one of them runs.                     *)
Tick ==
  /\ now < MaxTime
  /\ timed => TimerRunning
  /\ now' = now + 1
  /\ events' = 0
  /\ UNCHANGED <<timed, streamVars, transportVars, finalized, result>>

-----------------------------------------------------------------------------
(* The stream as StartNewStream leaves it: constructed with StartTime now *)
(* and IdealSendBuffer = IoSize, then Send() has run once.                 *)
Init ==
  /\ timed \in TimedModes
  /\ events = 0
  /\ now = 1
  /\ startTime = now
  /\ LET s == SendLoop([sent |-> 0, out |-> 0, complete |-> FALSE, queue |-> <<>>],
                       IoSize)
     IN  /\ bytesSent = s.sent /\ bytesOutstanding = s.out
         /\ sendComplete = s.complete
         /\ inflight = s.queue
  /\ sendEndTime = 0 /\ recvStartTime = 0 /\ recvEndTime = 0
  /\ bytesAcked = 0 /\ bytesReceived = 0
  /\ idealSendBuffer = IoSize
  /\ sendDir = "open" /\ recvDir = "open"
  /\ peerGotFin = FALSE /\ peerSent = 0
  /\ finalized = FALSE
  /\ result = [sendSuccess |-> FALSE, recvSuccess |-> FALSE]

(* PerfClientStream::StreamCallback: the stream events the transport      *)
(* delivers, one at a time.                                                *)
StreamCallback ==
  \/ PeerResponse
  \/ OnSendComplete
  \/ OnSendCanceled
  \/ OnPeerSendAborted
  \/ OnPeerReceiveAborted
  \/ OnSendShutdownComplete
  \/ OnStreamShutdownComplete
  \/ \E v \in IdealSizes : OnIdealSendBufferSize(v)

Next == StreamCallback \/ Tick

(* The transport delivers every event it owes the stream: completions of  *)
(* the buffers it was given, the response, and the shutdown events.  The  *)
(* peer's aborts, new ideal sizes and the clock are not owed, except that *)
(* a server left without a request resets its response, and that time     *)
(* passes while a timed stream waits for its timer.                        *)
Fairness ==
  /\ WF_vars(OnSendComplete)
  /\ WF_vars(OnSendCanceled)
  /\ WF_vars(PeerResponse)
  /\ WF_vars(PeerAbandons)
  /\ WF_vars(OnSendShutdownComplete)
  /\ WF_vars(OnStreamShutdownComplete)
  /\ WF_vars(Tick /\ TimerRunning)

Spec == Init /\ [][Next]_vars /\ Fairness

-----------------------------------------------------------------------------
(* Refinement of StreamOutcome.  The request is delivered once the server *)
(* has its FIN or, for a timed upload, once 8 bytes are acked (all that   *)
(* SendSuccess asks of it), and cut once the send side is aborted before  *)
(* that.  The response is delivered when the receive side ends with every *)
(* response byte received (and FIN, for an empty response) or, timed,     *)
(* with any byte received; cut otherwise.  The outcome is the judgement   *)
(* of OnStreamShutdownComplete.                                            *)
RequestComplete ==
  peerGotFin \/ (timed /\ ClientUpload > 0 /\ bytesAcked >= U64Size)

ResponseComplete ==
  /\ peerGotFin
  /\ IF timed THEN peerSent > 0
     ELSE peerSent = Download /\ (Download = 0 => recvDir = "fin")

RequestPhase ==
  IF RequestComplete THEN "delivered"
  ELSE IF sendDir = "open" THEN "pending" ELSE "cut"

ResponsePhase ==
  IF recvDir = "open" THEN "pending"
  ELSE IF ResponseComplete THEN "delivered" ELSE "cut"

OutcomePhase ==
  IF ~finalized THEN "none"
  ELSE IF result.sendSuccess /\ result.recvSuccess THEN "sample" ELSE "nosample"

Abstract == INSTANCE StreamOutcome
              WITH request <- RequestPhase, response <- ResponsePhase,
                   outcome <- OutcomePhase

-----------------------------------------------------------------------------
(* Properties.                                                             *)

RequestSize == IF Upload > 0 THEN Upload ELSE U64Size
InFlightBytes == FoldLeft(LAMBDA acc, b : acc + b.len, 0, inflight)

TypeOK ==
  /\ timed \in BOOLEAN /\ events \in 0 .. MaxEventsPerTick
  /\ now \in 1 .. MaxTime
  /\ {startTime, sendEndTime, recvStartTime, recvEndTime} \subseteq 0 .. MaxTime
  /\ {bytesSent, bytesOutstanding, bytesAcked, bytesReceived, peerSent} \subseteq Nat
  /\ ~timed => /\ {bytesSent, bytesOutstanding, bytesAcked} \subseteq 0 .. RequestSize
               /\ {bytesReceived, peerSent} \subseteq 0 .. Download
  /\ idealSendBuffer \in IdealSizes \cup {IoSize}
  /\ sendComplete \in BOOLEAN
  /\ inflight \in Seq(Buffer)
  /\ sendDir \in {"open", "finished", "aborted", "shutdown"}
  /\ recvDir \in {"open", "fin", "stopped", "aborted"}
  /\ peerGotFin \in BOOLEAN
  /\ finalized \in BOOLEAN /\ result \in Outcome

(* BytesOutstanding, which Send compares with IdealSendBuffer, is always  *)
(* the bytes the transport still holds: OnSendComplete takes every        *)
(* completed buffer off it, cancelled or not, and BytesSent is what was   *)
(* acked plus what is held unless the send direction was aborted.          *)
OutstandingIsInFlight ==
  /\ bytesOutstanding = InFlightBytes
  /\ sendDir = "open" => bytesSent = bytesAcked + bytesOutstanding

(* When the server has the request's FIN, it has received every byte Send *)
(* gave the transport and no other buffer carries FIN: Send stops at the   *)
(* first FIN, timed or not.  In byte-count mode that is exactly the upload *)
(* (or the 8-byte download request): the last buffer is cut to             *)
(* BytesLeftToSend.                                                        *)
RequestDeliveredExactly ==
  peerGotFin => /\ bytesAcked = bytesSent
                /\ ~timed => bytesSent = RequestSize
                /\ \A i \in 1 .. Len(inflight) : ~inflight[i].fin

(* OnStreamShutdownComplete records a latency sample (both SendSuccess and *)
(* RecvSuccess) exactly when the transport delivered the request and the  *)
(* response, in full or, timed, in part, and the response side ended: a   *)
(* stream the peer cut short is never counted, a complete one always is.   *)
SampleIffDelivered ==
  finalized =>
    ((result.sendSuccess /\ result.recvSuccess) <=> RequestComplete /\ ResponseComplete)

(* Every stream is eventually finalised: the Send pacing loop never       *)
(* stalls with bytes left to send and nothing outstanding, and a timed    *)
(* stream's timers stop its upload and its download.                       *)
StreamCompletes == <>(finalized)

(* What PerfClientRun assumes of a stream: one that the peer aborts in    *)
(* neither direction, and whose connection stays up, ends in               *)
(* OnStreamShutdownComplete with SendSuccess and RecvSuccess, so it is     *)
(* counted in StreamsCompleted and reserves a latency slot, in byte-count  *)
(* mode and in timed mode.                                                 *)
StreamSucceedsWithoutFaults ==
  [](sendDir /= "aborted" /\ recvDir /= "aborted")
    => <>(finalized /\ result.sendSuccess /\ result.recvSuccess)

(* The stream implements StreamOutcome: every step of the stream's         *)
(* callbacks and of the transport is a step of the abstract stream or      *)
(* leaves it unchanged, and the abstract stream's progress holds.          *)
StreamOutcomeRefined == Abstract!Spec

(* OnStreamShutdownComplete divides the download's bytes by               *)
(* RecvEndTime - RecvStartTime when it prints throughput; that time is    *)
(* never zero for a stream it prints.                                      *)
NoDownloadDivideByZero ==
  (finalized /\ PrintThroughput /\ ClientDownload > 0 /\ result.recvSuccess)
    => recvEndTime - recvStartTime /= 0
=============================================================================
