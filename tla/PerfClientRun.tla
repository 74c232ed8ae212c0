--------------------------- MODULE PerfClientRun ---------------------------
(***************************************************************************)
(* The perf client driver of src/perf/lib/PerfClient.cpp: the main thread *)
(* (PerfClient::Start and PerfClient::Wait), one PerfClientWorker thread   *)
(* per worker, and the QUIC connections those workers create, whose        *)
(* transport callbacks run on threads of their own.  A stream is reduced   *)
(* to its finalisation (PerfClientStream::OnStreamShutdownComplete): it    *)
(* succeeds or fails, and a success reserves a slot of the latency array   *)
(* with a fetch-and-add on CurLatencyIndex before writing it.  The byte    *)
(* level of a stream is the subject of module PerfStream.                  *)
(***************************************************************************)
EXTENDS Naturals, FiniteSets, Sequences, Functions, PerfClientInit

CONSTANTS
  WorkerCount,             \* PerfClient::WorkerCount
  ConnectionCount,         \* PerfClient::ConnectionCount  (-conns)
  StreamCount,             \* PerfClient::StreamCount      (-streams)
  RepeatConnections,       \* -rconn
  RepeatStreams,           \* -rstream
  WaitTimeout,             \* Wait(Timeout) waits with a timeout (Timeout or RunTime /= 0)
  MaxLatencyIndex,         \* PerfClient::MaxLatencyIndex, fixed by Init
  RunTime,                 \* PerfClient::RunTime (-runtime, ms)
  SpecificLocalAddresses,  \* -share / -bind
  BindAddresses,           \* the -bind list, by family ("*" or a family); <<>> without -bind
  InitCanFail,             \* ConnectionOpen, SetParam or ConnectionStart may fail
  StreamOpenCanFail,       \* MsQuic->StreamOpen may fail
  TransportCanFail,        \* the transport may shut a connection or a stream down
  MaxConnections,          \* bound: connections ever created (repeat mode)
  MaxStreamsPerConnection  \* bound: streams ever created on one connection (repeat mode)

ASSUME /\ WorkerCount \in Nat \ {0}
       /\ ConnectionCount \in Nat
       /\ StreamCount \in Nat
       /\ MaxLatencyIndex \in Nat
       /\ RunTime \in Nat
       /\ {RepeatConnections, RepeatStreams, WaitTimeout, SpecificLocalAddresses,
           InitCanFail, StreamOpenCanFail, TransportCanFail} \subseteq BOOLEAN
       \* PerfClient::Init refuses a repeat scenario without a runtime.
       /\ (RepeatConnections \/ RepeatStreams) => WaitTimeout
       /\ ConnectionCount <= MaxConnections
       /\ StreamCount <= MaxStreamsPerConnection
       \* -bind sets SpecificLocalAddresses.
       /\ BindAddresses /= <<>> => SpecificLocalAddresses

Workers == 0 .. WorkerCount - 1

ConnIds == 1 .. MaxConnections
NoLength == -1   \* GetExtraDataMetadata not called yet
NoIndex == -1    \* no latency slot reserved by the connection's current callback

(* Life of a PerfClientConnection object.  "freed" is an object given     *)
(* back to the pool by a failing Initialize, "done" one freed by           *)
(* OnShutdownComplete.                                                     *)
ConnStates == {"unused", "init", "handshake", "connected", "closing", "freed", "done"}

VARIABLES
  mainPc,            \* main thread: "start", "wait", "stop", "join", "done", "metadata", "exported"
  queueIndex,        \* loop index of the queueing loop in PerfClient::Start
  stopIndex,         \* loop index of the Uninitialize loop in PerfClient::Wait
  running,           \* PerfClient::Running
  completionEvent,   \* *CompletionEvent has been set
  wpc,               \* worker thread: "loop", "drain", "inc_active", "init", "getparam", "wait", "exited"
  wakeEvent,         \* PerfClientWorker::WakeEvent (auto-reset)
  initConn,          \* connection the worker thread is initializing
  localAddrKnown,    \* Worker.LocalAddr has a family (from -bind, or set by GetParam)
  queued, created, active, connected, completed,  \* ConnectionsQueued/Created/Active/Connected/Completed
  streamsStarted, streamsCompleted,              \* StreamsStarted/StreamsCompleted
  conn,              \* PerfClientConnection objects, by allocation order
  curLatencyIndex,   \* PerfClient::CurLatencyIndex
  latencyCount,      \* PerfClient::LatencyCount
  latencyWritten,    \* indices of LatencyValues written, in order of the writes
  extraDataLength,   \* PerfExtraDataMetadata::ExtraDataLength, once queried
  blob               \* the extra data GetExtraData wrote, once called

exportVars  == <<extraDataLength, blob>>
mainVars    == <<mainPc, queueIndex, stopIndex, running, completionEvent, exportVars>>
workerVars  == <<wpc, wakeEvent, initConn, localAddrKnown>>
counterVars == <<queued, created, active, connected, completed, streamsStarted, streamsCompleted>>
latencyVars == <<curLatencyIndex, latencyCount, latencyWritten>>
vars == <<mainVars, workerVars, counterVars, conn, latencyVars>>

ConnRecord == [w : Workers, st : ConnStates, sCreated : Nat, sActive : Nat,
               live : Nat, busy : Int]

Unused == [w |-> 0, st |-> "unused", sCreated |-> 0, sActive |-> 0, live |-> 0, busy |-> NoIndex]

-----------------------------------------------------------------------------
(* Helpers shared by the actions.                                          *)

Inc(f, x, n) == [f EXCEPT ![x] = @ + n]

(* ConnectionAllocator.Free(this): ~PerfClientConnection closes Handle    *)
(* with MsQuic->ConnectionClose; st tells a failed Initialize ("freed")    *)
(* from a completed connection ("done").                                   *)
FreeConnection(c, st) == conn' = [conn EXCEPT ![c].st = st]

(* PerfClientWorker::QueueNewConnection: count one more connection to     *)
(* create and wake the worker thread.                                      *)
QueueNewConnection(w) ==
  /\ queued' = Inc(queued, w, 1)
  /\ wakeEvent' = [wakeEvent EXCEPT ![w] = TRUE]

(* PerfClient::OnConnectionsComplete: set the completion event.            *)
OnConnectionsComplete == completionEvent' = TRUE

(* Mutant: the connection is counted out of ConnectionsActive twice.      *)
ReleaseActiveTwice(w) == active' = Inc(active, w, -2)

(* InterlockedDecrement64(&ConnectionsActive).                             *)
ReleaseActive(w) == active' = Inc(active, w, -1)

(* Mutant: the check reads ConnectionsActive as it was before the          *)
(* decrement.                                                              *)
WorkerDrainedStale(w) == active[w] = 0 /\ created[w] = queued[w]

(* !ConnectionsActive && ConnectionsCreated == ConnectionsQueued, read     *)
(* after the decrement.                                                    *)
WorkerDrained(w) == active[w] - 1 = 0 /\ created[w] = queued[w]

(* PerfClientWorker::OnConnectionComplete, run on the callback thread of   *)
(* a connection whose shutdown completed.                                  *)
WorkerOnConnectionComplete(w) ==
  /\ completed' = Inc(completed, w, 1)
  /\ ReleaseActive(w)
  /\ IF RepeatConnections
       THEN QueueNewConnection(w) /\ UNCHANGED completionEvent
       ELSE /\ IF WorkerDrained(w)
                 THEN OnConnectionsComplete
                 ELSE UNCHANGED completionEvent
            /\ UNCHANGED <<queued, wakeEvent>>

(* Mutant: the bound check lets the index equal the array size.          *)
RecordsLatencyOffByOne(success, idx) == success /\ idx <= MaxLatencyIndex

(* PerfClientStream::OnStreamShutdownComplete keeps a sample only for a   *)
(* successful stream whose reserved index is inside LatencyValues.         *)
RecordsLatency(success, idx) == success /\ idx < MaxLatencyIndex

(* Mutant: StreamsCompleted is counted only for a sample that was stored. *)
CountsCompletedIfRecorded(success, idx) == RecordsLatency(success, idx)

(* A successful stream counts in Worker.StreamsCompleted, whether or not  *)
(* its sample fitted in LatencyValues.                                      *)
CountsCompleted(success, idx) == success

(* Mutant: the connection is shut down while one stream is still active. *)
StreamsDrainedEarly(r) == r.sActive <= 1 /\ r.sCreated = StreamCount

(* Mutant: the created-streams comparison is off by one.                  *)
StreamsDrainedNever(r) == r.sActive = 0 /\ r.sCreated > StreamCount

(* PerfClientConnection::OnStreamShutdownComplete, outside repeat mode:    *)
(* the last stream is gone and every stream was created.                   *)
StreamsDrained(r) == r.sActive = 0 /\ r.sCreated = StreamCount

(* n calls of PerfClientConnection::StartNewStream on connection c, of     *)
(* which `fails` fail in MsQuic->StreamOpen.  A failed open has already   *)
(* counted the stream in StreamsCreated and StreamsActive.                 *)
StartNewStreams(c, n, fails) ==
  [conn[c] EXCEPT !.sCreated = @ + n, !.sActive = @ + n, !.live = @ + (n - fails)]

OpenFailures(c, n) ==
  IF conn[c].st = "closing" THEN {n}
  ELSE IF StreamOpenCanFail THEN 0 .. n ELSE {0}

-----------------------------------------------------------------------------
(* Main thread.                                                            *)

(* PerfClient::Start, after the worker threads are started: queue the     *)
(* connections round-robin on the workers.                                 *)
StartQueue ==
  /\ mainPc = "start"
  /\ queueIndex < ConnectionCount
  /\ QueueNewConnection(queueIndex % WorkerCount)
  /\ queueIndex' = queueIndex + 1
  /\ UNCHANGED <<mainPc, stopIndex, running, completionEvent, wpc, initConn,
                 localAddrKnown, created, active, connected, completed,
                 streamsStarted, streamsCompleted, conn, latencyVars,
                 exportVars>>

StartDone ==
  /\ mainPc = "start"
  /\ queueIndex = ConnectionCount
  /\ mainPc' = "wait"
  /\ UNCHANGED <<queueIndex, stopIndex, running, completionEvent, workerVars,
                 counterVars, conn, latencyVars,
                 exportVars>>

(* PerfClient::Wait: the wait on CompletionEvent returns when the event is *)
(* set or, when waiting with a timeout, when the timer fires.              *)
Wait ==
  /\ mainPc = "wait"
  /\ completionEvent \/ WaitTimeout
  /\ running' = FALSE
  /\ mainPc' = "stop"
  /\ UNCHANGED <<queueIndex, stopIndex, completionEvent, workerVars,
                 counterVars, conn, latencyVars,
                 exportVars>>

(* PerfClientWorker::Uninitialize, called by Wait for each worker: wake   *)
(* the thread, then join it.                                               *)
UninitializeSignal ==
  /\ mainPc = "stop"
  /\ stopIndex < WorkerCount
  /\ wakeEvent' = [wakeEvent EXCEPT ![stopIndex] = TRUE]
  /\ mainPc' = "join"
  /\ UNCHANGED <<queueIndex, stopIndex, running, completionEvent, wpc, initConn,
                 localAddrKnown, counterVars, conn, latencyVars,
                 exportVars>>

UninitializeJoin ==
  /\ mainPc = "join"
  /\ wpc[stopIndex] = "exited"
  /\ stopIndex' = stopIndex + 1
  /\ mainPc' = "stop"
  /\ UNCHANGED <<queueIndex, running, completionEvent, workerVars,
                 counterVars, conn, latencyVars,
                 exportVars>>

WaitDone ==
  /\ mainPc = "stop"
  /\ stopIndex = WorkerCount
  /\ mainPc' = "done"
  /\ UNCHANGED <<queueIndex, stopIndex, running, completionEvent, workerVars,
                 counterVars, conn, latencyVars,
                 exportVars>>

(* The caller of the perf library (secnetperf), once Wait has returned,  *)
(* asks for the extra data's size and then for the data, in a buffer of    *)
(* that size.  sizeof(uint64_t) and sizeof(uint32_t) are kept: the count   *)
(* GetExtraData exports is computed from a byte length.                    *)
U64Bytes == 8
U32Bytes == 4
NoBlob == [runTime |-> 0, count |-> 0, samples |-> <<>>]

(* A slot of LatencyValues as GetExtraData copies it: a latency written by *)
(* OnStreamShutdownComplete, the 0 of CxPlatZeroMemory in Init, or memory  *)
(* past the end of the array.                                              *)
Samples == {"latency", "zero", "outside"}
LatencySlot(i) ==
  IF i >= MaxLatencyIndex THEN "outside"
  ELSE IF i \in Range(latencyWritten) THEN "latency" ELSE "zero"

(* PerfClient::GetExtraDataMetadata.                                       *)
ExtraDataLength ==
  IF MaxLatencyIndex = 0 THEN 0
  ELSE U64Bytes + U64Bytes + latencyCount * U32Bytes

GetExtraDataMetadata ==
  /\ mainPc = "done"
  /\ extraDataLength' = ExtraDataLength
  /\ mainPc' = "metadata"
  /\ UNCHANGED <<queueIndex, stopIndex, running, completionEvent, blob,
                 workerVars, counterVars, conn, latencyVars>>

(* Mutant: the count is computed without the second header field.        *)
ExportCountWithoutHeader(length) == (length - U64Bytes) \div U32Bytes

(* GetExtraData: LatencyCount is the caller's Length less sizeof(RunTime) *)
(* and sizeof(LatencyCount), over sizeof(uint32_t); RunTime, that count and *)
(* that many slots of LatencyValues are copied out.                        *)
ExportCount(length) == (length - U64Bytes - U64Bytes) \div U32Bytes

ExtraData(length) ==
  [runTime |-> RunTime,
   count   |-> ExportCount(length),
   samples |-> [j \in 1 .. ExportCount(length) |-> LatencySlot(j - 1)]]

(* The caller calls GetExtraData only when the metadata announced extra    *)
(* data (it asserts MaxLatencyIndex /= 0).                                 *)
GetExtraData ==
  /\ mainPc = "metadata"
  /\ extraDataLength > 0
  /\ blob' = ExtraData(extraDataLength)
  /\ mainPc' = "exported"
  /\ UNCHANGED <<queueIndex, stopIndex, running, completionEvent, extraDataLength,
                 workerVars, counterVars, conn, latencyVars>>

-----------------------------------------------------------------------------
(* Worker threads: PerfClientWorker::WorkerThread.                         *)

(* Mutant: the worker loop does not look at Running.                     *)
WorkerThreadIgnoresRunning(w) ==
  /\ wpc[w] = "loop"
  /\ wpc' = [wpc EXCEPT ![w] = "drain"]
  /\ UNCHANGED <<mainVars, wakeEvent, initConn, localAddrKnown, counterVars,
                 conn, latencyVars>>

(* The outer loop `while (Client->Running)`.                              *)
WorkerThread(w) ==
  /\ wpc[w] = "loop"
  /\ wpc' = [wpc EXCEPT ![w] = IF running THEN "drain" ELSE "exited"]
  /\ UNCHANGED <<mainVars, wakeEvent, initConn, localAddrKnown, counterVars,
                 conn, latencyVars>>

(* The inner loop `while (ConnectionsCreated < ConnectionsQueued)`: its   *)
(* body starts PerfClientWorker::StartNewConnection, which increments     *)
(* ConnectionsCreated and then, in a second atomic step,                   *)
(* ConnectionsActive, before it allocates the connection.                  *)
StartNewConnection(w) ==
  LET c == Cardinality({i \in ConnIds : conn[i].st /= "unused"}) + 1
  IN  /\ wpc[w] = "drain"
      /\ created[w] < queued[w]
      /\ created' = Inc(created, w, 1)
      /\ initConn' = [initConn EXCEPT ![w] = c]
      /\ conn' = [conn EXCEPT ![c] = [Unused EXCEPT !.w = w, !.st = "init"]]
      /\ wpc' = [wpc EXCEPT ![w] = "inc_active"]
      /\ UNCHANGED <<mainVars, wakeEvent, localAddrKnown, queued, active,
                     connected, completed, streamsStarted, streamsCompleted,
                     latencyVars>>

IncrementActive(w) ==
  /\ wpc[w] = "inc_active"
  /\ active' = Inc(active, w, 1)
  /\ wpc' = [wpc EXCEPT ![w] = "init"]
  /\ UNCHANGED <<mainVars, wakeEvent, initConn, localAddrKnown, queued, created,
                 connected, completed, streamsStarted, streamsCompleted, conn,
                 latencyVars>>

(* PerfClientConnection::Initialize (QUIC).  Each of ConnectionOpen, the  *)
(* SetParam calls and ConnectionStart may fail, and every failure frees   *)
(* the object to the pool and returns.  After a successful start the       *)
(* worker reads back the local address when it has none yet.               *)
Initialize(w) ==
  LET c == initConn[w] IN
  /\ wpc[w] = "init"
  /\ \/ /\ InitCanFail
        /\ FreeConnection(c, "freed")
        /\ wpc' = [wpc EXCEPT ![w] = "drain"]
     \/ /\ conn' = [conn EXCEPT ![c].st = "handshake"]
        /\ wpc' = [wpc EXCEPT ![w] =
                     IF SpecificLocalAddresses /\ ~localAddrKnown[w]
                       THEN "getparam" ELSE "drain"]
  /\ UNCHANGED <<mainVars, wakeEvent, initConn, localAddrKnown, counterVars,
                 latencyVars>>

(* MsQuic->GetParam(Handle, QUIC_PARAM_CONN_LOCAL_ADDRESS, ..): the        *)
(* worker thread reads the handle of the connection it just started.  On   *)
(* QUIC_FAILED it prints and returns with Worker.LocalAddr unchanged, so  *)
(* the next connection asks again.  It may fail with the other calls of   *)
(* Initialize (InitCanFail), and on a handle the racing callbacks already *)
(* closed the outcome of the use after free is either.                     *)
GetParamCanFail(w) == InitCanFail \/ conn[initConn[w]].st = "done"

GetLocalAddress(w) ==
  /\ wpc[w] = "getparam"
  /\ \/ localAddrKnown' = [localAddrKnown EXCEPT ![w] = TRUE]
     \/ /\ GetParamCanFail(w)
        /\ UNCHANGED localAddrKnown
  /\ wpc' = [wpc EXCEPT ![w] = "drain"]
  /\ UNCHANGED <<mainVars, wakeEvent, initConn, counterVars, conn, latencyVars>>

(* The inner loop is done: WakeEvent.WaitForever().                        *)
WorkerIdle(w) ==
  /\ wpc[w] = "drain"
  /\ created[w] >= queued[w]
  /\ wpc' = [wpc EXCEPT ![w] = "wait"]
  /\ UNCHANGED <<mainVars, wakeEvent, initConn, localAddrKnown, counterVars,
                 conn, latencyVars>>

WorkerWake(w) ==
  /\ wpc[w] = "wait"
  /\ wakeEvent[w]
  /\ wakeEvent' = [wakeEvent EXCEPT ![w] = FALSE]
  /\ wpc' = [wpc EXCEPT ![w] = "loop"]
  /\ UNCHANGED <<mainVars, initConn, localAddrKnown, counterVars, conn,
                 latencyVars>>

-----------------------------------------------------------------------------
(* Connection callbacks, run by the transport.  The callbacks of one       *)
(* connection and of its streams are serialized; those of different        *)
(* connections run in parallel with each other and with the threads.      *)

Idle(c) == conn[c].busy = NoIndex

(* QUIC_CONNECTION_EVENT_CONNECTED: PerfClientConnection::                 *)
(* OnConnectionComplete.  No stream: shut the connection down at once.     *)
(* Otherwise StartNewStream StreamCount times.                             *)
OnConnectionComplete(c) ==
  LET w == conn[c].w IN
  /\ conn[c].st = "handshake"
  /\ connected' = Inc(connected, w, 1)
  /\ IF StreamCount = 0
       THEN /\ conn' = [conn EXCEPT ![c].st = "closing"]
            /\ UNCHANGED streamsStarted
       ELSE \E fails \in OpenFailures(c, StreamCount) :
              /\ conn' = [conn EXCEPT ![c] = [StartNewStreams(c, StreamCount, fails)
                                                EXCEPT !.st = "connected"]]
              /\ streamsStarted' = Inc(streamsStarted, w, StreamCount - fails)
  /\ UNCHANGED <<mainVars, workerVars, queued, created, active, completed,
                 streamsCompleted, latencyVars>>

(* The transport shuts the connection down on its own (handshake failure, *)
(* peer close, idle timeout).  No callback runs yet.                       *)
TransportShutdown(c) ==
  /\ TransportCanFail
  /\ conn[c].st \in {"handshake", "connected"}
  /\ conn' = [conn EXCEPT ![c].st = "closing"]
  /\ UNCHANGED <<mainVars, workerVars, counterVars, latencyVars>>

(* In repeat mode the model stops repeating at its bounds.  A repeated     *)
(* connection leaves room for those Start has still to queue.              *)
StreamBound(c) ==
  RepeatStreams /\ conn[c].st = "connected" => conn[c].sCreated < MaxStreamsPerConnection

ConnectionBound ==
  RepeatConnections =>
    SumFunction(queued) + (ConnectionCount - queueIndex) < MaxConnections

(* Mutant: CurLatencyIndex is read and written back without the atomic    *)
(* increment, and a concurrent update is lost.                             *)
NextLatencyIndexLostUpdate == curLatencyIndex

(* The value InterlockedIncrement64 leaves in CurLatencyIndex.             *)
NextLatencyIndex == curLatencyIndex + 1

(* QUIC_STREAM_EVENT_SHUTDOWN_COMPLETE on a stream whose send and receive *)
(* both succeeded: the first step of OnStreamShutdownComplete reserves a   *)
(* latency slot, Index = InterlockedIncrement64(&CurLatencyIndex) - 1.     *)
ReserveLatencyIndex(c) ==
  /\ conn[c].st = "connected"
  /\ conn[c].live > 0
  /\ Idle(c)
  /\ StreamBound(c)
  /\ curLatencyIndex' = NextLatencyIndex
  /\ conn' = [conn EXCEPT ![c].busy = curLatencyIndex]
  /\ UNCHANGED <<mainVars, workerVars, counterVars, latencyCount, latencyWritten>>

(* The rest of PerfClientStream::OnStreamShutdownComplete and then         *)
(* PerfClientConnection::OnStreamShutdownComplete, on the callback thread. *)
(* success: SendSuccess && RecvSuccess; idx: the reserved slot.            *)
StreamShutdownComplete(c, success, idx) ==
  LET w      == conn[c].w
      record == RecordsLatency(success, idx)
      after  == [conn[c] EXCEPT !.live = @ - 1, !.sActive = @ - 1, !.busy = NoIndex]
      topUp  == StreamCount - after.sActive
  IN
  /\ latencyWritten' = IF record THEN Append(latencyWritten, idx) ELSE latencyWritten
  /\ latencyCount' = IF record THEN latencyCount + 1 ELSE latencyCount
  /\ streamsCompleted' = Inc(streamsCompleted, w, IF CountsCompleted(success, idx) THEN 1 ELSE 0)
  /\ IF RepeatStreams
       THEN \E fails \in OpenFailures(c, topUp) :
              /\ conn' = [conn EXCEPT ![c] = [after EXCEPT !.sCreated = @ + topUp,
                                                          !.sActive = @ + topUp,
                                                          !.live = @ + (topUp - fails)]]
              /\ streamsStarted' = Inc(streamsStarted, w, topUp - fails)
       ELSE /\ conn' = [conn EXCEPT ![c] =
                          IF StreamsDrained(after)
                            THEN [after EXCEPT !.st = "closing"] ELSE after]
            /\ UNCHANGED streamsStarted
  /\ UNCHANGED <<mainVars, workerVars, queued, created, active, connected,
                 completed, curLatencyIndex>>

RecordLatency(c) ==
  /\ ~Idle(c)
  /\ StreamShutdownComplete(c, TRUE, conn[c].busy)

(* SHUTDOWN_COMPLETE on a stream that did not succeed: aborted by the     *)
(* transport, or cut off by the connection's shutdown.                     *)
StreamFailed(c) ==
  /\ conn[c].live > 0
  /\ Idle(c)
  /\ StreamBound(c)
  /\ TransportCanFail \/ conn[c].st = "closing"
  /\ StreamShutdownComplete(c, FALSE, NoIndex)

(* QUIC_CONNECTION_EVENT_SHUTDOWN_COMPLETE, delivered after every stream  *)
(* of the connection has completed: PerfClientConnection::                 *)
(* OnShutdownComplete tells the worker and frees the object.               *)
OnShutdownComplete(c) ==
  LET w == conn[c].w IN
  /\ conn[c].st = "closing"
  /\ conn[c].live = 0
  /\ Idle(c)
  /\ ConnectionBound
  /\ WorkerOnConnectionComplete(w)
  /\ FreeConnection(c, "done")
  /\ UNCHANGED <<mainPc, queueIndex, stopIndex, running, wpc, initConn,
                 localAddrKnown, created, connected, streamsStarted,
                 streamsCompleted, latencyVars, exportVars>>

-----------------------------------------------------------------------------
Init ==
  /\ mainPc = "start"
  /\ queueIndex = 0
  /\ stopIndex = 0
  /\ running = TRUE
  /\ completionEvent = FALSE
  /\ wpc = [w \in Workers |-> "loop"]
  /\ wakeEvent = [w \in Workers |-> FALSE]
  /\ initConn = [w \in Workers |-> 1]
  /\ localAddrKnown = [w \in Workers |->
                          WorkerLocalAddresses(BindAddresses, WorkerCount)[w] /= Unspec]
  /\ queued = [w \in Workers |-> 0]
  /\ created = [w \in Workers |-> 0]
  /\ active = [w \in Workers |-> 0]
  /\ connected = [w \in Workers |-> 0]
  /\ completed = [w \in Workers |-> 0]
  /\ streamsStarted = [w \in Workers |-> 0]
  /\ streamsCompleted = [w \in Workers |-> 0]
  /\ conn = [c \in ConnIds |-> Unused]
  /\ curLatencyIndex = 0
  /\ latencyCount = 0
  /\ latencyWritten = <<>>
  /\ extraDataLength = NoLength
  /\ blob = NoBlob

MainThread == StartQueue \/ StartDone \/ Wait \/ UninitializeSignal
              \/ UninitializeJoin \/ WaitDone
              \/ GetExtraDataMetadata \/ GetExtraData

Worker(w) ==
  \/ WorkerThread(w) \/ StartNewConnection(w) \/ IncrementActive(w)
  \/ Initialize(w) \/ GetLocalAddress(w) \/ WorkerIdle(w) \/ WorkerWake(w)

(* PerfClientConnection::ConnectionCallback: CONNECTED and               *)
(* SHUTDOWN_COMPLETE; the streams' callbacks run on the same thread.       *)
ConnectionCallback(c) == OnConnectionComplete(c) \/ OnShutdownComplete(c)

Connection(c) ==
  \/ ConnectionCallback(c)
  \/ ReserveLatencyIndex(c) \/ RecordLatency(c) \/ StreamFailed(c)

Next ==
  \/ MainThread
  \/ \E w \in Workers : Worker(w)
  \/ \E c \in ConnIds : Connection(c) \/ TransportShutdown(c)

(* Every thread runs, the timer of a timed wait fires, and the transport  *)
(* delivers the callbacks of every started connection and stream.          *)
Fairness ==
  /\ WF_vars(MainThread)
  /\ \A w \in Workers : WF_vars(Worker(w))
  /\ \A c \in ConnIds : WF_vars(Connection(c))

Spec == Init /\ [][Next]_vars /\ Fairness

-----------------------------------------------------------------------------
(* Properties.                                                             *)

TypeOK ==
  /\ mainPc \in {"start", "wait", "stop", "join", "done", "metadata", "exported"}
  /\ queueIndex \in 0 .. ConnectionCount
  /\ stopIndex \in 0 .. WorkerCount
  /\ running \in BOOLEAN /\ completionEvent \in BOOLEAN
  /\ wpc \in [Workers -> {"loop", "drain", "inc_active", "init", "getparam", "wait", "exited"}]
  /\ wakeEvent \in [Workers -> BOOLEAN]
  /\ initConn \in [Workers -> ConnIds]
  /\ localAddrKnown \in [Workers -> BOOLEAN]
  /\ \A f \in {queued, created, active, connected, completed, streamsStarted, streamsCompleted} :
        f \in [Workers -> Nat]
  /\ conn \in [ConnIds -> ConnRecord]
  /\ curLatencyIndex \in Nat /\ latencyCount \in Nat
  /\ latencyWritten \in Seq(Nat)
  /\ extraDataLength \in Nat \cup {NoLength}
  /\ blob = NoBlob \/ blob \in [runTime : Nat, count : Nat, samples : Seq(Samples)]

(* LatencyValues is filled by many callback threads at once through the   *)
(* fetch-and-add on CurLatencyIndex (PerfClientStream::                    *)
(* OnStreamShutdownComplete): no slot is written twice or outside the      *)
(* array, LatencyCount counts the writes, and every reserved slot below    *)
(* MaxLatencyIndex is written or about to be written by exactly the one    *)
(* callback that reserved it.                                              *)
LatencyRingIntegrity ==
  LET pending == {conn[c].busy : c \in {d \in ConnIds : conn[d].busy /= NoIndex}}
  IN  /\ IsInjective(latencyWritten)
      /\ latencyCount = Len(latencyWritten)
      /\ \A i \in DOMAIN latencyWritten : latencyWritten[i] < MaxLatencyIndex
      /\ Range(latencyWritten) \cap pending = {}
      /\ {i \in 0 .. curLatencyIndex - 1 : i < MaxLatencyIndex}
            = Range(latencyWritten) \cup {i \in pending : i < MaxLatencyIndex}

(* Spec section 8: with no failure, once every connection has completed,  *)
(* StreamsCompleted summed over the workers is ConnectionsCompleted times  *)
(* StreamCount: a connection is shut down (PerfClientConnection::          *)
(* OnStreamShutdownComplete) only after all its streams finished.          *)
StreamsCompletedPerConnection ==
  (\A c \in ConnIds : conn[c].st \in {"unused", "done"}) /\ queueIndex = ConnectionCount
    => SumFunction(streamsCompleted) = SumFunction(completed) * StreamCount

(* Spec section 8: LatencyCount = min(successful streams, MaxLatencyIndex). *)
(* A success is counted per worker in StreamsCompleted, while its slot is  *)
(* taken from the shared CurLatencyIndex in an earlier step of the same    *)
(* callback; every success holds exactly one index, and once no callback   *)
(* is between the two steps, the samples stored are the successes up to    *)
(* the size of LatencyValues, in repeat runs that overflow it as well.     *)
LatencyCountMatchesSuccesses ==
  LET pending   == {c \in ConnIds : ~Idle(c)}
      successes == SumFunction(streamsCompleted)
  IN  /\ curLatencyIndex = successes + Cardinality(pending)
      /\ pending = {} =>
           latencyCount = IF successes < MaxLatencyIndex THEN successes ELSE MaxLatencyIndex

(* ConnectionsActive, which the completion check of PerfClientWorker::    *)
(* OnConnectionComplete reads, counts the worker's connection objects that *)
(* have not reached OnShutdownComplete, those a failing Initialize gave    *)
(* back to the pool included, except in the window of StartNewConnection   *)
(* between its two increments.                                             *)
ActiveCountsUncompletedConnections ==
  \A w \in Workers :
    LET mine(S) == Cardinality({c \in ConnIds : conn[c].w = w /\ conn[c].st \in S})
    IN  /\ created[w] = mine(ConnStates \ {"unused"})
        /\ completed[w] = mine({"done"})
        /\ active[w] + (IF wpc[w] = "inc_active" THEN 1 ELSE 0)
              = mine({"init", "handshake", "connected", "closing", "freed"})

(* CompletionEvent is set only when every queued connection has           *)
(* completed, so that Wait returns after the whole scenario (spec 4.1 and  *)
(* section 8).                                                             *)
CompletionMeansAllCompleted ==
  completionEvent =>
    /\ queueIndex = ConnectionCount
    /\ \A w \in Workers : completed[w] = queued[w]

(* The worker thread never reads the handle of a connection that         *)
(* OnShutdownComplete has already freed (Initialize, GetParam after        *)
(* ConnectionStart).                                                       *)
NoHandleUseAfterClose ==
  \A w \in Workers : wpc[w] = "getparam" => conn[initConn[w]].st /= "done"

(* Spec section 8, round trip of the extra data: the blob GetExtraData    *)
(* writes into a buffer of the size GetExtraDataMetadata announced holds   *)
(* RunTime, LatencyCount and, for each of the LatencyCount samples, a      *)
(* latency some OnStreamShutdownComplete wrote: the counted writes fill   *)
(* the front of LatencyValues and the byte arithmetic of the two calls     *)
(* agrees.  LatencyCount only grows, so the count exported stays at or    *)
(* below it after the export.                                              *)
ExtraDataRoundTrip ==
  blob /= NoBlob =>
    /\ blob.runTime = RunTime
    /\ blob.count <= latencyCount
    /\ \A j \in 1 .. blob.count : blob.samples[j] = "latency"

(* Wait returns: the main thread gets past the wait and joins every worker. *)
Termination == <>(mainPc = "done")

(* Every connection a worker created and started eventually reaches       *)
(* OnShutdownComplete: no stream or counter keeps it open for ever.        *)
CreatedConnectionsComplete ==
  \A c \in ConnIds : conn[c].st = "handshake" ~> conn[c].st = "done"

=============================================================================
