# TLA+ models of the msquic perf client

These modules model `src/src/perf/lib/PerfClient.cpp`, the client side of the
msquic performance tool (`secnetperf`). TLC checks every module with the
configurations listed below. `PROJECT.json` holds the machine-readable parts:
- the components;
- the runs and what each one shows;
- the mutants that each property must catch;
- the line map from every definition to the code it translates;
- the findings;
- the hazards.

## 1. The system

The client has four kinds of actors.

* **Main thread**: `PerfClient::Init`, `Start` and `Wait`.
  - `Init` derives `StreamCount` (225-227) and `MaxLatencyIndex` (243-253), and spreads the `-bind` list over the workers (137-158).
  - `Start` gives each worker the next active processor (298-312).
  - `Start` starts one worker thread per worker, then queues `ConnectionCount` connections round-robin: `Workers[i % WorkerCount].QueueNewConnection()` (338-340).
  - `Wait` blocks on the completion event, forever or with a timeout (346-357). It then clears `Running` and uninitializes each worker, which wakes and joins its thread (359-361).
* **Worker threads** (`PerfClientWorker::WorkerThread`, 408-426) loop while `Running`. Each pass creates every queued connection (`StartNewConnection`: `ConnectionsCreated++`, `ConnectionsActive++`, `Initialize`), then sleeps on `WakeEvent`.
* **Connection callbacks** run on msquic threads, and the callbacks of one connection are serialized:
  - `OnConnectionComplete` (CONNECTED) opens `StreamCount` streams.
  - `PerfClientConnection::OnStreamShutdownComplete` counts a stream out. It tops streams up in repeat mode, or shuts the connection down when the last one is gone.
  - `OnShutdownComplete` calls `PerfClientWorker::OnConnectionComplete`. That either queues a new connection (repeat mode) or sets the completion event once the worker is drained (`ConnectionsActive == 0 && ConnectionsCreated == ConnectionsQueued`, 434).
* **Stream callbacks**, one stream at a time:
  - `StreamCallback` dispatches the stream's events.
  - `Send` is the pacing loop against the ideal send buffer.
  - `OnSendComplete`, `OnReceive`, the peer-abort and send-shutdown events.
  - `OnStreamShutdownComplete` judges the stream. A successful stream reserves a latency slot with `InterlockedIncrement64(&CurLatencyIndex) - 1` and writes `LatencyValues[Index]` when the index is in bounds.

Shared state:
- the per-worker counters (`ConnectionsQueued/Created/Active/Connected/Completed`, `StreamsStarted/Completed`), written by the worker thread and by callbacks;
- `Running`;
- the completion event;
- `CurLatencyIndex`, `LatencyCount` and `LatencyValues`, written by every callback thread. `GetExtraData` reads them after `Wait`.

The TCP back-end (`TcpConnectCallback`, `TcpSendCompleteCallback`, `TcpReceiveCallback`, `StreamTable`) replaces the msquic callbacks when `-tcp` is given.

## 2. Modules

| Module | Models | State | Actions |
|---|---|---|---|
| `PerfClientRun` | main thread, workers, QUIC connections; a stream reduced to its outcome | `mainPc`, `queueIndex`, `stopIndex`, `running`, `completionEvent`; per worker `wpc`, `wakeEvent`, the counters, `localAddrKnown`; per connection a record (worker, state, `StreamsCreated`, `StreamsActive`, live streams, reserved latency index); `curLatencyIndex`, `latencyCount`, `latencyWritten`; the caller's `extraDataLength` and the exported `blob` | `StartQueue`, `StartDone`, `Wait`, `UninitializeSignal`, `UninitializeJoin`, `WaitDone`, then the caller's `GetExtraDataMetadata` and `GetExtraData`; `WorkerThread`, `StartNewConnection`, `IncrementActive`, `Initialize`, `GetLocalAddress`, `WorkerIdle`, `WorkerWake`; `ConnectionCallback` (`OnConnectionComplete`, `OnShutdownComplete`), `ReserveLatencyIndex`, `RecordLatency`, `StreamFailed`; environment `TransportShutdown`. `FreeConnection` is the pool's `Free` with the destructor that closes the handle. A worker's `localAddrKnown` starts as `WorkerLocalAddresses` gives it: true for a worker bound to a specific address |
| `PerfClientInit` | what `Init` and `Start` compute before any thread runs, as pure operators: `InitStreamCount`, `InitMaxLatencyIndex`, `BindLocalAddresses` (the two loops of the `-bind` spreading, as the recursive `BindGiven` and `BindRest`), `WorkerLocalAddresses`, and `AssignProcessors` (the search for the next active processor, as the recursive `AssignFrom`). A local address is reduced to its family, `"*"` being the unspecified wildcard. | none | none |
| `MC_PerfClientRun` | derives `StreamCount` and `MaxLatencyIndex` from command-line values with `PerfClientInit`'s operators, names the `-bind` lists the runs use, and states the checks of `PerfClientInit`'s operators within named bounds | | |
| `PerfStream` | one QUIC stream in byte-count or timed mode, with the transport and the server as environment | the stream's times, byte counters, `IdealSendBuffer`, `SendComplete`; the transport's queue of buffers given to `StreamSend`, its send- and receive-side state, the server's progress | `StreamCallback`, the disjunction of `OnSendComplete`, `OnSendCanceled`, `OnIdealSendBufferSize`, `OnReceive` (through `PeerResponse`), `OnPeerSendAborted`, `OnPeerReceiveAborted`, `OnSendShutdownComplete`, `OnStreamShutdownComplete`; `Tick` for the clock, which also refills the transport's per-tick event budget (`events`) |
| `StreamOutcome` | what a stream promises: the request and the response are each delivered or cut off, and the stream is finalised once, with a sample exactly when both were delivered | `request`, `response`, `outcome` | `DeliverRequest`, `CutRequest`, `DeliverResponse`, `CutResponse`, `Finish` |
| `PerfTcp` | one connection in TCP mode: its `Initialize`, `TcpConnectCallback`, and the TCP paths of `OnConnectionComplete` (streams inserted in `StreamTable`) and `OnShutdownComplete`, against an engine that connects or fails | `engine`, `connSt`, `StreamsCreated`, `StreamTable`, the worker's connected and completed counters | `Initialize` (which frees the connection at once when `!TcpConn->IsInitialized()`), `EngineConnected`, `EngineFailed`, both through `TcpConnectCallback` |
| `TcpSendChain` | `TcpSendCompleteCallback`'s walk over a chain of completed send descriptors, as the recursive operator `CompleteChain`, checked over every chain of up to `MaxChain` descriptors | `chain` (fixed by `Init`) | none: the chain is the input |

Each action of `PerfClientRun` is one step of one thread. The steps are split where the code lets another thread in:
- `StartNewConnection` and `IncrementActive` are the two interlocked increments of 442-443;
- `Initialize` and `GetLocalAddress` are `ConnectionStart` and the `GetParam` after it. `GetParam` may fail (`GetParamCanFail`) with the other calls of `Initialize`, or on a handle the connection's callbacks already closed, where the use after free may go either way. On failure the worker's address stays unknown and its next connection asks again;
- `ReserveLatencyIndex` and `RecordLatency` are the fetch-and-add and the write that follows.

A connection's callbacks never overlap, so each connection action requires the connection to be idle, that is, not between a reservation and its write.

The extra data is exported by the library's caller (secnetperf, not in this repository) once `Wait` returns. The caller asks `GetExtraDataMetadata` for the length and then passes a buffer of that length to `GetExtraData`. Connection callbacks may still run while it does so. The model keeps the byte arithmetic:
- the two 8-byte header fields;
- the sample count derived from the buffer length.

The blob is a record of RunTime, the count and the samples. Each sample is a written latency, the zero `Init` left, or memory past the end of `LatencyValues`.

`PerfStream` computes `Send` with the recursive operator `SendLoop`. That operator is the `while` loop of 761-800, run to its end within the callback that calls it. Byte sizes are scaled down while keeping their order: `U64Size` stands for `sizeof(uint64_t)`, and `U64Size < IoSize` holds as `iosize >= 256` guarantees.

In timed mode (`timed`, chosen in `Init` from `TimedModes`), `Upload` and `Download` are durations in ms, scaled to the clock by `UsPerMs`:
- `BytesLeftToSend` is `UINT64_MAX`, so every buffer is a full `IoSize`;
- a `Send` pass that runs `Upload` ms after `StartTime` marks its buffer FIN (`TimedUploadElapsed`, 778-782);
- `OnReceive` stamps `RecvEndTime` and shuts the receive side down with ABORT_RECEIVE (`recvDir = "stopped"`) once a RECEIVE comes `Download` ms after the first one;
- the server answers a timed request with pieces and never FIN.

A timed stream would move bytes without bound, so the transport has finite bandwidth: while a timer runs (`TimerRunning`), it completes or delivers at most `MaxEventsPerTick` events per tick. In timed mode only the timers read the clock, so `Tick` is taken only while one runs.

`PerfStream` implements `StreamOutcome` under a refinement mapping:
- the request is delivered when the server has taken its FIN (`peerGotFin`) or, for a timed upload, once 8 bytes are acked, which is all `SendSuccess` asks of it; it is cut when the send side was reset or aborted before that;
- the response is delivered when the FIN of the expected `Download` bytes arrived, or, timed, when the receive side ended after any byte; it is cut otherwise;
- the outcome is `finalized` with `result`.

## 3. Runs

| Run | Config | Expect | What it shows |
|---|---|---|---|
| complete | `MC_PerfClientRun_complete.cfg` | pass | 1 worker, 2 connections × 2 streams, shared local address. `LatencyRingIntegrity` holds: no slot written twice or out of bounds, `LatencyCount` = writes, every reserved in-bounds slot written or being written. `StreamsCompletedPerConnection` (spec §8) holds, the run terminates, and every created connection completes. `ExtraDataRoundTrip` (spec §8) holds: the export holds `RunTime` and only written samples. `LatencyCountMatchesSuccesses` (spec §8) holds: `CurLatencyIndex` equals the successful streams plus the streams still judging, and once all are judged `LatencyCount` = min(successes, `MaxLatencyIndex`). The worker is bound to the wildcard (`-bind:*`), so it reads its address back with `GetParam`. `BindSpreadRoundRobin`: for every `-bind` list of up to 3 addresses and up to 4 workers, worker i gets address i mod n, and no address is written past the last worker. `WorkersOnDistinctActiveProcessors`: for every set of active processors below 4 with enough members, the workers get the lowest active processors, one each and in order. |
| failures | `MC_PerfClientRun_failures.cfg` | pass | Initialize, StreamOpen and the transport may fail, and Wait is timed. `ActiveCountsUncompletedConnections` holds: `ConnectionsActive` is exactly the worker's connections not yet shut down. The ring holds and the run ends. |
| repeat | `MC_PerfClientRun_repeat.cfg` | pass | Repeat connections and streams with a 2-slot ring; the worker is bound to a specific `-bind` address, so it never calls `GetParam`. The index passes `MaxLatencyIndex` and no write leaves the array. `LatencyCountMatchesSuccesses` holds there too: a success whose sample did not fit still counts in `StreamsCompleted`, and `LatencyCount` stops at `MaxLatencyIndex`. |
| early_completion | `…_early_completion.cfg` | violation | `CompletionMeansAllCompleted`: one worker sets the event while `Start` is still queueing. |
| init_failure_hang | `…_init_failure_hang.cfg` | violation | `Termination`: a failed `Initialize` never reaches the completion path. |
| stream_open_hang | `…_stream_open_hang.cfg` | violation | `Termination`: a failed `StreamOpen` stays in `StreamsActive`. |
| getparam_race | `…_getparam_race.cfg` | violation | `NoHandleUseAfterClose`: `GetParam` on a connection already freed by its shutdown callback. |
| latency_export | `…_latency_export.cfg` | violation | `ExtraDataRoundTrip`: 2 workers, no timeout, no failure. Wait returns when one worker is drained, and the export copies another connection's reserved, unwritten slot as a zero sample. |
| stream_aborts | `PerfStream_aborts.cfg` | pass | A 7-byte upload in 3-byte buffers while the ideal size moves between 1, 3, 4 and 8, with peer aborts in both directions and cancelled sends, in byte-count mode and in timed mode (1 ms upload and download, 2 events per tick). `OutstandingIsInFlight`: `BytesOutstanding` equals the bytes the transport holds. `RequestDeliveredExactly`: one FIN, after every byte sent, on exactly the upload when not timed. `SampleIffDelivered`: a sample exactly for a stream delivered (in full, or timed, in part). `StreamCompletes`: every stream is finalised, a timed one by its timers. `StreamSucceedsWithoutFaults`: a stream that is never aborted is eventually finalised with both directions successful. `StreamOutcomeRefined`: every behaviour is one of `StreamOutcome`, fairness included. `OutstandingIsInFlight` implies the spec's "`BytesOutstanding` is 0 at finalisation", since a finalised stream has nothing in flight. |
| tcp_connect | `PerfTcp_connect.cfg` | violation | `ConnectedConnectionRunsStreams`: `TcpConnectCallback` tests `!IsConnected`, so a connection the engine establishes is completed and freed without a stream. |
| tcp_send_complete | `TcpSendChain_credits.cfg` | violation | `SendCompletionCreditsOwnStream`: the walk advances to `Next` before reading `StreamId`, reading through null at the last descriptor and crediting every other one to the next one's stream. |
| stream_divzero | `PerfStream_divzero.cfg` | violation | `NoDownloadDivideByZero`: a one-RECEIVE response with FIN gives a zero divisor in the `-ptput` print. |

Every property of a passing run has a mutant in `PROJECT.json`: a plausible bug in the mapped code (a dropped guard, an off-by-one, a lost update) that TLC finds violating it.

The findings in `PROJECT.json` explain what each violation run means for the code.

## 4. Bounds

- **Workers and connections.** Two connections of two streams give the latency ring concurrent reservations, since each connection's callbacks run on their own thread. Two workers, in the violation runs, are the smallest setting in which:
  - round-robin queueing spreads the work over workers;
  - one worker can finish before another.

  The passing `complete` run uses one worker: with two, the early completion makes the export wrong (`latency_export`).
- **Repeat mode.** `MaxConnections` and `MaxStreamsPerConnection` cap the connections and streams ever created. They are guards of `OnShutdownComplete` and of the stream actions, and TLC stops repeating there. `ConnectionBound` counts the connections `Start` has still to queue, so a repeat never takes an identifier `Start` needs. Repeat mode with two workers and two connections does not finish within 5 minutes, so the repeat run uses one worker. The two-connection latency race is checked in `complete`.
- **Init and Start operators.** Lists of up to 3 addresses over 3 families, and up to 4 workers, cover a list that is shorter than the workers, as long as them, and longer than them. Processor sets are all the subsets of 4 processors, so they include gaps before, between and after the active ones.
- **Latency ring.** `MaxLatencyIndex` is 2 in the repeat runs (`RunTime` 1000 ms × 2 requests per second stands in for `PERF_MAX_REQUESTS_PER_SECOND`), so the index runs past the array.
- **Stream sizes.** The stream run uses an upload of 7 in buffers of 3: two full buffers and a short last one. Ideal sizes below one buffer, between one and two buffers, and above the upload make the loop send 1, 2 or all buffers at a time. The clock is bounded by `MaxTime` = 3, enough for two stamps to differ or coincide, and for a 1 ms timed upload followed by a 1 ms timed download. Timed mode runs with `UsPerMs` = 1 and 2 events per tick, so a timer sees more than one buffer complete or arrive before it expires, and the budget runs out.

- **TCP.** `PerfTcp` needs `StreamCount` = 2, so that a connection that runs its streams is told apart from one that runs none. `TcpSendChain` checks every chain of at most 2 descriptors over 2 streams and 2 lengths: 2 descriptors are enough for one descriptor to be credited to another's stream.

## 5. Fairness

- **Threads.** `PerfClientRun` assumes weak fairness of the main thread, of each worker and of each connection's callbacks. These are OS threads and msquic worker threads that run whenever they are able to.
- **Timed Wait.** A timed `Wait` is a step the main thread takes without the event, so its timer always fires.
- **Transport events.** `PerfStream` assumes the transport delivers every event it owes the stream: the completion of each buffer it accepted, the server's response once it has the request, SEND_SHUTDOWN_COMPLETE and SHUTDOWN_COMPLETE. A server that stopped receiving before the request's FIN eventually resets its send side (`PeerAbandons`); otherwise the stream would wait for a response that never comes.
- **Clock under a timer.** `Tick` is weakly fair while a timer of a timed stream runs (`WF_vars(Tick /\ TimerRunning)`). Real time passes; without this, the budget could hold a timed stream still forever.
- **Not assumed fair.** Peer aborts, new ideal sizes, transport-initiated connection shutdown, and the clock when no timer waits on it.

## 6. Not modelled, and the plan

- **Timed stream without an upload.** With `Timed` and `Upload` 0, `SendSuccess` holds for any stream whose send side shut down. The refinement mapping gives the request no delivered phase for that case, so the run uses a timed upload of 1 ms.
- **TCP data path.** `TcpReceiveCallback` and the TCP branches of `Send` and `OnReceive` are not modelled. With the connect callback inverted, no stream of a connected TCP connection ever reaches them. Their hazards stay listed in `PROJECT.json`:
  - finalisation only on abort;
  - streams never removed from `StreamTable`, so `GetTcpStream` (621) can return a freed stream;
  - `ConnectionShutdown` on the null `Handle`.
- **Composing refinement.** `PerfClientRun` reduces a stream to its outcome: every stream it starts finishes, in success or failure. `StreamSucceedsWithoutFaults` in `stream_aborts` checks the success half of this assumption against the detailed stream. The stream actions could also be stated as an instance of `StreamOutcome` per stream.
- **Short run times.** `Init` sizes the ring as `(RunTime / 1000) * PERF_MAX_REQUESTS_PER_SECOND` (line 245). A `RunTime` under 1000 ms therefore gives 0 slots, and no sample is recorded. This disagrees with the spec's timed scenario (runtime 500), which expects a recorded stream. The hazard is listed, but the project's run budget has no room for a violation run.
- **Zero threads.** `-threads:0` passes `Init`, and `Start` then divides by zero in `Workers[i % WorkerCount]` (line 339). The models take `WorkerCount` ≥ 1. The hazard is listed.
- **Bind parsing.** `PerfClientInit` models how the `-bind` list is spread over the workers, but not how it is parsed. The comma splitting and `ConvertArgToAddress` are reduced to a list of address families. The failure to decode an address only rejects the command line.
- **Worker target string.** With `-incrementtarget`, `Start` appends the worker's processor as two hex digits. It then writes `'\0'` at `TargetLen` again (line 325), which cuts the suffix off. So every worker connects to the bare target, where the spec (section 3, Worker) says the name is suffixed. This is string formatting with no concurrency. The project's run budget has no room for a violation run to show it, so it is recorded here only.
- **More workers than processors.** `Start`'s search for an active processor (307-309) is checked only when there are at least as many active processors as workers. Past the last processor, the result depends on `CxPlatProcIsActive`, which is not under `src/`. The hazard is listed.
- **Extra-data length cap.** `Init` caps `MaxLatencyIndex` at `UINT32_MAX / 4`, which leaves out the 16 header bytes. More than about 2^30 samples would fail `GetExtraDataMetadata`'s `CXPLAT_FRE_ASSERT`. 32-bit lengths are beyond TLC's integers, so the cap is left out, and the hazard is listed without a property.
- **Command line, output, `Start` error paths.** The rest of `Init`'s argument parsing, all printing, and `Start`'s resolution and thread-start failures are sequential I/O and formatting with nothing for TLC to find.
- **Refused sends.** `Send` counts each buffer in `BytesSent` and `BytesOutstanding` before `StreamSend` and ignores its status (797). `PerfStream` assumes msquic accepts every send of a stream whose send direction is open, and gives `OnIdealSendBufferSize` the guard `sendDir = "open"` for that reason: the handler has no such check of its own. The hazard is listed without a property.
- **Type invariants.** Each module's `TypeOK` is checked once, in one passing run (`complete`, `stream_aborts`). The other runs spend their invariants on behaviour.
- **Outside `src/`.** The object pools, the MsQuic API and the TCP engine are not under `src/`. The models use them only through the events they deliver.
