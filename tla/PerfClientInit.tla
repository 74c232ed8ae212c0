--------------------------- MODULE PerfClientInit ---------------------------
(***************************************************************************)
(* What PerfClient::Init and the worker set-up of PerfClient::Start        *)
(* compute from the command line (src/perf/lib/PerfClient.cpp), as pure   *)
(* operators: the derived StreamCount and MaxLatencyIndex, the spreading  *)
(* of the -bind list over the workers, and the processor each worker is   *)
(* given.  A local address is reduced to its family: "*" (the wildcard,   *)
(* QUIC_ADDRESS_FAMILY_UNSPEC) or a specific family.                       *)
(***************************************************************************)
EXTENDS Naturals, FiniteSets, Sequences, TLC
LOCAL INSTANCE SequencesExt

(* PerfClient::Init: up/down arguments alone imply one stream.             *)
InitStreamCount(streams, upload, download) ==
  IF (upload > 0 \/ download > 0) /\ streams = 0 THEN 1 ELSE streams

(* PerfClient::Init: the size of LatencyValues.  The cap at               *)
(* UINT32_MAX / sizeof(uint32_t) is above every value a model reaches.     *)
InitMaxLatencyIndex(printLatency, runTime, perSecond, conns, streams) ==
  IF ~printLatency THEN 0
  ELSE IF runTime > 0 THEN (runTime \div 1000) * perSecond
  ELSE conns * streams

-----------------------------------------------------------------------------
(* -bind:<addr[,addr...]>.  The first loop takes the comma-separated       *)
(* addresses in order, one per worker, while addresses remain and Index < *)
(* WorkerCount; the second gives every remaining worker i the address of  *)
(* Workers[(i - Index) % Index].  ws maps worker indices to addresses.     *)
Unspec == "*"

(* Mutant: the first loop runs while addresses remain, past WorkerCount.  *)
BindMoreUnbounded(addrs, workerCount, index) == index < Len(addrs)

(* while (LocalAddress && Index < WorkerCount).                            *)
BindMore(addrs, workerCount, index) == index < Len(addrs) /\ index < workerCount

RECURSIVE BindGiven(_, _, _, _)
BindGiven(addrs, workerCount, index, ws) ==
  IF BindMore(addrs, workerCount, index)
  THEN BindGiven(addrs, workerCount, index + 1, ws @@ (index :> addrs[index + 1]))
  ELSE [index |-> index, ws |-> ws]

RECURSIVE BindRest(_, _, _, _)
BindRest(workerCount, index, i, ws) ==
  IF i < workerCount
  THEN BindRest(workerCount, index, i + 1, ws @@ (i :> ws[(i - index) % index]))
  ELSE ws

BindLocalAddresses(addrs, workerCount) ==
  LET given == BindGiven(addrs, workerCount, 0, <<>>)
  IN  BindRest(workerCount, given.index, given.index, given.ws)

(* Workers[i].LocalAddr after Init: unspecified without -bind.             *)
WorkerLocalAddresses(addrs, workerCount) ==
  IF addrs = <<>> THEN [i \in 0 .. workerCount - 1 |-> Unspec]
  ELSE BindLocalAddresses(addrs, workerCount)

-----------------------------------------------------------------------------
(* PerfClient::Start: each worker takes the next processor that            *)
(* CxPlatProcIsActive reports active, from ThreadConfig.IdealProcessor,   *)
(* which then moves past it.  active is the set of active processors.     *)

(* Mutant: Worker->Processor = ThreadConfig.IdealProcessor, without ++.   *)
NextIdealStays(p) == p

(* ThreadConfig.IdealProcessor++ after it is given to a worker.            *)
NextIdeal(p) == p + 1

RECURSIVE SkipInactive(_, _)
SkipInactive(active, p) == IF p \in active THEN p ELSE SkipInactive(active, p + 1)

RECURSIVE AssignFrom(_, _, _, _)
AssignFrom(active, workerCount, i, ideal) ==
  IF i = workerCount THEN <<>>
  ELSE LET p == SkipInactive(active, ideal)
       IN  <<p>> \o AssignFrom(active, workerCount, i + 1, NextIdeal(p))

(* Worker->Processor of workers 0 .. WorkerCount - 1, in order.            *)
AssignProcessors(active, workerCount) == AssignFrom(active, workerCount, 0, 0)

-----------------------------------------------------------------------------
(* Checks of the operators against their reference, over bounded inputs. *)

(* The -bind list is spread round-robin: worker i binds address           *)
(* i mod n of the n addresses given, for every list of at most maxAddrs   *)
(* addresses and every WorkerCount up to maxWorkers (spec scenario 6:      *)
(* two workers, two addresses, distinct bindings); no address is written  *)
(* for a worker that does not exist.                                       *)
BindSpreadRoundRobinUpTo(families, maxAddrs, maxWorkers) ==
  \A addrs \in SeqOf(families, maxAddrs) \ {<<>>}, wc \in 1 .. maxWorkers :
    BindLocalAddresses(addrs, wc) = [i \in 0 .. wc - 1 |-> addrs[(i % Len(addrs)) + 1]]

(* Start gives the workers the WorkerCount lowest active processors, one  *)
(* each and in order (spec 4.1: each worker takes the next active logical  *)
(* processor), for every set of active processors below maxProc with at   *)
(* least WorkerCount members.                                              *)
WorkersOnDistinctActiveProcessorsUpTo(maxProc, maxWorkers) ==
  \A active \in SUBSET (0 .. maxProc - 1), wc \in 1 .. maxWorkers :
    wc <= Cardinality(active) =>
      AssignProcessors(active, wc) = SubSeq(SetToSortSeq(active, <), 1, wc)
=============================================================================
