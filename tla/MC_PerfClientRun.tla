-------------------------- MODULE MC_PerfClientRun --------------------------
(* Instantiation of PerfClientRun for TLC.  The scenario constants are    *)
(* derived from command-line values the way PerfClient::Init derives them. *)
EXTENDS PerfClientRun

CONSTANTS Streams, Upload, Download, PrintLatency, PerSecond

MCStreamCount == InitStreamCount(Streams, Upload, Download)

MCMaxLatencyIndex ==
  InitMaxLatencyIndex(PrintLatency, RunTime, PerSecond, ConnectionCount, MCStreamCount)

(* -bind lists: none, the wildcard (-bind:*, so that the worker reads its *)
(* address back with GetParam), and one specific address.                  *)
MCNoBind == <<>>
MCBindWildcard == <<Unspec>>
MCBindSpecific == <<"inet">>

(* Bounds of the checks of Init's and Start's operators: address lists of *)
(* up to 3 families for up to 4 workers (so that a list is shorter than,  *)
(* as long as and longer than the workers), and processor sets below 4.   *)
MCFamilies == {Unspec, "inet", "inet6"}
MCMaxBindAddresses == 3
MCMaxBindWorkers == 4
MCMaxProcessors == 4

(* Init spreads the -bind list round-robin over the workers               *)
(* (BindSpreadRoundRobinUpTo, checked for every list and worker count in  *)
(* the bounds above), before Start queues the first connection.            *)
BindSpreadRoundRobin ==
  queueIndex = 0 =>
    BindSpreadRoundRobinUpTo(MCFamilies, MCMaxBindAddresses, MCMaxBindWorkers)

(* Start puts the workers on distinct active processors, the lowest ones  *)
(* in order (WorkersOnDistinctActiveProcessorsUpTo, within the bounds),   *)
(* before it queues the first connection.                                  *)
WorkersOnDistinctActiveProcessors ==
  queueIndex = 0 =>
    WorkersOnDistinctActiveProcessorsUpTo(MCMaxProcessors, MCMaxBindWorkers)
=============================================================================
