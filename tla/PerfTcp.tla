------------------------------- MODULE PerfTcp -------------------------------
(***************************************************************************)
(* The TCP back-end of the perf client (src/perf/lib/PerfClient.cpp, with  *)
(* UseTCP): one PerfClientConnection created by its worker, the TCP engine *)
(* that connects it or fails to, and PerfClientConnection::                *)
(* TcpConnectCallback, which runs OnConnectionComplete or                  *)
(* OnShutdownComplete.  OnConnectionComplete's TCP path starts StreamCount *)
(* streams, each inserted in StreamTable.  TcpSendCompleteCallback is the *)
(* subject of module TcpSendChain.                                         *)
(***************************************************************************)
EXTENDS Naturals, Sequences

CONSTANT StreamCount  \* PerfClient::StreamCount

ASSUME StreamCount \in Nat

VARIABLES
  engine,          \* TcpConnection: "connecting", "connected", "failed", "closed"
  connSt,          \* PerfClientConnection: "allocated", "initialized", "started", "freed"
  streamsCreated,  \* PerfClientConnection::StreamsCreated
  streamTable,     \* ids inserted in StreamTable
  connected,       \* Worker.ConnectionsConnected
  completed,       \* Worker.ConnectionsCompleted
  wasConnected     \* the engine reported the connection established

vars == <<engine, connSt, streamsCreated, streamTable, connected, completed,
          wasConnected>>

-----------------------------------------------------------------------------
(* Connection callbacks.                                                   *)

(* OnConnectionComplete on the TCP path: ConnectionsConnected++, then      *)
(* StartNewStream StreamCount times, each inserting its stream in          *)
(* StreamTable under Worker.StreamsStarted.  With no stream it calls       *)
(* MsQuic->ConnectionShutdown on Handle, which is null for TCP, and        *)
(* nothing else happens.                                                   *)
OnConnectionComplete ==
  /\ connected' = connected + 1
  /\ streamsCreated' = streamsCreated + StreamCount
  /\ streamTable' = streamTable \cup (streamsCreated .. streamsCreated + StreamCount - 1)
  /\ connSt' = "started"
  /\ UNCHANGED completed

(* OnShutdownComplete: Worker.OnConnectionComplete, then the connection   *)
(* is freed, and its destructor closes TcpConn.                            *)
OnShutdownComplete ==
  /\ completed' = completed + 1
  /\ connSt' = "freed"
  /\ UNCHANGED <<streamsCreated, streamTable, connected>>

(* TcpConnectCallback(Connection, IsConnected).                            *)
TcpConnectCallback(isConnected) ==
  IF ~isConnected THEN OnConnectionComplete ELSE OnShutdownComplete

(* PerfClientConnection::Initialize, UseTCP: the worker allocates the     *)
(* TcpConnection, which starts connecting; when !TcpConn->IsInitialized() *)
(* the connection is freed to the pool at once (its destructor closes      *)
(* TcpConn) and no callback ever comes.                                    *)
Initialize ==
  /\ connSt = "allocated"
  /\ \/ connSt' = "initialized" /\ UNCHANGED engine
     \/ connSt' = "freed" /\ engine' = "closed"
  /\ UNCHANGED <<streamsCreated, streamTable, connected, completed, wasConnected>>

(* The engine establishes the connection and reports it.                   *)
EngineConnected ==
  /\ engine = "connecting" /\ connSt = "initialized"
  /\ TcpConnectCallback(TRUE)
  /\ wasConnected' = TRUE
  /\ engine' = IF connSt' = "freed" THEN "closed" ELSE "connected"

(* The engine fails to connect and reports it.                             *)
EngineFailed ==
  /\ engine = "connecting" /\ connSt = "initialized"
  /\ TcpConnectCallback(FALSE)
  /\ engine' = IF connSt' = "freed" THEN "closed" ELSE "failed"
  /\ UNCHANGED wasConnected

Init ==
  /\ engine = "connecting"
  /\ connSt = "allocated"
  /\ streamsCreated = 0 /\ streamTable = {}
  /\ connected = 0 /\ completed = 0
  /\ wasConnected = FALSE

Next == Initialize \/ EngineConnected \/ EngineFailed

Spec == Init /\ [][Next]_vars

-----------------------------------------------------------------------------
(* Properties.                                                             *)

TypeOK ==
  /\ engine \in {"connecting", "connected", "failed", "closed"}
  /\ connSt \in {"allocated", "initialized", "started", "freed"}
  /\ streamsCreated \in Nat /\ streamTable \subseteq Nat
  /\ connected \in Nat /\ completed \in Nat
  /\ wasConnected \in BOOLEAN

(* A connection the engine establishes runs its StreamCount streams       *)
(* before it is completed (spec: on connect success, OnConnectionComplete *)
(* opens the streams; shutdown completes the connection).                  *)
ConnectedConnectionRunsStreams ==
  wasConnected => (connSt /= "freed" \/ streamsCreated = StreamCount)
=============================================================================
