---------------------------- MODULE TcpSendChain ----------------------------
(***************************************************************************)
(* PerfClientConnection::TcpSendCompleteCallback (src/perf/lib/            *)
(* PerfClient.cpp): the TCP engine hands back a chain of completed send    *)
(* descriptors, linked by Next, and the callback credits each one to its   *)
(* stream.  The chain is any chain of up to MaxChain descriptors.          *)
(***************************************************************************)
EXTENDS Naturals, Sequences

CONSTANTS
  Streams,         \* stream ids (Entry.Signature) the descriptors name
  Lengths,         \* descriptor lengths
  MaxChain         \* bound: length of a completed chain

ASSUME Streams /= {} /\ Lengths \subseteq Nat \ {0} /\ MaxChain \in Nat \ {0}

VARIABLE chain     \* the completed chain, SendDataChain

(* TcpSendCompleteCallback's loop over the completed chain:               *)
(*   Data = SendDataChain; SendDataChain = Data->Next;                     *)
(*   Stream = GetTcpStream(SendDataChain->StreamId);                       *)
(*   Stream->OnSendComplete(Data->Length, FALSE) ...                       *)
(* returning the (stream, length, fin) credits it makes, and whether it    *)
(* read StreamId through the null Next of the last descriptor.             *)
Descriptor == [sid : Streams, len : Lengths, fin : BOOLEAN]

RECURSIVE CompleteChain(_, _)
CompleteChain(desc, credits) ==
  IF desc = <<>> THEN [null |-> FALSE, credits |-> credits]
  ELSE LET data == Head(desc)
           rest == Tail(desc)
       IN  IF rest = <<>> THEN [null |-> TRUE, credits |-> credits]
           ELSE CompleteChain(rest, Append(credits, [sid |-> Head(rest).sid,
                                                     len |-> data.len,
                                                     fin |-> data.fin]))

Chains == UNION {[1 .. n -> Descriptor] : n \in 1 .. MaxChain}

Init == chain \in Chains

(* The callback runs once on the chain; nothing else changes.             *)
Next == UNCHANGED chain

Spec == Init /\ [][Next]_chain

-----------------------------------------------------------------------------
(* Every descriptor of the completed chain is credited, once, to the      *)
(* stream that sent it, with its own length and FIN, and the walk never   *)
(* reads through a null Next (spec 9: the send-complete handler looks up  *)
(* the stream of the descriptor being completed).                          *)
SendCompletionCreditsOwnStream ==
  CompleteChain(chain, <<>>) =
    [null |-> FALSE,
     credits |-> [i \in 1 .. Len(chain) |-> [sid |-> chain[i].sid, len |-> chain[i].len,
                                             fin |-> chain[i].fin]]]
=============================================================================
