----------------------------- MODULE UDPLoopback -----------------------------
(***************************************************************************)
(* The datagrams between UDPServer and UDPClient.  The client's server     *)
(* address is 127.0.0.1, so they stay on one machine: they are neither     *)
(* reordered nor duplicated, and one is lost only when the buffer of the   *)
(* receiving socket is full.  A datagram to a port without a socket comes  *)
(* back as an error (WSAECONNRESET) of a later recvfrom of the sender.     *)
(* Winsock is not part of the repository: external, modelled from the      *)
(* calls in UDPServer/server.cpp and UDPClient/client.cpp.                 *)
(***************************************************************************)
EXTENDS Naturals, Sequences

CONSTANTS
  Ports,    \* the client addresses; a port of a closed socket is used again
  Buffer,   \* datagrams a socket holds
  Reset     \* an error that waits to be returned by recvfrom

Event == [kind : {"join", "say"}, who : Ports, n : Nat]

ASSUME LoopbackAssumption == Buffer \in Nat \ {0} /\ Reset \notin Event

VARIABLES
  listening,   \* the server's socket is open
  queue,       \* datagrams received by the server's socket
  open,        \* ports whose client has an open socket
  inbox        \* datagrams received by each client's socket

netVars == <<listening, queue, open, inbox>>

NetTypeOK ==
  /\ listening \in BOOLEAN
  /\ queue \in Seq(Event \cup {Reset})
  /\ open \subseteq Ports
  /\ inbox \in [Ports -> Seq(Event \cup {Reset})]

NetInit ==
  /\ listening = TRUE
  /\ queue = <<>>
  /\ open = {}
  /\ inbox = [p \in Ports |-> <<>>]

(* A full socket loses the datagram.                                       *)
Arrive(q, d) == IF Len(q) < Buffer THEN Append(q, d) ELSE q

SendToServer(p, d) ==
  /\ IF listening
     THEN queue' = Arrive(queue, d) /\ UNCHANGED inbox
     ELSE inbox' = [inbox EXCEPT ![p] = Append(@, Reset)] /\ UNCHANGED queue
  /\ UNCHANGED listening

SendToClient(p, d) ==
  /\ IF p \in open
     THEN inbox' = [inbox EXCEPT ![p] = Arrive(@, d)] /\ UNCHANGED queue
     ELSE queue' = Append(queue, Reset) /\ UNCHANGED inbox
  /\ UNCHANGED <<listening, open>>

(* closesocket(): what was not read is gone.                               *)
CloseSocket(p) ==
  /\ open' = open \ {p}
  /\ inbox' = [inbox EXCEPT ![p] = <<>>]
  /\ UNCHANGED <<listening, queue>>
===============================================================================
