------------------------------- MODULE UDPServer -------------------------------
(***************************************************************************)
(* UDPServer/UDPServer/server.cpp: the chat server, one loop that receives *)
(* a datagram and sends it on to the registered clients, one by one.       *)
(***************************************************************************)
EXTENDS UDPLoopback

VARIABLES
  spc,       \* the main loop: recv, join or say (its two send loops), exited
  clients,   \* the vector of registered addresses
  packet,    \* the datagram being handled
  i,         \* the loop counter
  log,       \* history: all datagrams handled, in order
  sentTo     \* history: what was sent to each address

serverVars == <<spc, clients, packet, i, log, sentTo>>

NoPacket == <<>>

ServerTypeOK ==
  /\ spc \in {"recv", "join", "say", "exited"}
  /\ clients \in Seq(Ports)
  /\ packet \in Event \cup {NoPacket}
  /\ i \in 0 .. Len(clients)
  /\ log \in Seq(Event)
  /\ sentTo \in [Ports -> Seq(Event)]

ServerInit ==
  /\ spc = "recv"
  /\ clients = <<>>
  /\ packet = NoPacket
  /\ i = 0
  /\ log = <<>>
  /\ sentTo = [p \in Ports |-> <<>>]

(* A datagram '0' registers its sender, whether or not it is registered.   *)
ReceiveJoin ==
  /\ spc = "recv" /\ queue # <<>> /\ Head(queue) # Reset
  /\ Head(queue).kind = "join"
  /\ clients' = Append(clients, Head(queue).who)
  /\ packet' = Head(queue)
  /\ log' = Append(log, Head(queue))
  /\ queue' = Tail(queue)
  /\ spc' = "join"
  /\ UNCHANGED <<i, sentTo, listening, open, inbox>>

(* A datagram '1' is a text.  Its sender need not be registered.           *)
ReceiveText ==
  /\ spc = "recv" /\ queue # <<>> /\ Head(queue) # Reset
  /\ Head(queue).kind = "say"
  /\ packet' = Head(queue)
  /\ log' = Append(log, Head(queue))
  /\ queue' = Tail(queue)
  /\ spc' = "say"
  /\ UNCHANGED <<i, clients, sentTo, listening, open, inbox>>

ServerExits ==
  /\ spc' = "exited"
  /\ listening' = FALSE
  /\ queue' = <<>>
  /\ UNCHANGED <<clients, packet, i, log, sentTo, open, inbox>>

(* Any error of recvfrom ends the server: a reset, and a text that does    *)
(* not fit the buffer.  Which texts are that long is left to choice.       *)
ReceiveFails ==
  /\ spc = "recv" /\ queue # <<>>
  /\ Head(queue) # Reset => Head(queue).kind = "say"
  /\ ServerExits

Send(p) ==
  /\ SendToClient(p, packet)
  /\ sentTo' = [sentTo EXCEPT ![p] = Append(@, packet)]

(* One turn of the loop that announces a client: the last entry of the     *)
(* vector, just added, is left out.                                        *)
Announce ==
  /\ spc = "join" /\ i < Len(clients) - 1
  /\ Send(clients[i + 1])
  /\ i' = i + 1
  /\ UNCHANGED <<spc, clients, packet, log>>

(* Faulty: the counter is declared once for all loops and not set back.    *)
AnnounceDoneForgetsCounter ==
  /\ spc = "join" /\ i >= Len(clients) - 1
  /\ spc' = "recv"
  /\ packet' = NoPacket
  /\ UNCHANGED <<i, clients, log, sentTo, netVars>>

AnnounceDone ==
  /\ spc = "join" /\ i >= Len(clients) - 1
  /\ spc' = "recv"
  /\ packet' = NoPacket
  /\ i' = 0
  /\ UNCHANGED <<clients, log, sentTo, netVars>>

(* Faulty: the author is not left out.                                     *)
RelayToAll ==
  /\ spc = "say" /\ i < Len(clients)
  /\ Send(clients[i + 1])
  /\ i' = i + 1
  /\ UNCHANGED <<spc, clients, packet, log>>

(* Faulty: at an entry of the author the loop goes on without counting.    *)
RelayStopsAtAuthor ==
  /\ spc = "say" /\ i < Len(clients)
  /\ IF clients[i + 1] # packet.who
     THEN Send(clients[i + 1]) /\ i' = i + 1
     ELSE UNCHANGED <<i, sentTo, netVars>>
  /\ UNCHANGED <<spc, clients, packet, log>>

(* One turn of the loop that sends a text on: entries of its author are    *)
(* left out.                                                               *)
Relay ==
  /\ spc = "say" /\ i < Len(clients)
  /\ IF clients[i + 1] # packet.who
     THEN Send(clients[i + 1])
     ELSE UNCHANGED <<sentTo, netVars>>
  /\ i' = i + 1
  /\ UNCHANGED <<spc, clients, packet, log>>

RelayDone ==
  /\ spc = "say" /\ i >= Len(clients)
  /\ spc' = "recv"
  /\ packet' = NoPacket
  /\ i' = 0
  /\ UNCHANGED <<clients, log, sentTo, netVars>>

(* An error of sendto ends the server in the middle of a loop.             *)
SendFails ==
  /\ \/ spc = "join" /\ i < Len(clients) - 1
     \/ spc = "say" /\ i < Len(clients) /\ clients[i + 1] # packet.who
  /\ ServerExits

ServerLoop ==
  \/ ReceiveJoin \/ ReceiveText \/ ReceiveFails
  \/ Announce \/ AnnounceDone \/ Relay \/ RelayDone
===============================================================================
