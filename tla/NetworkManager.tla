---------------------------- MODULE NetworkManager ----------------------------
(***************************************************************************)
(* UnityNetworkingDLL: NetworkManager.cpp, of which each of the two peers  *)
(* of a Boids session has one instance, and the functions of Wrapper.cpp   *)
(* that its game calls.  The instance has a receive thread that shares     *)
(* received, newReceived, hasError and running with the game thread,       *)
(* without a lock.                                                         *)
(*                                                                         *)
(* An address is abstracted to whether it is that of an open socket.  The  *)
(* datagrams are external: UDP may lose and reorder them; one that meets a *)
(* closed port comes back as an error of a later recvfrom.                 *)
(***************************************************************************)
EXTENDS Naturals, Sequences, SequencesExt

CONSTANTS
  Server, Client,   \* the peers; the server is the one without a serverAddress
  Capacity          \* datagrams a socket holds

ASSUME PeerAssumption == Server # Client /\ Capacity \in Nat \ {0}

Peers == {Server, Client}
Other(p) == IF p = Server THEN Client ELSE Server

(* "0", or a flock; Torn is what a read of received gives that runs into   *)
(* the assignment to it.                                                   *)
Messages == {"connect", "flock"}

VARIABLES
  sock,         \* none, good or bad (bind or the first sendto failed)
  thread,       \* receive thread: none (not joinable), loop, store, exited
  running,      \* the flag of the receive loop
  connected,    \* the server's receive thread has had its first datagram
  sender,       \* senderAddr of the server: none, open or closed
  incoming,     \* the message being assigned to received
  received, newReceived, hasError,
  inbox,        \* datagrams in each socket
  reset         \* an error waits to be returned by recvfrom

netVars == <<sock, thread, running, connected, sender, incoming,
             received, newReceived, hasError, inbox, reset>>
threadUnchanged == <<sock, running>>

NetTypeOK ==
  /\ sock \in [Peers -> {"none", "good", "bad"}]
  /\ thread \in [Peers -> {"none", "loop", "store", "exited"}]
  /\ running \in [Peers -> BOOLEAN]
  /\ connected \in BOOLEAN
  /\ sender \in {"none", "open", "closed"}
  /\ incoming \in [Peers -> Messages]
  /\ received \in [Peers -> Messages]
  /\ newReceived \in [Peers -> BOOLEAN]
  /\ hasError \in [Peers -> BOOLEAN]
  /\ inbox \in [Peers -> Seq([kind : Messages, from : {"open", "closed"}])]
  /\ \A p \in Peers : Len(inbox[p]) <= Capacity
  /\ reset \in [Peers -> BOOLEAN]
  /\ connected => sender # "none"

(* The instance is a global object: everything is zero at first.           *)
NetInit ==
  /\ sock = [p \in Peers |-> "none"]
  /\ thread = [p \in Peers |-> "none"]
  /\ running = [p \in Peers |-> FALSE]
  /\ connected = FALSE
  /\ sender = "none"
  /\ incoming = [p \in Peers |-> "connect"]
  /\ received = [p \in Peers |-> "connect"]
  /\ newReceived = [p \in Peers |-> FALSE]
  /\ hasError = [p \in Peers |-> FALSE]
  /\ inbox = [p \in Peers |-> <<>>]
  /\ reset = [p \in Peers |-> FALSE]

-------------------------------------------------------------------------------
Deliver(p, kind) ==
  IF sock[Other(p)] = "good" /\ (p = Server => sender = "open")
  THEN /\ inbox' = [inbox EXCEPT ![Other(p)] =
                      IF Len(@) < Capacity THEN Append(@, [kind |-> kind, from |-> "open"]) ELSE @]
       /\ UNCHANGED reset
  ELSE /\ reset' = [reset EXCEPT ![p] = TRUE]
       /\ UNCHANGED inbox

(* What the client has sent does not name an open socket any more, nor     *)
(* does the senderAddr it has set.                                         *)
SenderWithout(p) == IF p = Client /\ sender = "open" THEN "closed" ELSE sender

CloseSocket(p) ==
  /\ sock' = [sock EXCEPT ![p] = "none"]
  /\ inbox' = IF p = Server
              THEN [inbox EXCEPT ![Server] = <<>>]
              ELSE [q \in Peers |-> IF q = Client THEN <<>>
                      ELSE [k \in DOMAIN inbox[q] |-> [inbox[q][k] EXCEPT !.from = "closed"]]]
  /\ reset' = [reset EXCEPT ![p] = FALSE]

-------------------------------------------------------------------------------
(* initialize() reports an error and goes on: the receive thread starts    *)
(* whatever has failed.  A client sends "0".                               *)
OpenSocket(p, ok) ==
  /\ sock' = [sock EXCEPT ![p] = IF ok THEN "good" ELSE "bad"]
  /\ hasError' = [hasError EXCEPT ![p] = @ \/ ~ok]
  /\ running' = [running EXCEPT ![p] = TRUE]
  /\ IF ok /\ p = Client
     THEN Deliver(p, "connect") \/ UNCHANGED <<inbox, reset>>
     ELSE UNCHANGED <<inbox, reset>>
  /\ UNCHANGED <<sender, incoming, received, newReceived>>

Initialize(p, ok) ==
  /\ OpenSocket(p, ok)
  /\ thread' = [thread EXCEPT ![p] = "loop"]
  /\ connected' = IF p = Server THEN FALSE ELSE connected

(* cleanUp(), after running = false: join, closesocket.                    *)
JoinAndClose(p) ==
  /\ thread[p] = "exited"
  /\ thread' = [thread EXCEPT ![p] = "none"]
  /\ CloseSocket(p)
  /\ sender' = SenderWithout(p)
  /\ UNCHANGED <<running, connected, incoming, received, newReceived, hasError>>

(* The process ends, with its instance; the next one starts from zero.     *)
ProcessEnds(p) ==
  /\ CloseSocket(p)
  /\ sender' = IF p = Server THEN "none" ELSE SenderWithout(p)
  /\ thread' = [thread EXCEPT ![p] = "none"]
  /\ running' = [running EXCEPT ![p] = FALSE]
  /\ incoming' = [incoming EXCEPT ![p] = "connect"]
  /\ received' = [received EXCEPT ![p] = "connect"]
  /\ newReceived' = [newReceived EXCEPT ![p] = FALSE]
  /\ hasError' = [hasError EXCEPT ![p] = FALSE]
  /\ connected' = IF p = Server THEN FALSE ELSE connected

-------------------------------------------------------------------------------
(* The receive thread.  The server takes its first datagram, whatever it   *)
(* is, for the connection of a client; every datagram sets senderAddr.     *)
TakeDatagram(p, d) ==
  /\ thread[p] = "loop" /\ running[p] /\ sock[p] = "good"
  /\ d \in DOMAIN inbox[p]
  /\ inbox' = [inbox EXCEPT ![p] = RemoveAt(@, d)]
  /\ sender' = IF p = Server THEN inbox[p][d].from ELSE sender

(* Faulty: connected is not set.                                           *)
ReceiveFirstAlways(p) ==
  /\ p = Server
  /\ \E d \in 1 .. Capacity : TakeDatagram(p, d)
  /\ UNCHANGED <<threadUnchanged, thread, connected, incoming, received, newReceived, hasError, reset>>

(* Faulty: the first datagram is taken without its sender.                 *)
ReceiveFirstOfNobody(p) ==
  /\ p = Server /\ ~connected
  /\ thread[p] = "loop" /\ running[p] /\ sock[p] = "good" /\ inbox[p] # <<>>
  /\ inbox' = [inbox EXCEPT ![p] = Tail(@)]
  /\ connected' = TRUE
  /\ UNCHANGED <<threadUnchanged, thread, sender, incoming, received, newReceived, hasError, reset>>

ReceiveFirst(p) ==
  /\ p = Server /\ ~connected
  /\ \E d \in 1 .. Capacity : TakeDatagram(p, d)
  /\ connected' = TRUE
  /\ UNCHANGED <<threadUnchanged, thread, incoming, received, newReceived, hasError, reset>>

Receive(p) ==
  /\ p = Server => connected
  /\ \E d \in 1 .. Capacity :
       /\ TakeDatagram(p, d)
       /\ incoming' = [incoming EXCEPT ![p] = inbox[p][d].kind]
  /\ thread' = [thread EXCEPT ![p] = "store"]
  /\ UNCHANGED <<threadUnchanged, connected, received, newReceived, hasError, reset>>

(* received = buffer, newReceived = true.                                  *)
Store(p) ==
  /\ thread[p] = "store"
  /\ received' = [received EXCEPT ![p] = incoming[p]]
  /\ newReceived' = [newReceived EXCEPT ![p] = TRUE]
  /\ thread' = [thread EXCEPT ![p] = "loop"]
  /\ incoming' = [incoming EXCEPT ![p] = "connect"]
  /\ UNCHANGED <<threadUnchanged, connected, sender, hasError, inbox, reset>>

(* recvfrom fails: once when a datagram met a closed port, every time on a *)
(* socket that has no port.  The loop goes on.                             *)
ReceiveFails(p) ==
  /\ thread[p] = "loop" /\ running[p]
  /\ reset[p] \/ sock[p] = "bad"
  /\ hasError' = [hasError EXCEPT ![p] = TRUE]
  /\ reset' = [reset EXCEPT ![p] = FALSE]
  /\ UNCHANGED <<threadUnchanged, thread, connected, sender, incoming, received, newReceived, inbox>>

StopReceiving(p) ==
  /\ thread[p] = "loop"
  /\ ~running[p]
  /\ thread' = [thread EXCEPT ![p] = "exited"]
  /\ UNCHANGED <<threadUnchanged, connected, sender, incoming, received, newReceived, hasError, inbox, reset>>

ReceiveThread(p) ==
  ReceiveFirst(p) \/ Receive(p) \/ Store(p) \/ ReceiveFails(p) \/ StopReceiving(p)

(* What getLastReceived() finds: during the assignment, anything.          *)
LastReceived(p) ==
  IF thread[p] = "store" THEN {received[p], incoming[p], "torn"} ELSE {received[p]}
===============================================================================
