----------------------------- MODULE ThreadedLink -----------------------------
(***************************************************************************)
(* The TCP connections between ThreadedServer and its clients, as the two  *)
(* programs use them: Winsock is not part of the repository, so everything *)
(* here is external and modelled from the calls made in                    *)
(* ThreadedServer/ThreadedServer/main.cpp and                              *)
(* ThreadedServer_Client/ThreadedServer_Client/main.cpp.                   *)
(*                                                                         *)
(* Both programs send and receive records of MSG_SIZE bytes.  A record     *)
(* arrives whole, some time after it was sent; a client connects at most   *)
(* once, so a connection is named by its client.                           *)
(***************************************************************************)
EXTENDS Integers, Sequences

CONSTANTS
  Clients,   \* the client processes
  Window     \* records the receive window of a client holds

ASSUME WindowAssumption == Window \in Nat \ {0}

(***************************************************************************)
(* A client sends the text of its counter.  A message is the n-th that the *)
(* connection of its client has taken, whatever the counter was: the code  *)
(* counts on when send() fails.                                            *)
(***************************************************************************)
Message == [from : Clients, n : Nat]

VARIABLES
  backlog,   \* connections established and not yet accepted, in order
  peer,      \* client's end of its connection: none, up or gone
  conn,      \* server's end: none (not accepted yet), open or closed
  uplink,    \* records the connection took and the server has not read: in
             \* flight or arrived, of which only a failing recv() can tell
  downlink,  \* updates sent by the server and not yet read by the client
  missed     \* history: clients for which send() of a non-empty update failed

linkVars == <<backlog, peer, conn, uplink, downlink, missed>>

LinkTypeOK ==
  /\ backlog \in Seq(Clients)
  /\ peer \in [Clients -> {"none", "up", "gone"}]
  /\ conn \in [Clients -> {"none", "open", "closed"}]
  /\ uplink \in [Clients -> Seq(Message)]
  /\ downlink \in [Clients -> Seq(Seq(Message))]
  /\ missed \in SUBSET Clients

LinkInit ==
  /\ backlog = <<>>
  /\ peer = [c \in Clients |-> "none"]
  /\ conn = [c \in Clients |-> "none"]
  /\ uplink = [c \in Clients |-> <<>>]
  /\ downlink = [c \in Clients |-> <<>>]
  /\ missed = {}

(* connect() succeeds as soon as the connection is queued: the server may  *)
(* accept it much later, and data may be sent before that.                 *)
Connect(c) ==
  /\ peer' = [peer EXCEPT ![c] = "up"]
  /\ backlog' = Append(backlog, c)
  /\ UNCHANGED <<conn, uplink, downlink, missed>>

(* send() by a client.  It never returns 0.                                *)
SendToServer(c, m) ==
  /\ conn[c] # "closed"
  /\ uplink' = [uplink EXCEPT ![c] = Append(@, m)]
  /\ UNCHANGED <<backlog, peer, conn, downlink, missed>>

(* It fails on the non-blocking socket while the buffers are full of what  *)
(* was sent before, and once the server has closed its end, when the reset *)
(* may destroy the updates the client has not read yet.                    *)
SendIsRefused(c) ==
  /\ IF conn[c] = "closed"
     THEN downlink' \in {downlink, [downlink EXCEPT ![c] = <<>>]}
     ELSE uplink[c] # <<>> /\ UNCHANGED downlink
  /\ UNCHANGED <<backlog, peer, conn, uplink, missed>>

(* The client process ends.  An abortive close destroys what it had sent   *)
(* and the server had not read; an orderly one does not.                   *)
Disconnect(c) ==
  /\ peer' = [peer EXCEPT ![c] = "gone"]
  /\ uplink' \in {uplink, [uplink EXCEPT ![c] = <<>>]}
  /\ UNCHANGED <<backlog, conn, downlink, missed>>

(* send() by the server on a non-blocking socket, whose result the code    *)
(* ignores: the update is lost when the window of the client is full.      *)
(* An empty set of receivers is a send() on a socket that is closed.       *)
SendUpdate(receivers, update) ==
  LET room == {c \in receivers : peer[c] = "up" /\ Len(downlink[c]) < Window}
  IN  /\ downlink' = [c \in Clients |-> IF c \in room
                                        THEN Append(downlink[c], update)
                                        ELSE downlink[c]]
      /\ missed' = IF update = <<>> THEN missed ELSE missed \cup (receivers \ room)
      /\ UNCHANGED <<backlog, peer, conn, uplink>>
===============================================================================
