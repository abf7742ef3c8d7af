---------------------------- MODULE ThreadedClient ----------------------------
(***************************************************************************)
(* ThreadedServer_Client/ThreadedServer_Client/main.cpp: a client that     *)
(* sends its counter and then looks for one update, every UPDATE_INTERVAL, *)
(* on a non-blocking socket.                                               *)
(***************************************************************************)
EXTENDS ThreadedLink

CONSTANTS
  MaxMessages,   \* bound: messages each client sends, per client
  Leavers        \* clients whose process may be ended by the user

ASSUME ClientAssumption ==
  /\ MaxMessages \in [Clients -> Nat]
  /\ Leavers \subseteq Clients

VARIABLES
  cpc,      \* client: start, send, recv, ended
  count,    \* how many messages the connection of the client has taken
  printed   \* history: messages of the updates printed by the client

clientVars == <<cpc, count, printed>>

ClientTypeOK ==
  /\ cpc \in [Clients -> {"start", "send", "recv", "ended"}]
  /\ count \in [Clients -> Nat]
  /\ printed \in [Clients -> Seq(Message)]

ClientInit ==
  /\ cpc = [c \in Clients |-> "start"]
  /\ count = [c \in Clients |-> 0]
  /\ printed = [c \in Clients |-> <<>>]

ClientConnects(c) ==
  /\ cpc[c] = "start"
  /\ Connect(c)
  /\ cpc' = [cpc EXCEPT ![c] = "send"]
  /\ UNCHANGED <<count, printed>>

(* sprintf of the counter, Sleep, send().  The loop ends when send()       *)
(* returns 0, which it never does: where it fails it returns SOCKET_ERROR, *)
(* and the loop goes on.  The bound stops a client from sending, except on *)
(* a closed connection, which takes nothing any more.                      *)
MaySend(c) == count[c] < MaxMessages[c] \/ conn[c] = "closed"

ClientSends(c) ==
  /\ cpc[c] = "send"
  /\ MaySend(c)
  /\ \/ /\ SendToServer(c, [from |-> c, n |-> count[c]])
        /\ count' = [count EXCEPT ![c] = @ + 1]
     \/ /\ SendIsRefused(c)
        /\ UNCHANGED count
  /\ cpc' = [cpc EXCEPT ![c] = "recv"]
  /\ UNCHANGED printed

(* recv() prints one update if there is one.  The bound does not keep a    *)
(* client from reading on.                                                 *)
ClientReceives(c) ==
  /\ cpc[c] = "recv"
  /\ IF downlink[c] = <<>>
     THEN UNCHANGED <<downlink, printed>>
     ELSE /\ printed' = [printed EXCEPT ![c] = @ \o Head(downlink[c])]
          /\ downlink' = [downlink EXCEPT ![c] = Tail(@)]
  /\ cpc' = [cpc EXCEPT ![c] = IF MaySend(c) THEN "send" ELSE "recv"]
  /\ UNCHANGED <<count, backlog, peer, conn, uplink, missed>>

(* The user ends the client process.                                       *)
ClientIsKilled(c) ==
  /\ cpc[c] \in {"send", "recv"}
  /\ Disconnect(c)
  /\ cpc' = [cpc EXCEPT ![c] = "ended"]
  /\ UNCHANGED <<count, printed>>
===============================================================================
