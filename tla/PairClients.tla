------------------------------ MODULE PairClients ------------------------------
(***************************************************************************)
(* Blocking_Client/Blocking_Client/client.cpp and                          *)
(* NonBlockingClient/NonBlockingClient/client.cpp: the one prints what a   *)
(* single recv() returns and ends, the other polls for ever.               *)
(***************************************************************************)
EXTENDS PairLink

CONSTANT Polling   \* the clients that run NonBlockingClient

ASSUME PollingAssumption == Polling \subseteq Clients

VARIABLES
  cpc,     \* off, waits (in recv, or polling), spins (on a closed socket), done
  heard    \* clients that have printed something

clientVars == <<cpc, heard>>

ClientTypeOK ==
  /\ cpc \in [Clients -> {"off", "waits", "spins", "done"}]
  /\ heard \subseteq Clients
  /\ \A c \in Clients : cpc[c] = "waits" <=> conn[c] \in {"open", "fin", "reset"}

ClientInit == cpc = [c \in Clients |-> "off"] /\ heard = {}

(* listen(sock, 1) holds one connection that is not accepted yet.          *)
Connect(c) ==
  /\ cpc[c] = "off" /\ listening /\ backlog = <<>>
  /\ cpc' = [cpc EXCEPT ![c] = "waits"]
  /\ conn' = [conn EXCEPT ![c] = "open"]
  /\ backlog' = <<c>>
  /\ UNCHANGED <<listening, served, wire, heard>>

ConnectFails(c) ==
  /\ cpc[c] = "off" /\ (~listening \/ backlog # <<>>)
  /\ cpc' = [cpc EXCEPT ![c] = "done"]
  /\ UNCHANGED <<linkVars, heard>>

(* Faulty: the client does not close its socket.                           *)
PrintOnceKeepsOpen(c) ==
  /\ cpc[c] = "waits" /\ c \notin Polling
  /\ Get(c)
  /\ heard' = heard \cup {c}
  /\ UNCHANGED <<cpc, listening, backlog, served, conn>>

(* Blocking client: the first recv() that returns text is the last.        *)
PrintOnce(c) ==
  /\ cpc[c] = "waits" /\ c \notin Polling
  /\ served = c /\ conn[c] \in {"open", "fin"} /\ wire > 0
  /\ heard' = heard \cup {c}
  /\ cpc' = [cpc EXCEPT ![c] = "done"]
  /\ Leave(c)

(* recv() returns 0 or an error: the client ends having printed nothing.   *)
PrintNothing(c) ==
  /\ cpc[c] = "waits" /\ c \notin Polling
  /\ conn[c] = "reset" \/ (conn[c] = "fin" /\ (served = c => wire = 0))
  /\ cpc' = [cpc EXCEPT ![c] = "done"]
  /\ Leave(c)
  /\ UNCHANGED heard

(* Faulty: text is waited for until the buffer is full.                    *)
PollWaitsForAll(c) ==
  /\ cpc[c] = "waits" /\ c \in Polling /\ wire = Capacity
  /\ Get(c)
  /\ heard' = heard \cup {c}
  /\ UNCHANGED <<cpc, listening, backlog, served, conn>>

(* Polling client: what has come is printed.                               *)
PollPrints(c) ==
  /\ cpc[c] = "waits" /\ c \in Polling
  /\ Get(c)
  /\ heard' = heard \cup {c}
  /\ UNCHANGED <<cpc, listening, backlog, served, conn>>

(* Faulty: the socket is not closed.                                       *)
PollFailsKeepsSocket(c) ==
  /\ cpc[c] = "waits" /\ c \in Polling /\ conn[c] = "reset"
  /\ cpc' = [cpc EXCEPT ![c] = "spins"]
  /\ UNCHANGED <<linkVars, heard>>

(* An error closes the socket but does not leave the loop.  The end of the *)
(* stream is no error: the client polls on.                                *)
PollFails(c) ==
  /\ cpc[c] = "waits" /\ c \in Polling /\ conn[c] = "reset"
  /\ cpc' = [cpc EXCEPT ![c] = "spins"]
  /\ Leave(c)
  /\ UNCHANGED heard

ClientIsKilled(c) ==
  /\ cpc[c] \in {"waits", "spins"}
  /\ cpc' = [cpc EXCEPT ![c] = "done"]
  /\ Leave(c)
  /\ UNCHANGED heard
===============================================================================
