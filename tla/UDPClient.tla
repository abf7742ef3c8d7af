------------------------------- MODULE UDPClient -------------------------------
(***************************************************************************)
(* UDPClient/UDPClient/client.cpp: a chat client.  main reads lines and    *)
(* sends them; a receive thread prints what arrives.  They share sock and  *)
(* running.  One process at a time uses a port.                            *)
(***************************************************************************)
EXTENDS UDPLoopback

CONSTANTS
  MaxDatagrams   \* bound: datagrams sent from each port

ASSUME ClientAssumption == MaxDatagrams \in [Ports -> Nat]

VARIABLES
  cpc,       \* main: off (no process), line (getline), join (of the thread)
  rpc,       \* receive thread: none, loop, exited
  running,   \* the flag of the receive loop
  sent,      \* how many datagrams were sent from each port
  printed    \* history: what was printed by the processes of each port

clientVars == <<cpc, rpc, running, sent, printed>>

ClientTypeOK ==
  /\ cpc \in [Ports -> {"off", "line", "join"}]
  /\ rpc \in [Ports -> {"none", "loop", "exited"}]
  /\ running \in [Ports -> BOOLEAN]
  /\ sent \in [Ports -> Nat] /\ \A p \in Ports : sent[p] <= MaxDatagrams[p]
  /\ printed \in [Ports -> Seq(Event)]

ClientInit ==
  /\ cpc = [p \in Ports |-> "off"]
  /\ rpc = [p \in Ports |-> "none"]
  /\ running = [p \in Ports |-> FALSE]
  /\ sent = [p \in Ports |-> 0]
  /\ printed = [p \in Ports |-> <<>>]

Datagram(p, kind) == [kind |-> kind, who |-> p, n |-> sent[p] + 1]

(* Both the success and the failure of the first sendto lead to running =  *)
(* true, a receive thread and the loop of main.                            *)
BeginLoops(p) ==
  /\ cpc' = [cpc EXCEPT ![p] = "line"]
  /\ rpc' = [rpc EXCEPT ![p] = "loop"]
  /\ running' = [running EXCEPT ![p] = TRUE]
  /\ UNCHANGED printed

Join(p) ==
  /\ cpc[p] = "off" /\ sent[p] < MaxDatagrams[p]
  /\ SendToServer(p, Datagram(p, "join"))
  /\ sent' = [sent EXCEPT ![p] = @ + 1]
  /\ open' = open \cup {p}
  /\ BeginLoops(p)

(* The first sendto fails: the socket is closed already.                   *)
JoinFails(p) ==
  /\ cpc[p] = "off"
  /\ BeginLoops(p)
  /\ UNCHANGED <<sent, netVars>>

Say(p) ==
  /\ cpc[p] = "line" /\ p \in open /\ sent[p] < MaxDatagrams[p]
  /\ SendToServer(p, Datagram(p, "say"))
  /\ sent' = [sent EXCEPT ![p] = @ + 1]
  /\ UNCHANGED <<open, cpc, rpc, running, printed>>

(* Faulty: main leaves its loop, and only that.                            *)
SayFailsAndWaits(p) ==
  /\ cpc[p] = "line"
  /\ cpc' = [cpc EXCEPT ![p] = "join"]
  /\ UNCHANGED <<rpc, running, sent, printed, netVars>>

(* sendto fails: because the receive thread has closed the socket, or for  *)
(* a reason of its own.  main leaves its loop.                             *)
SayFails(p) ==
  /\ cpc[p] = "line"
  /\ running' = [running EXCEPT ![p] = FALSE]
  /\ CloseSocket(p)
  /\ cpc' = [cpc EXCEPT ![p] = "join"]
  /\ UNCHANGED <<rpc, sent, printed>>

(* Faulty: the thread is detached, not joined.                             *)
DetachThread(p) ==
  /\ cpc[p] = "join"
  /\ cpc' = [cpc EXCEPT ![p] = "off"]
  /\ UNCHANGED <<rpc, running, sent, printed, netVars>>

(* recThread.join(), and the end of the process.                           *)
JoinThread(p) ==
  /\ cpc[p] = "join" /\ rpc[p] = "exited"
  /\ cpc' = [cpc EXCEPT ![p] = "off"]
  /\ rpc' = [rpc EXCEPT ![p] = "none"]
  /\ UNCHANGED <<running, sent, printed, netVars>>

(* The user ends the process.                                              *)
IsKilled(p) ==
  /\ cpc[p] # "off"
  /\ CloseSocket(p)
  /\ cpc' = [cpc EXCEPT ![p] = "off"]
  /\ rpc' = [rpc EXCEPT ![p] = "none"]
  /\ running' = [running EXCEPT ![p] = FALSE]
  /\ UNCHANGED <<sent, printed>>

(* The receive thread: recvfrom returns a datagram, which is printed.      *)
Hears(p) ==
  /\ rpc[p] = "loop" /\ p \in open /\ inbox[p] # <<>> /\ Head(inbox[p]) # Reset
  /\ printed' = [printed EXCEPT ![p] = Append(@, Head(inbox[p]))]
  /\ inbox' = [inbox EXCEPT ![p] = Tail(@)]
  /\ UNCHANGED <<cpc, rpc, running, sent, listening, queue, open>>

(* recvfrom fails: the socket is closed, an error was waiting, or a text   *)
(* is too long for the buffer.                                             *)
HearFails(p) ==
  /\ rpc[p] = "loop"
  /\ \/ p \notin open
     \/ inbox[p] # <<>> /\ (Head(inbox[p]) # Reset => Head(inbox[p]).kind = "say")
  /\ CloseSocket(p)
  /\ rpc' = [rpc EXCEPT ![p] = "exited"]
  /\ UNCHANGED <<cpc, running, sent, printed>>

(* The loop ends when running is false.                                    *)
StopsHearing(p) ==
  /\ rpc[p] = "loop"
  /\ ~running[p]
  /\ rpc' = [rpc EXCEPT ![p] = "exited"]
  /\ UNCHANGED <<cpc, running, sent, printed, netVars>>

ReceiveThread(p) == Hears(p) \/ HearFails(p) \/ StopsHearing(p)
===============================================================================
