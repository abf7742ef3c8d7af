------------------------------ MODULE MidtermSync ------------------------------
(***************************************************************************)
(* Midterm: two programs that each show a box of their own and one of the  *)
(* other, and send the position of their own box over UDP when it moves.   *)
(* In either program a receive thread writes what the GLUT thread draws.   *)
(*                                                                         *)
(* A position is the number of ticks that have moved the box: the start of *)
(* a box is the same in both programs, and the connect message "0" reads   *)
(* as the start of the client's.  Left to choice: which keys are held at a *)
(* tick, whether packetDelay has run off, and what the velocity is (a      *)
(* coordinate to which a velocity was added is Reckoned).                   *)
(***************************************************************************)
EXTENDS Naturals

CONSTANTS
  Server, Client,
  Nothing,      \* no position
  Reckoned,     \* a coordinate that dead reckoning has moved
  Budgets       \* bounds; an execution keeps to one of them

Peers == {Server, Client}
Other(p) == IF p = Server THEN Client ELSE Server

ASSUME MidtermAssumption ==
  /\ Server # Client
  /\ Nothing \notin Nat /\ Reckoned \notin Nat
  /\ Budgets \subseteq [moves : [Peers -> Nat], launches : [Peers -> Nat], reckoning : BOOLEAN]

VARIABLES
  budget,         \* ticks that move each box, processes started, is 'f' used
  up,             \* off, open, or closed: the process runs without its socket
  launches,       \* processes started so far
  own,            \* xTrans, yTrans
  shown,          \* redTransX/Y of the server, blueTransX/Y of the client
  thread,         \* receive(): loop, store (X is stored, Y is not), exited
  got,            \* the position it stores
  connected, peer,         \* server: connected, whose address sockAddr holds
  deadReckoning, recordPOS,
  frame,          \* server's display: idle, addX, addY
  inbox,          \* the datagrams on their way to each peer
  reset,          \* an error that waits to be returned by recvfrom
  sent,           \* history: what a peer last sent to the present other process
  fate,           \* history: of what is sent: fresh (underway, or taken last);
                  \* lost; overtaken (something else was taken last); swallowed
                  \* (it is a movement, taken for the connect message)
  session         \* history: both began afresh, and neither program has ended

peerVars == <<budget, up, launches, own>>
threadVars == <<shown, thread, got, recordPOS>>
serverVars == <<connected, peer, deadReckoning>>
netVars == <<inbox, reset, sent, fate>>
vars == <<peerVars, threadVars, serverVars, frame, netVars, session>>

Datagram == [at : Nat, from : {"here", "gone"}]
Both(v) == [x |-> v, y |-> v]
AtBoth(v) == [p \in Peers |-> v]

Init ==
  /\ budget \in Budgets
  /\ up = AtBoth("off") /\ launches = AtBoth(0) /\ own = AtBoth(0)
  /\ shown = AtBoth(Both(0)) /\ thread = AtBoth("exited") /\ got = AtBoth(0)
  /\ connected = FALSE /\ peer = "none"
  /\ deadReckoning = FALSE /\ recordPOS = FALSE
  /\ frame = "idle"
  /\ inbox = AtBoth({}) /\ reset = AtBoth(FALSE)
  /\ sent = AtBoth(Nothing) /\ fate = AtBoth("fresh")
  /\ session = FALSE

(* sendto(): a datagram to an address without a socket is answered by a    *)
(* reset, unless that is lost too.                                         *)
Send(p, v) ==
  LET q == Other(p) IN
  IF up'[q] = "open" /\ (p = Server => peer = "here")
  THEN /\ inbox' = [inbox EXCEPT ![q] = @ \cup {[at |-> v, from |-> "here"]}]
       /\ sent' = [sent EXCEPT ![p] = v] /\ fate' = [fate EXCEPT ![p] = "fresh"]
       /\ UNCHANGED reset
  ELSE /\ \E r \in {reset[p], TRUE} : reset' = [reset EXCEPT ![p] = r]
       /\ UNCHANGED <<inbox, sent, fate>>

Latest(p, m) == m = [at |-> sent[Other(p)], from |-> "here"]

(* The network may lose a datagram.                                        *)
Lose(p) ==
  /\ \E m \in inbox[p] :
       /\ inbox' = [inbox EXCEPT ![p] = @ \ {m}]
       /\ fate' = [fate EXCEPT ![Other(p)] = IF Latest(p, m) THEN "lost" ELSE @]
  /\ UNCHANGED <<peerVars, threadVars, serverVars, frame, reset, sent, session>>

(* What is on its way to a socket that closes may be answered by a reset.  *)
CloseSocket(p) ==
  LET q == Other(p) IN
  /\ inbox' = [inbox EXCEPT ![p] = {}, ![q] = {[m EXCEPT !.from = "gone"] : m \in @}]
  /\ \E r \in {FALSE, \E m \in inbox[p] : m.from = "here"} :
       reset' = [reset EXCEPT ![p] = FALSE, ![q] = @ \/ r]
  /\ sent' = AtBoth(Nothing) /\ fate' = AtBoth("fresh")
-------------------------------------------------------------------------------
(* init(), main(): the socket is bound, the receive thread started.        *)
LaunchServer ==
  /\ up[Server] = "off" /\ launches[Server] < budget.launches[Server]
  /\ up' = [up EXCEPT ![Server] = "open"]
  /\ launches' = [launches EXCEPT ![Server] = @ + 1]
  /\ thread' = [thread EXCEPT ![Server] = "loop"]
  /\ UNCHANGED <<budget, own, shown, got, recordPOS, serverVars, frame, netVars, session>>

LaunchClient ==
  /\ up[Client] = "off" /\ launches[Client] < budget.launches[Client]
  /\ up' = [up EXCEPT ![Client] = "open"]
  /\ launches' = [launches EXCEPT ![Client] = @ + 1]
  /\ thread' = [thread EXCEPT ![Client] = "loop"]
  /\ Send(Client, 0)
  /\ session' = (up[Server] = "open" /\ peer = "none" /\ inbox[Server] = {})
  /\ UNCHANGED <<budget, own, shown, got, recordPOS, serverVars, frame>>

(* When the connect message cannot be sent (an address mistyped), the      *)
(* client goes on with a closed socket and no receive thread.              *)
LaunchClientFails ==
  /\ up[Client] = "off" /\ launches[Client] < budget.launches[Client]
  /\ up' = [up EXCEPT ![Client] = "closed"]
  /\ launches' = [launches EXCEPT ![Client] = @ + 1]
  /\ UNCHANGED <<budget, own, threadVars, serverVars, frame, netVars, session>>

EndServer ==
  /\ up' = [up EXCEPT ![Server] = "off"] /\ own' = [own EXCEPT ![Server] = 0]
  /\ shown' = [shown EXCEPT ![Server] = Both(0)]
  /\ thread' = [thread EXCEPT ![Server] = "exited"] /\ got' = [got EXCEPT ![Server] = 0]
  /\ connected' = FALSE /\ peer' = "none" /\ deadReckoning' = FALSE /\ recordPOS' = FALSE
  /\ frame' = "idle"
  /\ CloseSocket(Server) /\ session' = FALSE
  /\ UNCHANGED <<budget, launches>>

EndClient ==
  /\ up' = [up EXCEPT ![Client] = "off"] /\ own' = [own EXCEPT ![Client] = 0]
  /\ shown' = [shown EXCEPT ![Client] = Both(0)]
  /\ thread' = [thread EXCEPT ![Client] = "exited"] /\ got' = [got EXCEPT ![Client] = 0]
  /\ peer' = IF peer = "here" THEN "gone" ELSE peer
  /\ CloseSocket(Client) /\ session' = FALSE
  /\ UNCHANGED <<budget, launches, recordPOS, connected, deadReckoning, frame>>

(* 'q', escape, the window closed, the process killed, or sendto() failing *)
(* by itself.                                                              *)
QuitServer == up[Server] # "off" /\ EndServer
QuitClient == up[Client] # "off" /\ EndClient
-------------------------------------------------------------------------------
(* recvfrom() of the receive thread returns a datagram.                    *)
Read(p, m) ==
  /\ up[p] = "open" /\ thread[p] = "loop" /\ m \in inbox[p]
  /\ inbox' = [inbox EXCEPT ![p] = @ \ {m}]
  /\ UNCHANGED <<peerVars, reset, sent, session>>

Take(p, m, use) ==
  fate' = [fate EXCEPT ![Other(p)] = IF Latest(p, m) THEN use ELSE "overtaken"]

(* Faulty: connected is not set.                                           *)
ServerConnectsForgets ==
  \E m \in inbox[Server] :
    /\ Read(Server, m) /\ ~connected
    /\ peer' = m.from
    /\ Take(Server, m, IF m.at = 0 \/ peer # "none" THEN "fresh" ELSE "swallowed")
    /\ UNCHANGED <<connected, deadReckoning, threadVars, frame>>

(* The first datagram is taken for the connect message, whatever it is,    *)
(* and not stored: the server goes on showing the start.                   *)
ServerConnects ==
  \E m \in inbox[Server] :
    /\ Read(Server, m) /\ ~connected
    /\ connected' = TRUE /\ peer' = m.from
    /\ Take(Server, m, IF m.at = 0 THEN "fresh" ELSE "swallowed")
    /\ UNCHANGED <<deadReckoning, threadVars, frame>>

(* A later one is stored, coordinate by coordinate.                        *)
StoreX(p, m) ==
  /\ shown' = [shown EXCEPT ![p].x = m.at]
  /\ got' = [got EXCEPT ![p] = m.at]
  /\ thread' = [thread EXCEPT ![p] = "store"]
  /\ Take(p, m, "fresh")

(* recvfrom() writes the sender's address to sockAddr, which the GLUT      *)
(* thread sends to.                                                        *)
ServerTakes ==
  \E m \in inbox[Server] :
    /\ Read(Server, m) /\ connected
    /\ peer' = m.from
    /\ StoreX(Server, m)
    /\ UNCHANGED <<recordPOS, connected, deadReckoning, frame>>

ClientTakes ==
  \E m \in inbox[Client] :
    /\ Read(Client, m)
    /\ StoreX(Client, m)
    /\ UNCHANGED <<recordPOS, serverVars, frame>>

(* Faulty: the second float of the datagram is not stored.                 *)
StoreYForgets(p) ==
  /\ thread[p] = "store"
  /\ thread' = [thread EXCEPT ![p] = "loop"]
  /\ got' = [got EXCEPT ![p] = 0]
  /\ recordPOS' = (recordPOS \/ p = Server)
  /\ UNCHANGED <<peerVars, shown, serverVars, frame, netVars, session>>

StoreY(p) ==
  /\ thread[p] = "store"
  /\ shown' = [shown EXCEPT ![p].y = got[p]]
  /\ thread' = [thread EXCEPT ![p] = "loop"]
  /\ got' = [got EXCEPT ![p] = 0]
  /\ recordPOS' = (recordPOS \/ p = Server)
  /\ UNCHANGED <<peerVars, serverVars, frame, netVars, session>>

(* Faulty: WSAEWOULDBLOCK is taken for an error.                           *)
ReceiveFailsWhenEmpty(p) ==
  /\ up[p] = "open" /\ thread[p] = "loop" /\ (reset[p] \/ inbox[p] = {})
  /\ up' = [up EXCEPT ![p] = "closed"]
  /\ thread' = [thread EXCEPT ![p] = "exited"]
  /\ peer' = IF p = Client /\ peer = "here" THEN "gone" ELSE peer
  /\ CloseSocket(p)
  /\ UNCHANGED <<budget, launches, own, shown, got, recordPOS, connected, deadReckoning, frame, session>>

(* Faulty: the loop is not left (as in NonBlockingClient).                 *)
ReceiveFailsGoesOn(p) ==
  /\ up[p] = "open" /\ thread[p] = "loop" /\ reset[p]
  /\ up' = [up EXCEPT ![p] = "closed"]
  /\ peer' = IF p = Client /\ peer = "here" THEN "gone" ELSE peer
  /\ CloseSocket(p)
  /\ UNCHANGED <<budget, launches, own, threadVars, connected, deadReckoning, frame, session>>

(* Any error ends the receive thread and closes the socket; the GLUT       *)
(* thread goes on.                                                         *)
ReceiveFails(p) ==
  /\ up[p] = "open" /\ thread[p] = "loop" /\ reset[p]
  /\ up' = [up EXCEPT ![p] = "closed"]
  /\ thread' = [thread EXCEPT ![p] = "exited"]
  /\ peer' = IF p = Client /\ peer = "here" THEN "gone" ELSE peer
  /\ CloseSocket(p)
  /\ UNCHANGED <<budget, launches, own, shown, got, recordPOS, connected, deadReckoning, frame, session>>

ServerReceive ==
  ServerConnects \/ ServerTakes \/ StoreY(Server) \/ ReceiveFails(Server)

ClientReceive == ClientTakes \/ StoreY(Client) \/ ReceiveFails(Client)
-------------------------------------------------------------------------------
(* The server's timer callback with a movement key down, and perhaps 'f':  *)
(* the box moves (opposite keys cancel out) and its position is sent.      *)
ServerMoves ==
  /\ up[Server] = "open" /\ frame = "idle" /\ peer # "none"
  /\ \E step \in 0 .. 1 : own' = [own EXCEPT ![Server] = @ + step]
  /\ own'[Server] <= budget.moves[Server]
  /\ deadReckoning' \in {deadReckoning, ~deadReckoning /\ budget.reckoning}
  /\ UNCHANGED up
  /\ Send(Server, own'[Server])
  /\ UNCHANGED <<budget, launches, threadVars, connected, peer, frame, session>>

ServerToggles ==
  /\ up[Server] # "off" /\ frame = "idle" /\ budget.reckoning
  /\ deadReckoning' = ~deadReckoning
  /\ UNCHANGED <<peerVars, threadVars, connected, peer, frame, netVars, session>>

(* sendto() fails on a closed socket, and to the address the server binds  *)
(* (INADDR_ANY) while it has received nothing.  The server then exits.     *)
ServerSendFails ==
  /\ up[Server] = "closed" \/ (up[Server] = "open" /\ peer = "none")
  /\ frame = "idle"
  /\ EndServer

(* The client sends only when packetDelay has run off.                     *)
ClientMoves ==
  /\ up[Client] = "open"
  /\ \E step \in 0 .. 1 : own' = [own EXCEPT ![Client] = @ + step]
  /\ own'[Client] <= budget.moves[Client]
  /\ UNCHANGED up
  /\ Send(Client, own'[Client]) \/ UNCHANGED netVars
  /\ UNCHANGED <<budget, launches, threadVars, serverVars, frame, session>>

ClientSendFails == up[Client] = "closed" /\ EndClient
-------------------------------------------------------------------------------
(* The server's display callback: with dead reckoning on, a frame adds the *)
(* velocity to each coordinate, but not the first frame after a datagram.  *)
SkipReckoning ==
  /\ up[Server] # "off" /\ frame = "idle" /\ deadReckoning /\ recordPOS
  /\ recordPOS' = FALSE
  /\ UNCHANGED <<peerVars, shown, thread, got, serverVars, frame, netVars, session>>

BeginReckoning ==
  /\ up[Server] # "off" /\ frame = "idle" /\ deadReckoning /\ ~recordPOS
  /\ frame' = "addX"
  /\ UNCHANGED <<peerVars, threadVars, serverVars, netVars, session>>

(* What was stored since is overwritten: nothing is locked.                *)
AddX ==
  /\ frame = "addX"
  /\ shown' = [shown EXCEPT ![Server].x = Reckoned]
  /\ frame' = "addY"
  /\ UNCHANGED <<peerVars, thread, got, recordPOS, serverVars, netVars, session>>

AddY ==
  /\ frame = "addY"
  /\ shown' = [shown EXCEPT ![Server].y = Reckoned]
  /\ frame' = "idle"
  /\ UNCHANGED <<peerVars, thread, got, recordPOS, serverVars, netVars, session>>

Display == SkipReckoning \/ BeginReckoning \/ AddX \/ AddY

Next ==
  \/ LaunchServer \/ LaunchClient \/ LaunchClientFails \/ QuitServer \/ QuitClient
  \/ \E p \in Peers : Lose(p)
  \/ ServerReceive \/ ClientReceive
  \/ ServerMoves \/ ServerToggles \/ ServerSendFails \/ ClientMoves \/ ClientSendFails
  \/ Display

(* The receive threads poll for ever.  Nobody need press a key.            *)
Fairness == WF_vars(ServerReceive) /\ WF_vars(ClientReceive)
Spec == Init /\ [][Next]_vars /\ Fairness
-------------------------------------------------------------------------------
(* What p sends, and what the other peer knows of it, are positions its    *)
(* box can have had.                                                       *)
WithinBudget(p) ==
  LET q == Other(p)
      Positions == 0 .. budget.moves[p] IN
  /\ launches[p] <= budget.launches[p] /\ own[p] \in Positions
  /\ sent[p] \in Positions \cup {Nothing}
  /\ \A m \in inbox[q] : m.at \in Positions
  /\ got[q] \in Positions
  /\ {shown[q].x, shown[q].y} \subseteq Positions \cup {Reckoned}

(* Every variable holds a value the declarations allow; a peer has a       *)
(* receive thread as long as its socket is open; and no position is known  *)
(* to a peer that the other's box has never had.                           *)
TypeOK ==
  LET Coordinate == Nat \cup {Reckoned} IN
  /\ budget \in Budgets
  /\ up \in [Peers -> {"off", "open", "closed"}]
  /\ launches \in [Peers -> Nat] /\ own \in [Peers -> Nat] /\ got \in [Peers -> Nat]
  /\ shown \in [Peers -> [x : Coordinate, y : Coordinate]]
  /\ thread \in [Peers -> {"loop", "store", "exited"}]
  /\ \A p \in Peers : up[p] = "open" <=> thread[p] # "exited"
  /\ connected \in BOOLEAN /\ peer \in {"none", "here", "gone"}
  /\ deadReckoning \in BOOLEAN /\ recordPOS \in BOOLEAN
  /\ frame \in {"idle", "addX", "addY"}
  /\ inbox \in [Peers -> SUBSET Datagram]
  /\ reset \in [Peers -> BOOLEAN]
  /\ fate \in [Peers -> {"fresh", "lost", "overtaken", "swallowed"}]
  /\ sent \in [Peers -> Nat \cup {Nothing}]
  /\ session \in BOOLEAN
  /\ \A p \in Peers : WithinBudget(p)

(* What p may show that was never sent: only the server reckons, and only  *)
(* where the key 'f' is used.                                              *)
Guesses(p) == IF p = Server /\ budget.reckoning THEN {Reckoned} ELSE {}

(* When the last position that was sent to p is also what p took last, and *)
(* its receive thread has stored it, each coordinate p shows is of that    *)
(* position, or was moved by dead reckoning since: never one of a datagram *)
(* from before, of a half-stored position or of a program that has ended.  *)
(* A movement that the server took for the connect message is the          *)
(* exception: until the next datagram the server shows the start.          *)
LastPositionIsShown ==
  \A p \in Peers :
    LET q == Other(p)
        v == IF fate[q] = "swallowed" THEN 0 ELSE sent[q] IN
    (/\ up[p] = "open" /\ thread[p] = "loop" /\ sent[q] # Nothing
     /\ fate[q] \in {"fresh", "swallowed"}
     /\ [at |-> sent[q], from |-> "here"] \notin inbox[p])
    => {shown[p].x, shown[p].y} \subseteq {v} \cup Guesses(p)

(* While the programs of a fresh server and of a client that found it so   *)
(* run, neither socket is closed by an error: nothing that either sends    *)
(* comes back as a reset.  A program ends when its user ends it, and the   *)
(* server also in sendto(), when a key is pressed before it has heard of   *)
(* the client; a client that starts after another has left is no part of   *)
(* such a session.                                                         *)
SessionHolds ==
  session => \A p \in Peers : up[p] = "open" /\ ~reset[p]

(* From some time on nothing goes wrong: both run, p has sent the position *)
(* it is at, and that was not lost, overtaken by another datagram or taken *)
(* for the connect message.                                                *)
Settled(p) ==
  /\ up = AtBoth("open")
  /\ sent[p] = own[p] /\ fate[p] = "fresh"

(* Then the other peer comes to show p where it is and keeps to it, in     *)
(* each coordinate that dead reckoning leaves alone.                       *)
PeersAgree ==
  \A p \in Peers :
    LET q == Other(p) IN
    <>[]Settled(p) => <>[]({shown[q].x, shown[q].y} \subseteq {own[p]} \cup Guesses(q))
===============================================================================
