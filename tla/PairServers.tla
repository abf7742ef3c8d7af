------------------------------ MODULE PairServers ------------------------------
(***************************************************************************)
(* Blocking_Server/Blocking_Server/server.cpp and                          *)
(* NonBlockingServer/NonBlockingServer/server.cpp: each accepts one client *)
(* and then speaks to it for ever.                                         *)
(***************************************************************************)
EXTENDS PairLink

CONSTANT MaxLine   \* bound: pieces a line makes

ASSUME MaxLineAssumption == MaxLine \in 1 .. Capacity

VARIABLES
  server,   \* which of the two runs: blocking or polling
  spc,      \* accept; input, recv (blocking); send (polling); ended, off
  spoken    \* history: a line that is not empty was sent to a client that was there

serverVars == <<server, spc, spoken>>

ServerTypeOK ==
  /\ server \in {"blocking", "polling"}
  /\ spc \in {"accept", "ended", "off"}
             \cup (IF server = "blocking" THEN {"input", "recv"} ELSE {"send"})
  /\ spoken \in BOOLEAN

ServerInit == server \in {"blocking", "polling"} /\ spc = "accept" /\ spoken = FALSE

(* Whoever connected first, even if it has left since.                     *)
Accept ==
  /\ spc = "accept" /\ backlog # <<>>
  /\ served' = Head(backlog) /\ backlog' = Tail(backlog)
  /\ spc' = IF server = "blocking" THEN "input" ELSE "send"
  /\ UNCHANGED <<listening, conn, wire, server, spoken>>

(* Blocking server: a line is entered and sent.  An empty line sends       *)
(* nothing.                                                                *)
EnterLine ==
  /\ spc = "input"
  /\ \E n \in 0 .. MaxLine :
       /\ Put(n)
       /\ spoken' = (spoken \/ (n > 0 /\ conn[served] = "open"))
  /\ spc' = "recv"
  /\ UNCHANGED server

(* Faulty: recv() is called again when the client has left.                *)
ReceiveRetries ==
  /\ spc = "recv" /\ conn[served] = "reset"
  /\ spc' = "input"
  /\ UNCHANGED <<linkVars, server, spoken>>

(* recv() returns only when the client has left; no result is looked at.   *)
Receive ==
  /\ spc = "recv" /\ conn[served] # "open"
  /\ spc' = "input"
  /\ UNCHANGED <<linkVars, server, spoken>>

(* Polling server: a welcome a second.  A full connection takes no more    *)
(* (WSAEWOULDBLOCK), and the text is dropped.                              *)
SendWelcome ==
  /\ spc = "send"
  /\ Put(1)
  /\ spoken' = (spoken \/ conn[served] = "open")
  /\ UNCHANGED <<server, spc>>

(* Faulty: the loop is left, Winsock is not cleaned up.                    *)
SendFailsKeepsListening ==
  /\ spc = "send" /\ conn[served] # "open"
  /\ spc' = "ended"
  /\ UNCHANGED <<linkVars, server, spoken>>

(* An error that is not WSAEWOULDBLOCK ends the loop: the client has left. *)
(* WSACleanup() closes the listening socket too.                           *)
SendFails ==
  /\ spc = "send" /\ conn[served] # "open"
  /\ spc' = "ended"
  /\ ServerSideEnds
  /\ UNCHANGED <<server, spoken>>

ServerIsKilled ==
  /\ spc # "off"
  /\ spc' = "off"
  /\ ServerSideEnds
  /\ UNCHANGED <<server, spoken>>
===============================================================================
