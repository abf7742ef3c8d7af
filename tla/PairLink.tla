-------------------------------- MODULE PairLink --------------------------------
(***************************************************************************)
(* The TCP connections of Blocking_Server, Blocking_Client,                *)
(* NonBlockingServer and NonBlockingClient, which all use port 8888.       *)
(* Winsock is not part of the repository: external, modelled from the      *)
(* calls of the four programs.  No client sends anything.                  *)
(***************************************************************************)
EXTENDS Naturals, Sequences

CONSTANTS
  Clients,    \* client processes
  None,       \* no client
  Capacity    \* pieces of text a connection holds

ASSUME PairLinkAssumption == None \notin Clients /\ Capacity \in Nat \ {0}

VARIABLES
  listening,  \* the listening socket exists (its handle is overwritten, not closed)
  backlog,    \* connections nobody has accepted
  served,     \* the client whose connection was accepted
  conn,       \* each connection: none, open, left (by the client), fin, reset
  wire        \* pieces on their way to the served client

linkVars == <<listening, backlog, served, conn, wire>>

LinkTypeOK ==
  /\ listening \in BOOLEAN
  /\ backlog \in Seq(Clients) /\ Len(backlog) <= 1
  /\ served \in Clients \cup {None}
  /\ conn \in [Clients -> {"none", "open", "left", "fin", "reset"}]
  /\ wire \in 0 .. Capacity

LinkInit ==
  /\ listening = TRUE /\ backlog = <<>> /\ served = None
  /\ conn = [c \in Clients |-> "none"] /\ wire = 0

Capped(n) == IF n > Capacity THEN Capacity ELSE n

(* What is sent to a client that has left goes nowhere.                    *)
Put(n) ==
  /\ wire' = IF conn[served] = "open" THEN Capped(wire + n) ELSE wire
  /\ UNCHANGED <<listening, backlog, served, conn>>

(* recv() returns what is there, perhaps not all of it.                    *)
Get(c) ==
  /\ served = c /\ conn[c] \in {"open", "fin"}
  /\ wire' \in 0 .. wire - 1

(* The client's end is closed; what was not read is gone.                  *)
Leave(c) ==
  /\ conn' = [conn EXCEPT ![c] = IF @ = "none" THEN @ ELSE "left"]
  /\ wire' = IF served = c THEN 0 ELSE wire
  /\ UNCHANGED <<listening, backlog, served>>

(* The server's process ends, or cleans Winsock up: its connections end,   *)
(* in order or with a reset that discards what was not read.               *)
ServerSideEnds ==
  /\ listening' = FALSE /\ backlog' = <<>>
  /\ \E how \in {"fin", "reset"} :
       /\ conn' = [c \in Clients |-> IF conn[c] = "open" THEN how ELSE conn[c]]
       /\ wire' = IF how = "reset" THEN 0 ELSE wire
  /\ UNCHANGED served
===============================================================================
