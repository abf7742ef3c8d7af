------------------------------- MODULE PairSystem -------------------------------
(***************************************************************************)
(* One of the two servers with clients of either kind.                     *)
(***************************************************************************)
EXTENDS PairServers, PairClients

vars == <<linkVars, serverVars, clientVars>>

Init == LinkInit /\ ServerInit /\ ClientInit

ClientStep(c) ==
  (PrintOnce(c) \/ PrintNothing(c) \/ PollPrints(c) \/ PollFails(c)) /\ UNCHANGED serverVars

Next ==
  \/ Accept /\ UNCHANGED clientVars
  \/ EnterLine /\ UNCHANGED clientVars
  \/ Receive /\ UNCHANGED clientVars
  \/ SendWelcome /\ UNCHANGED clientVars
  \/ SendFails /\ UNCHANGED clientVars
  \/ ServerIsKilled /\ UNCHANGED clientVars
  \/ \E c \in Clients : Connect(c) /\ UNCHANGED serverVars
  \/ \E c \in Clients : ConnectFails(c) /\ UNCHANGED serverVars
  \/ \E c \in Clients : PrintOnce(c) /\ UNCHANGED serverVars
  \/ \E c \in Clients : PrintNothing(c) /\ UNCHANGED serverVars
  \/ \E c \in Clients : PollPrints(c) /\ UNCHANGED serverVars
  \/ \E c \in Clients : PollFails(c) /\ UNCHANGED serverVars
  \/ \E c \in Clients : ClientIsKilled(c) /\ UNCHANGED serverVars

(* accept(), recv() and send() return when they can, and the loops go on.  *)
(* Nobody need enter a line.                                               *)
Fairness ==
  /\ WF_vars(Accept /\ UNCHANGED clientVars)
  /\ WF_vars(Receive /\ UNCHANGED clientVars)
  /\ WF_vars(SendWelcome /\ UNCHANGED clientVars)
  /\ WF_vars(SendFails /\ UNCHANGED clientVars)
  /\ \A c \in Clients : WF_vars(ClientStep(c))

Spec == Init /\ [][Next]_vars /\ Fairness
-------------------------------------------------------------------------------
(* Every variable holds a value the programs give it, and a client waits   *)
(* as long as it has a connection.                                         *)
TypeOK == LinkTypeOK /\ ServerTypeOK /\ ClientTypeOK

(* The blocking server and the blocking client it serves wait for each     *)
(* other, with nothing on its way, only when all lines entered were empty. *)
MutualWaitOnlyOnEmptyLine ==
  (/\ spc = "recv" /\ wire = 0
   /\ served \notin Polling /\ cpc[served] = "waits" /\ conn[served] = "open")
  => ~spoken

(* The server notices that its client has left: the blocking one returns   *)
(* from recv() and asks for another line, the polling one ends.            *)
DepartureIsNoticed ==
  \A c \in Clients :
    (served = c /\ conn[c] = "left") ~> spc \in {"input", "ended", "off"}

(* Once something was sent to the client served, it prints it, unless it   *)
(* or the server goes away.                                                *)
SpokenIsHeard ==
  \A c \in Clients :
    (served = c /\ spoken) ~> (c \in heard \/ cpc[c] # "waits" \/ spc = "off")

(* When the server is gone no blocking client is left waiting, the one     *)
(* that was never accepted included; nor is a polling one whose connection *)
(* was reset.                                                              *)
NobodyIsLeftWaiting ==
  \A c \in Clients :
    (spc \in {"ended", "off"} /\ cpc[c] = "waits")
      ~> (cpc[c] # "waits" \/ (c \in Polling /\ conn[c] = "fin"))
===============================================================================
