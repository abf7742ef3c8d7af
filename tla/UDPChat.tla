-------------------------------- MODULE UDPChat --------------------------------
(***************************************************************************)
(* The UDP chat: UDPServer and its clients together.                       *)
(***************************************************************************)
EXTENDS UDPServer, UDPClient, SequencesExt

vars == <<netVars, serverVars, clientVars>>

Init == NetInit /\ ServerInit /\ ClientInit

Next ==
  \/ ReceiveJoin /\ UNCHANGED clientVars
  \/ ReceiveText /\ UNCHANGED clientVars
  \/ ReceiveFails /\ UNCHANGED clientVars
  \/ Announce /\ UNCHANGED clientVars
  \/ AnnounceDone /\ UNCHANGED clientVars
  \/ Relay /\ UNCHANGED clientVars
  \/ RelayDone /\ UNCHANGED clientVars
  \/ SendFails /\ UNCHANGED clientVars
  \/ \E p \in Ports : Join(p) /\ UNCHANGED serverVars
  \/ \E p \in Ports : JoinFails(p) /\ UNCHANGED serverVars
  \/ \E p \in Ports : Say(p) /\ UNCHANGED serverVars
  \/ \E p \in Ports : SayFails(p) /\ UNCHANGED serverVars
  \/ \E p \in Ports : JoinThread(p) /\ UNCHANGED serverVars
  \/ \E p \in Ports : IsKilled(p) /\ UNCHANGED serverVars
  \/ \E p \in Ports : Hears(p) /\ UNCHANGED serverVars
  \/ \E p \in Ports : HearFails(p) /\ UNCHANGED serverVars
  \/ \E p \in Ports : StopsHearing(p) /\ UNCHANGED serverVars

Spec == Init /\ [][Next]_vars

(* The scheduler runs the server and the threads of the clients.  Nobody   *)
(* need type a line, start a client or end one.                            *)
Fairness ==
  /\ WF_vars(ServerLoop /\ UNCHANGED clientVars)
  /\ \A p \in Ports :
       /\ WF_vars(ReceiveThread(p) /\ UNCHANGED serverVars)
       /\ WF_vars(JoinThread(p) /\ UNCHANGED serverVars)

FairSpec == Spec /\ Fairness

-------------------------------------------------------------------------------
(* Every variable holds a value the declarations of the code allow; the    *)
(* server listens until it exits, and a port without a process has no      *)
(* socket and no thread.                                                   *)
TypeOK ==
  /\ NetTypeOK /\ ServerTypeOK /\ ClientTypeOK
  /\ listening <=> spc # "exited"
  /\ \A p \in Ports : cpc[p] = "off" => p \notin open /\ rpc[p] = "none"

(* The chat keeps the promise of ChatRoom: what is printed for a port is,  *)
(* in the order in which the server handled it, what others sent, and what *)
(* is lost on the way or at a full socket is simply missing.               *)
Room == INSTANCE ChatRoom WITH
          heard <- printed, Numbers <- UNION {1 .. MaxDatagrams[p] : p \in Ports}
ImplementsRoom == Room!RoomSpec

(* How often p had joined before the k-th event, unless p is its author.   *)
Copies(p, k) ==
  IF log[k].kind = "say" /\ log[k].who = p
  THEN 0
  ELSE Cardinality({j \in 1 .. k - 1 : log[j].kind = "join" /\ log[j].who = p})

(* Between two datagrams, the server has sent everything it received to    *)
(* every address exactly as often as the address had registered before,    *)
(* except a text to its author.                                            *)
EveryoneIsTold ==
  spc = "recv" =>
    \A p \in Ports :
      sentTo[p] = FlattenSeq([k \in 1 .. Len(log) |-> [x \in 1 .. Copies(p, k) |-> log[k]]])

(* Whatever stands in the queue of the server's socket is handled, in      *)
(* turn, unless an error of recvfrom or sendto ends the server first.      *)
ArrivedIsHandled ==
  \A k \in 1 .. SumFunction(MaxDatagrams) :
    Len(log) + Len(queue) >= k ~> Len(log) >= k \/ spc = "exited"

(* A client that leaves its main loop ends: the receive thread notices the *)
(* closed socket or the flag, and the join returns.                        *)
LeavingClientEnds == \A p \in Ports : cpc[p] = "join" ~> cpc[p] = "off"

(* The server's comment: "broadcast to all other clients that a new one    *)
(* has joined".  The newcomer is not one of the others.                    *)
OnlyOthersAreTold ==
  \A p \in Ports : \A k \in 1 .. Len(sentTo[p]) :
    sentTo[p][k].kind = "join" => sentTo[p][k].who # p
===============================================================================
