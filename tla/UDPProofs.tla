------------------------------- MODULE UDPProofs -------------------------------
(***************************************************************************)
(* Theorems about UDPChat, for every number of ports, of datagrams and     *)
(* every size of a socket's buffer: the types, and that the chat keeps the *)
(* promise of ChatRoom.                                                    *)
(***************************************************************************)
EXTENDS UDPChat, StreamLemmas, FiniteSetTheorems, FiniteSets, SequenceTheorems, TLAPS

USE LoopbackAssumption, ClientAssumption
    DEF vars, netVars, serverVars, clientVars, NoPacket

Waiting == Event \cup {Reset}

-------------------------------------------------------------------------------
(***************************************************************************)
(* Types.                                                                  *)
(*                                                                         *)
(* packet is a datagram while a loop sends it on; and a port is open only  *)
(* while its client is in the loop of main, since main closes the socket   *)
(* when it leaves the loop.                                                *)
(***************************************************************************)
TypeInv ==
  /\ TypeOK
  /\ spc \in {"join", "say"} => packet \in Event
  /\ \A p \in Ports : cpc[p] # "line" => p \notin open

LEMMA ArriveType ==
  ASSUME NEW q \in Seq(Waiting), NEW d \in Waiting
  PROVE  /\ Arrive(q, d) \in Seq(Waiting)
         /\ Arrive(q, d) = q \/ Arrive(q, d) = Append(q, d)
BY DEF Arrive

LEMMA SendToServerType ==
  ASSUME NetTypeOK, NEW p \in Ports, NEW d \in Event, SendToServer(p, d),
         open' \subseteq Ports
  PROVE  NetTypeOK'
<1>1. Arrive(queue, d) \in Seq(Waiting)
  BY ArriveType DEF NetTypeOK, Waiting
<1>2. Append(inbox[p], Reset) \in Seq(Waiting)
  BY DEF NetTypeOK, Waiting
<1>3. QED
  BY <1>1, <1>2 DEF SendToServer, NetTypeOK, Waiting

LEMMA SendToClientType ==
  ASSUME NetTypeOK, NEW p \in Ports, NEW d \in Event, SendToClient(p, d)
  PROVE  NetTypeOK'
<1>1. Arrive(inbox[p], d) \in Seq(Waiting)
  BY ArriveType DEF NetTypeOK, Waiting
<1>2. Append(queue, Reset) \in Seq(Waiting)
  BY DEF NetTypeOK, Waiting
<1>3. QED
  BY <1>1, <1>2 DEF SendToClient, NetTypeOK, Waiting

LEMMA DatagramType ==
  ASSUME ClientTypeOK, NEW p \in Ports, NEW kind \in {"join", "say"}
  PROVE  Datagram(p, kind) \in Event
BY DEF ClientTypeOK, Datagram, Event

(* The steps of the server.                                                *)
LEMMA ServerTypeStep ==
  ASSUME TypeInv, ServerLoop \/ SendFails, UNCHANGED clientVars
  PROVE  TypeInv'
<1> USE DEF TypeInv, TypeOK
<1>1. ClientTypeOK' /\ \A p \in Ports : cpc'[p] = cpc[p] /\ rpc'[p] = rpc[p]
  BY DEF ClientTypeOK
<1>2. CASE ReceiveJoin \/ ReceiveText
  <2> DEFINE e == Head(queue)
  <2>1. e \in Event /\ Tail(queue) \in Seq(Waiting)
    BY <1>2, HeadTailProperties DEF ReceiveJoin, ReceiveText, NetTypeOK, Waiting
  <2>2. e.who \in Ports
    BY <2>1 DEF Event
  <2>3. clients \in Seq(Ports) /\ log \in Seq(Event) /\ i \in 0 .. Len(clients)
    BY DEF ServerTypeOK
  <2>4. Len(clients) \in Nat
    BY <2>3
  <2>5. /\ Append(clients, e.who) \in Seq(Ports) /\ Append(log, e) \in Seq(Event)
        /\ Len(Append(clients, e.who)) = Len(clients) + 1
    BY <2>1, <2>2, <2>3, AppendProperties
  <2>6. NetTypeOK'
    BY <1>2, <2>1 DEF ReceiveJoin, ReceiveText, NetTypeOK, Waiting
  <2>7. /\ spc' \in {"join", "say"} /\ packet' \in Event /\ log' \in Seq(Event)
        /\ i' = i /\ UNCHANGED <<sentTo, listening, open>> /\ spc # "exited"
        /\ clients' \in {clients, Append(clients, e.who)}
    BY <1>2, <2>1, <2>5 DEF ReceiveJoin, ReceiveText
  <2> HIDE DEF e
  <2>8. clients' \in Seq(Ports) /\ i' \in 0 .. Len(clients')
    <3>1. Len(clients') \in {Len(clients), Len(clients) + 1} /\ clients' \in Seq(Ports)
      BY <2>3, <2>5, <2>7
    <3>2. QED BY <2>3, <2>4, <2>7, <3>1
  <2>9. ServerTypeOK'
    BY <2>7, <2>8 DEF ServerTypeOK
  <2>10. QED BY <1>1, <2>6, <2>7, <2>9
<1>3. CASE ServerExits
  <2>1. NetTypeOK'
    BY <1>3, EmptySeq DEF ServerExits, NetTypeOK
  <2>2. ServerTypeOK'
    BY <1>3 DEF ServerExits, ServerTypeOK
  <2>3. QED BY <1>1, <1>3, <2>1, <2>2 DEF ServerExits
<1>4. CASE Announce \/ Relay
  <2>1. i + 1 \in 1 .. Len(clients) /\ clients[i + 1] \in Ports /\ packet \in Event
    BY <1>4 DEF Announce, Relay, ServerTypeOK
  <2>2. CASE Send(clients[i + 1])
    <3>1. NetTypeOK'
      BY <2>1, <2>2, SendToClientType DEF Send
    <3>2. sentTo' \in [Ports -> Seq(Event)]
      BY <2>1, <2>2 DEF Send, ServerTypeOK
    <3>3. /\ spc \in {"join", "say"} /\ UNCHANGED <<spc, clients, packet, log, listening, open>>
          /\ i' = i + 1
      BY <1>4, <2>2 DEF Announce, Relay, Send, SendToClient
    <3>4. ServerTypeOK'
      BY <2>1, <3>2, <3>3 DEF ServerTypeOK
    <3>5. QED BY <1>1, <3>1, <3>3, <3>4
  <2>3. CASE UNCHANGED <<sentTo, netVars>>
    BY SMTT(30), <1>1, <1>4, <2>1, <2>3 DEF Announce, Relay, ServerTypeOK, NetTypeOK
  <2>4. QED BY <1>4, <2>2, <2>3 DEF Announce, Relay
<1>5. CASE AnnounceDone \/ RelayDone
  BY SMTT(30), <1>1, <1>5 DEF AnnounceDone, RelayDone, ServerTypeOK, NetTypeOK
<1>6. QED
  BY <1>2, <1>3, <1>4, <1>5 DEF ServerLoop, ReceiveFails, SendFails

(* The steps of a client.                                                  *)
ClientStep(p) ==
  \/ Join(p) \/ JoinFails(p) \/ Say(p) \/ SayFails(p) \/ JoinThread(p) \/ IsKilled(p)
  \/ Hears(p) \/ HearFails(p) \/ StopsHearing(p)

LEMMA ClientTypeStep ==
  ASSUME TypeInv, NEW p \in Ports, ClientStep(p), UNCHANGED serverVars
  PROVE  TypeInv'
<1> USE DEF TypeInv, TypeOK
<1>1. ServerTypeOK'
  BY DEF ServerTypeOK
<1>2. CASE Join(p) \/ Say(p)
  <2>1. PICK kind \in {"join", "say"} : SendToServer(p, Datagram(p, kind))
    BY <1>2 DEF Join, Say
  <2>2. NetTypeOK'
    BY <1>2, <2>1, DatagramType, SendToServerType DEF Join, Say, NetTypeOK
  <2>3. ClientTypeOK'
    <3>1. CASE Join(p)
      BY <3>1 DEF Join, BeginLoops, ClientTypeOK
    <3>2. CASE Say(p)
      BY <3>2 DEF Say, ClientTypeOK
    <3>3. QED BY <1>2, <3>1, <3>2
  <2>4. /\ listening' = listening
        /\ \/ open' = open /\ UNCHANGED <<cpc, rpc>>
           \/ /\ open' = open \cup {p} /\ cpc' = [cpc EXCEPT ![p] = "line"]
              /\ rpc' = [rpc EXCEPT ![p] = "loop"]
    BY <1>2, <2>1 DEF Join, Say, BeginLoops, SendToServer
  <2>5. ASSUME NEW r \in Ports
        PROVE  /\ cpc'[r] = "off" => r \notin open' /\ rpc'[r] = "none"
               /\ cpc'[r] # "line" => r \notin open'
    BY <2>4 DEF ClientTypeOK
  <2>6. QED BY <1>1, <2>2, <2>3, <2>4, <2>5
<1>3. CASE JoinFails(p)
  BY <1>1, <1>3 DEF JoinFails, BeginLoops, ClientTypeOK, NetTypeOK
<1>4. CASE SayFails(p) \/ IsKilled(p)
  <2>1. NetTypeOK'
    <3>1. CloseSocket(p)
      BY <1>4 DEF SayFails, IsKilled
    <3>2. QED BY <3>1 DEF CloseSocket, NetTypeOK
  <2>2. ClientTypeOK'
    BY <1>4 DEF SayFails, IsKilled, ClientTypeOK
  <2>3. /\ open' = open \ {p} /\ listening' = listening
        /\ \/ cpc' = [cpc EXCEPT ![p] = "join"] /\ rpc' = rpc
           \/ cpc' = [cpc EXCEPT ![p] = "off"] /\ rpc' = [rpc EXCEPT ![p] = "none"]
    BY <1>4 DEF SayFails, IsKilled, CloseSocket
  <2>4. QED BY <1>1, <2>1, <2>2, <2>3 DEF ClientTypeOK
<1>5. CASE JoinThread(p) \/ StopsHearing(p)
  <2>1. NetTypeOK' /\ UNCHANGED <<open, listening>>
    BY <1>5 DEF JoinThread, StopsHearing, NetTypeOK
  <2>2. ClientTypeOK'
    BY <1>5 DEF JoinThread, StopsHearing, ClientTypeOK
  <2>3. \/ cpc[p] = "join" /\ cpc' = [cpc EXCEPT ![p] = "off"] /\ rpc' = [rpc EXCEPT ![p] = "none"]
        \/ cpc' = cpc /\ rpc' = [rpc EXCEPT ![p] = "exited"] /\ rpc[p] = "loop"
    BY <1>5 DEF JoinThread, StopsHearing
  <2>4. QED BY <1>1, <2>1, <2>2, <2>3 DEF ClientTypeOK
<1>6. CASE HearFails(p)
  <2>1. NetTypeOK'
    BY <1>6 DEF HearFails, CloseSocket, NetTypeOK
  <2>2. ClientTypeOK'
    BY <1>6 DEF HearFails, ClientTypeOK
  <2>3. /\ open' = open \ {p} /\ UNCHANGED <<listening, cpc>>
        /\ rpc' = [rpc EXCEPT ![p] = "exited"] /\ rpc[p] = "loop"
    BY <1>6 DEF HearFails, CloseSocket
  <2>4. QED BY <1>1, <2>1, <2>2, <2>3 DEF ClientTypeOK
<1>7. CASE Hears(p)
  <2>1. Head(inbox[p]) \in Event /\ Tail(inbox[p]) \in Seq(Waiting)
    BY <1>7, HeadTailProperties DEF Hears, NetTypeOK, Waiting
  <2>2. NetTypeOK'
    BY <1>7, <2>1 DEF Hears, NetTypeOK, Waiting
  <2>3. ClientTypeOK'
    BY <1>7, <2>1 DEF Hears, ClientTypeOK
  <2>4. QED BY <1>1, <1>7, <2>2, <2>3 DEF Hears
<1>8. QED
  BY <1>2, <1>3, <1>4, <1>5, <1>6, <1>7 DEF ClientStep

(* The two kinds of steps.                                                 *)
LEMMA Steps ==
  ASSUME [Next]_vars
  PROVE  \/ (ServerLoop \/ SendFails) /\ UNCHANGED clientVars
         \/ \E p \in Ports : ClientStep(p) /\ UNCHANGED serverVars
         \/ UNCHANGED vars
BY DEF Next, ServerLoop, ClientStep

LEMMA TypeStep == TypeInv /\ [Next]_vars => TypeInv'
<1> SUFFICES ASSUME TypeInv, [Next]_vars PROVE TypeInv'
  OBVIOUS
<1>1. CASE UNCHANGED vars
  BY <1>1 DEF TypeInv, TypeOK, NetTypeOK, ServerTypeOK, ClientTypeOK
<1>2. QED BY <1>1, Steps, ServerTypeStep, ClientTypeStep

LEMMA TypeInvariant == Spec => []TypeInv
<1>1. Init => TypeInv
  BY DEF Init, NetInit, ServerInit, ClientInit, TypeInv, TypeOK, NetTypeOK, ServerTypeOK,
         ClientTypeOK
<1>2. QED BY <1>1, TypeStep, PTL DEF Spec

(* No variable leaves its type; the server listens until it exits, and a   *)
(* process that has ended, however it did, leaves neither an open socket   *)
(* nor a receive thread behind.                                            *)
THEOREM TypeCorrect == Spec => []TypeOK
BY TypeInvariant, PTL DEF TypeInv

-------------------------------------------------------------------------------
(***************************************************************************)
(* The numbers of the datagrams: a port numbers what it sends, and neither *)
(* the queue of the server nor its log brings two of a port out of order.  *)
(***************************************************************************)
Earlier(e, f) == e.who = f.who => e.n < f.n

Numbered ==
  /\ \A k \in 1 .. Len(log) : log[k].n <= sent[log[k].who]
  /\ \A k \in 1 .. Len(queue) : queue[k] # Reset =>
       /\ queue[k].n \in 1 .. sent[queue[k].who]
       /\ \A l \in 1 .. Len(log) : Earlier(log[l], queue[k])
       /\ \A l \in 1 .. k - 1 : queue[l] # Reset => Earlier(queue[l], queue[k])

LEMMA HeadIsFirst ==
  ASSUME NEW S, NEW s \in Seq(S), s # <<>>
  PROVE  /\ Len(s) \in Nat /\ Len(s) >= 1 /\ Head(s) = s[1] /\ Head(s) \in S
         /\ Tail(s) \in Seq(S) /\ Len(Tail(s)) = Len(s) - 1
         /\ \A k \in 1 .. Len(s) - 1 : Tail(s)[k] = s[k + 1]
<1>1. Len(s) \in Nat /\ Len(s) >= 1
  BY EmptySeq, LenProperties
<1>2. QED BY <1>1, HeadTailProperties

LEMMA EventFields ==
  ASSUME NEW e \in Event
  PROVE  e.who \in Ports /\ e.n \in Nat /\ e.kind \in {"join", "say"} /\ e # Reset
BY DEF Event

(* Where a new datagram goes.                                              *)
LEMMA AppendIs ==
  ASSUME NEW S, NEW s \in Seq(S), NEW e \in S
  PROVE  /\ Append(s, e) \in Seq(S) /\ Len(s) \in Nat /\ Len(Append(s, e)) = Len(s) + 1
         /\ \A k \in 1 .. Len(s) + 1 : Append(s, e)[k] = IF k = Len(s) + 1 THEN e ELSE s[k]
BY AppendProperties, LenProperties

(* How a step of the server changes the socket's queue and the log.        *)
LEMMA QueueSteps ==
  ASSUME ServerLoop \/ SendFails
  PROVE  \/ /\ queue # <<>> /\ Head(queue) # Reset
            /\ queue' = Tail(queue) /\ log' = Append(log, Head(queue))
         \/ queue' \in {queue, <<>>, Append(queue, Reset)} /\ log' = log
<1>1. CASE ReceiveJoin \/ ReceiveText
  BY <1>1 DEF ReceiveJoin, ReceiveText
<1>2. CASE ServerExits
  BY <1>2 DEF ServerExits
<1>3. CASE Announce \/ Relay
  BY <1>3 DEF Announce, Relay, Send, SendToClient
<1>4. CASE AnnounceDone \/ RelayDone
  BY <1>4 DEF AnnounceDone, RelayDone
<1>5. QED BY <1>1, <1>2, <1>3, <1>4 DEF ServerLoop, ReceiveFails, SendFails

LEMMA ClientSteps ==
  ASSUME NEW p \in Ports, ClientStep(p)
  PROVE  \/ /\ sent' = [sent EXCEPT ![p] = @ + 1]
            /\ \E kind \in {"join", "say"} :
                 queue' \in {queue, Append(queue, Datagram(p, kind))}
         \/ queue' = queue /\ sent' = sent
<1>1. CASE Join(p) \/ Say(p)
  BY <1>1 DEF Join, Say, SendToServer, Arrive
<1>2. CASE JoinFails(p) \/ SayFails(p) \/ JoinThread(p) \/ IsKilled(p)
  BY <1>2 DEF JoinFails, SayFails, JoinThread, IsKilled, BeginLoops, CloseSocket
<1>3. CASE Hears(p) \/ HearFails(p) \/ StopsHearing(p)
  BY <1>3 DEF Hears, HearFails, StopsHearing, CloseSocket
<1>4. QED BY <1>1, <1>2, <1>3 DEF ClientStep

LEMMA NumberedStep == TypeInv /\ Numbered /\ [Next]_vars => Numbered'
<1> SUFFICES ASSUME TypeInv, Numbered, [Next]_vars PROVE Numbered'
  OBVIOUS
<1>1. /\ queue \in Seq(Waiting) /\ Len(queue) \in Nat
      /\ log \in Seq(Event) /\ Len(log) \in Nat /\ sent \in [Ports -> Nat]
  BY DEF TypeInv, TypeOK, NetTypeOK, ServerTypeOK, ClientTypeOK, Waiting
<1>2. CASE queue # <<>> /\ Head(queue) # Reset
           /\ queue' = Tail(queue) /\ log' = Append(log, Head(queue)) /\ sent' = sent
  <2> DEFINE e == Head(queue)
  <2>1. /\ e = queue[1] /\ e \in Event /\ Len(queue) >= 1
        /\ Len(queue') = Len(queue) - 1 /\ \A k \in 1 .. Len(queue) - 1 : queue'[k] = queue[k + 1]
    BY <1>1, <1>2, HeadIsFirst DEF Waiting
  <2>2. log' = Append(log, e) /\ e.n \in 1 .. sent[e.who] /\ e.who \in Ports /\ e # Reset
    <3>1. log' = Append(log, e) /\ e # Reset
      BY <1>2
    <3> HIDE DEF e
    <3>2. 1 \in 1 .. Len(queue) /\ queue[1] = e
      BY <1>1, <2>1
    <3>3. e.n \in 1 .. sent[e.who]
      BY <3>1, <3>2 DEF Numbered
    <3>4. e.who \in Ports
      BY <2>1, EventFields
    <3>5. QED BY <3>1, <3>2, <3>3, <3>4
  <2> HIDE DEF e
  <2>3. /\ Len(log') = Len(log) + 1
        /\ \A k \in 1 .. Len(log) + 1 : log'[k] = IF k = Len(log) + 1 THEN e ELSE log[k]
    BY <1>1, <2>1, <2>2, AppendIs
  <2>4. \A k \in 1 .. Len(log') : log'[k].n <= sent'[log'[k].who]
    BY <1>1, <1>2, <2>2, <2>3 DEF Numbered
  <2>5. ASSUME NEW k \in 1 .. Len(queue'), queue'[k] # Reset
        PROVE  /\ queue'[k].n \in 1 .. sent'[queue'[k].who]
               /\ \A l \in 1 .. Len(log') : Earlier(log'[l], queue'[k])
               /\ \A l \in 1 .. k - 1 : queue'[l] # Reset => Earlier(queue'[l], queue'[k])
    <3>1. k + 1 \in 1 .. Len(queue) /\ queue'[k] = queue[k + 1] /\ 1 \in 1 .. k
      BY <1>1, <2>1
    <3>2. /\ queue[k + 1].n \in 1 .. sent[queue[k + 1].who]
          /\ \A l \in 1 .. Len(log) : Earlier(log[l], queue[k + 1])
          /\ \A l \in 1 .. k : queue[l] # Reset => Earlier(queue[l], queue[k + 1])
      BY <2>5, <3>1 DEF Numbered
    <3>3. Earlier(e, queue[k + 1])
      BY <2>1, <2>2, <3>1, <3>2
    <3>4. \A l \in 1 .. k - 1 : l + 1 \in 1 .. k /\ queue'[l] = queue[l + 1]
      BY SMTT(30), <1>1, <2>1
    <3>5. QED BY <1>1, <1>2, <2>3, <3>1, <3>2, <3>3, <3>4
  <2>6. QED BY <2>4, <2>5 DEF Numbered
<1>3. CASE queue' \in {queue, <<>>} /\ log' = log /\ sent' = sent
  BY <1>3 DEF Numbered
<1>4. ASSUME NEW d \in Waiting, queue' = Append(queue, d), log' = log,
             \A p \in Ports : sent'[p] \in Nat /\ sent[p] <= sent'[p],
             d # Reset => d \in Event /\ d.n = sent[d.who] + 1 /\ d.n = sent'[d.who]
      PROVE  Numbered'
  <2>1. /\ Len(queue') = Len(queue) + 1
        /\ \A k \in 1 .. Len(queue) + 1 : queue'[k] = IF k = Len(queue) + 1 THEN d ELSE queue[k]
    BY <1>1, <1>4, AppendIs
  <2>2. \A k \in 1 .. Len(log) : log[k].who \in Ports /\ log[k].n \in Nat
    BY <1>1, EventFields
  <2>3. \A k \in 1 .. Len(queue) : queue[k] # Reset => queue[k].who \in Ports /\ queue[k].n \in Nat
    BY <1>1, EventFields DEF Waiting
  <2>4. \A k \in 1 .. Len(log') : log'[k].n <= sent'[log'[k].who]
    BY <1>1, <1>4, <2>2 DEF Numbered
  <2>5. ASSUME NEW k \in 1 .. Len(queue'), queue'[k] # Reset
        PROVE  /\ queue'[k].n \in 1 .. sent'[queue'[k].who]
               /\ \A l \in 1 .. Len(log') : Earlier(log'[l], queue'[k])
               /\ \A l \in 1 .. k - 1 : queue'[l] # Reset => Earlier(queue'[l], queue'[k])
    <3>1. CASE k <= Len(queue)
      BY <1>1, <1>4, <2>1, <2>3, <2>5, <3>1 DEF Numbered
    <3>2. CASE k = Len(queue) + 1
      <4>1. queue'[k] = d /\ d \in Event /\ d.n = sent[d.who] + 1 /\ d.n = sent'[d.who]
            /\ d.who \in Ports
        BY <1>1, <1>4, <2>1, <2>5, <3>2 DEF Event
      <4>2. \A l \in 1 .. Len(log) : Earlier(log[l], d)
        BY <1>1, <2>2, <4>1 DEF Numbered, Earlier
      <4>3. \A l \in 1 .. Len(queue) : queue[l] # Reset => Earlier(queue[l], d)
        BY <1>1, <2>3, <4>1 DEF Numbered, Earlier
      <4>4. QED BY <1>1, <1>4, <2>1, <3>2, <4>1, <4>2, <4>3
    <3>3. QED BY <1>1, <2>1, <3>1, <3>2
  <2>6. QED BY <2>4, <2>5 DEF Numbered
<1>5. CASE (ServerLoop \/ SendFails) /\ UNCHANGED clientVars
  <2>1. sent' = sent
    BY <1>5
  <2>2. CASE queue' = Append(queue, Reset) /\ log' = log
    BY <1>1, <1>4, <2>1, <2>2 DEF Waiting
  <2>3. QED BY <1>2, <1>3, <1>5, <2>1, <2>2, QueueSteps
<1>6. ASSUME NEW p \in Ports, ClientStep(p), UNCHANGED serverVars PROVE Numbered'
  <2>1. log' = log
    BY <1>6
  <2>2. CASE queue' = queue /\ sent' = sent
    BY <1>3, <2>1, <2>2
  <2>3. CASE sent' = [sent EXCEPT ![p] = @ + 1]
    <3>1. \A q \in Ports : sent'[q] \in Nat /\ sent[q] <= sent'[q]
      BY <1>1, <2>3
    <3>2. CASE queue' = queue
      <4>1. ASSUME NEW k \in 1 .. Len(log) PROVE log[k].n <= sent'[log[k].who]
        <5>1. log[k].who \in Ports /\ log[k].n \in Nat /\ log[k].n <= sent[log[k].who]
          BY <1>1, EventFields DEF Numbered
        <5>2. QED BY <1>1, <3>1, <5>1
      <4>2. ASSUME NEW k \in 1 .. Len(queue), queue[k] # Reset
            PROVE  queue[k].n \in 1 .. sent'[queue[k].who]
        <5>1. queue[k].who \in Ports /\ queue[k].n \in Nat /\ queue[k].n \in 1 .. sent[queue[k].who]
          BY <1>1, <4>2, EventFields DEF Numbered, Waiting
        <5>2. QED BY <1>1, <3>1, <5>1
      <4>3. QED BY <2>1, <3>2, <4>1, <4>2 DEF Numbered
    <3>3. ASSUME NEW kind \in {"join", "say"}, queue' = Append(queue, Datagram(p, kind))
          PROVE  Numbered'
      <4>1. /\ Datagram(p, kind) \in Event
            /\ Datagram(p, kind).who = p /\ Datagram(p, kind).n = sent[p] + 1
        BY DatagramType DEF TypeInv, TypeOK, Datagram
      <4>2. QED BY <1>1, <1>4, <2>1, <2>3, <3>1, <3>3, <4>1 DEF Waiting
    <3>4. QED BY <1>6, <2>3, <3>2, <3>3, ClientSteps
  <2>4. QED BY <1>6, <2>2, <2>3, ClientSteps
<1>7. CASE UNCHANGED vars
  BY <1>7 DEF Numbered
<1>8. QED BY <1>5, <1>6, <1>7, Steps

-------------------------------------------------------------------------------
(***************************************************************************)
(* The chat implements ChatRoom.                                           *)
(*                                                                         *)
(* Every entry of the vector has joined, all but the last one before the   *)
(* joining that is being announced; and whatever waits in a socket of a    *)
(* port is an event of the log that the port may still hear after what it  *)
(* has printed and what waits before it.                                   *)
(***************************************************************************)
EntriesJoined ==
  /\ \A c \in 1 .. Len(clients) : Room!JoinedBefore(clients[c], Len(log) + 1)
  /\ spc = "join" => \A c \in 1 .. Len(clients) - 1 : Room!JoinedBefore(clients[c], Len(log))
  /\ spc \in {"join", "say"} => Len(log) >= 1 /\ packet = log[Len(log)] /\ packet.kind = spc

DueAt(p, m, k) ==
  /\ log[k] = inbox[p][m]
  /\ Room!JoinedBefore(p, k) /\ Room!InOrder(p, k)
  /\ log[k].kind = "say" => log[k].who # p
  /\ \A l \in 1 .. m - 1 : inbox[p][l] # Reset => \E j \in 1 .. k : log[j] = inbox[p][l]

Delivery ==
  \A p \in Ports :
    /\ Room!InOrder(p, Len(log))
    /\ \A m \in 1 .. Len(inbox[p]) : inbox[p][m] # Reset => \E k \in 1 .. Len(log) : DueAt(p, m, k)

LEMMA Shapes ==
  ASSUME TypeInv
  PROVE  /\ queue \in Seq(Waiting) /\ log \in Seq(Event) /\ clients \in Seq(Ports)
         /\ Len(queue) \in Nat /\ Len(log) \in Nat /\ Len(clients) \in Nat
         /\ inbox \in [Ports -> Seq(Waiting)] /\ printed \in [Ports -> Seq(Event)]
         /\ \A p \in Ports : Len(inbox[p]) \in Nat /\ Len(printed[p]) \in Nat
BY DEF TypeInv, TypeOK, NetTypeOK, ServerTypeOK, ClientTypeOK, Waiting

(* What was said stays said when the log grows.                            *)
LEMMA LogGrows ==
  ASSUME TypeInv, NEW e \in Event, log' = Append(log, e)
  PROVE  /\ Len(log') = Len(log) + 1 /\ log'[Len(log) + 1] = e
         /\ \A k \in 1 .. Len(log) : log'[k] = log[k]
         /\ \A p \in Ports, k \in 1 .. Len(log) + 1 :
              Room!JoinedBefore(p, k) => Room!JoinedBefore(p, k)'
         /\ \A p \in Ports, k \in 0 .. Len(log) :
              printed' = printed /\ Room!InOrder(p, k) => Room!InOrder(p, k)'
<1>1. Len(log) \in Nat /\ log \in Seq(Event)
  BY Shapes
<1>2. /\ Len(log') = Len(log) + 1
      /\ \A k \in 1 .. Len(log) + 1 : log'[k] = IF k = Len(log) + 1 THEN e ELSE log[k]
  BY <1>1, AppendIs
<1>3. \A k \in 1 .. Len(log) : log'[k] = log[k]
  BY <1>1, <1>2
<1>4. ASSUME NEW p \in Ports, NEW k \in 1 .. Len(log) + 1, Room!JoinedBefore(p, k)
      PROVE  Room!JoinedBefore(p, k)'
  BY <1>1, <1>3, <1>4 DEF Room!JoinedBefore
<1>5. ASSUME NEW p \in Ports, NEW k \in 0 .. Len(log), printed' = printed, Room!InOrder(p, k)
      PROVE  Room!InOrder(p, k)'
  BY <1>1, <1>3, <1>5 DEF Room!InOrder
<1>6. QED BY <1>1, <1>2, <1>3, <1>4, <1>5

LEMMA EntriesStep == TypeInv /\ EntriesJoined /\ [Next]_vars => EntriesJoined'
<1> SUFFICES ASSUME TypeInv, EntriesJoined, [Next]_vars PROVE EntriesJoined'
  OBVIOUS
<1>0. clients \in Seq(Ports) /\ Len(clients) \in Nat /\ Len(log) \in Nat /\ queue \in Seq(Waiting)
  BY Shapes
<1>1. CASE ReceiveJoin \/ ReceiveText
  <2> DEFINE e == Head(queue)
  <2>1. e \in Event /\ e # Reset
    BY <1>0, <1>1, HeadIsFirst, EventFields DEF ReceiveJoin, ReceiveText, Waiting
  <2>2. log' = Append(log, e) /\ packet' = e
        /\ \/ spc' = "join" /\ e.kind = "join" /\ clients' = Append(clients, e.who)
           \/ spc' = "say" /\ e.kind = "say" /\ clients' = clients
    BY <1>1 DEF ReceiveJoin, ReceiveText
  <2> HIDE DEF e
  <2>3. /\ Len(log') = Len(log) + 1 /\ log'[Len(log) + 1] = e
        /\ \A k \in 1 .. Len(log) : log'[k] = log[k]
        /\ \A p \in Ports, k \in 1 .. Len(log) + 1 :
              Room!JoinedBefore(p, k) => Room!JoinedBefore(p, k)'
    BY <2>1, <2>2, LogGrows
  <2>4. \A c \in 1 .. Len(clients) : /\ clients[c] \in Ports
                                    /\ Room!JoinedBefore(clients[c], Len(log) + 1)
    BY <1>0 DEF EntriesJoined
  <2>5. \A c \in 1 .. Len(clients) : (\E j \in 1 .. Len(log) : log'[j].kind = "join" /\ log'[j].who = clients[c])
    BY <1>0, <2>3, <2>4 DEF Room!JoinedBefore
  <2>6. CASE clients' = clients /\ spc' = "say" /\ e.kind = "say"
    BY <1>0, <2>2, <2>3, <2>5, <2>6 DEF EntriesJoined, Room!JoinedBefore
  <2>7. CASE spc' = "join" /\ e.kind = "join" /\ clients' = Append(clients, e.who)
    <3>1. /\ Len(clients') = Len(clients) + 1
          /\ \A c \in 1 .. Len(clients) + 1 :
               clients'[c] = IF c = Len(clients) + 1 THEN e.who ELSE clients[c]
      BY <1>0, <2>1, <2>7, EventFields, AppendIs
    <3>2. ASSUME NEW c \in 1 .. Len(clients)
          PROVE  \E j \in 1 .. Len(log) : log'[j].kind = "join" /\ log'[j].who = clients'[c]
      <4>1. clients'[c] = clients[c]
        BY <1>0, <3>1
      <4>2. QED BY <2>5, <4>1
    <3>3. QED BY <1>0, <2>2, <2>3, <2>7, <3>1, <3>2 DEF EntriesJoined, Room!JoinedBefore
  <2>8. QED BY <2>2, <2>6, <2>7
<1>2. CASE UNCHANGED <<clients, log>> /\ (spc' \in {"recv", "exited"} \/ UNCHANGED <<spc, packet>>)
  BY <1>2 DEF EntriesJoined, Room!JoinedBefore
<1>3. CASE ServerLoop \/ SendFails
  BY <1>1, <1>2, <1>3 DEF ServerLoop, SendFails, ReceiveFails, ServerExits, Announce, Relay, Send,
     AnnounceDone, RelayDone
<1>4. CASE UNCHANGED serverVars
  BY <1>2, <1>4
<1>5. QED BY <1>3, <1>4, Steps

(* A socket of p gets a reset, or an event that p may hear.                *)
LEMMA InboxGrows ==
  ASSUME TypeInv, Delivery, NEW p \in Ports, NEW d \in Waiting,
         inbox' = [inbox EXCEPT ![p] = Append(@, d)], UNCHANGED <<log, printed>>,
         d # Reset => /\ Len(log) >= 1 /\ log[Len(log)] = d /\ Room!JoinedBefore(p, Len(log))
                      /\ d.kind = "say" => d.who # p
  PROVE  Delivery'
<1>0. inbox \in [Ports -> Seq(Waiting)] /\ (\A q \in Ports : Len(inbox[q]) \in Nat) /\ Len(log) \in Nat
  BY Shapes
<1>1. /\ Len(inbox'[p]) = Len(inbox[p]) + 1
      /\ \A m \in 1 .. Len(inbox[p]) + 1 :
           inbox'[p][m] = IF m = Len(inbox[p]) + 1 THEN d ELSE inbox[p][m]
  <2>1. inbox'[p] = Append(inbox[p], d) /\ inbox[p] \in Seq(Waiting)
    BY <1>0
  <2>2. QED BY <2>1, AppendIs
<1>2. \A q \in Ports : q # p => inbox'[q] = inbox[q]
  BY <1>0
<1>3. \A q \in Ports, k \in 0 .. Len(log) :
        /\ Room!InOrder(q, k) => Room!InOrder(q, k)'
        /\ Room!JoinedBefore(q, k) => Room!JoinedBefore(q, k)'
  BY DEF Room!InOrder, Room!JoinedBefore
<1>4. ASSUME NEW q \in Ports, NEW m \in 1 .. Len(inbox[q]), inbox[q][m] # Reset
      PROVE  \E k \in 1 .. Len(log) : DueAt(q, m, k)'
  <2>1. PICK k \in 1 .. Len(log) : DueAt(q, m, k)
    BY <1>4 DEF Delivery
  <2>2. \A l \in 1 .. m : inbox'[q][l] = inbox[q][l]
    BY <1>0, <1>1, <1>2
  <2>3. Room!JoinedBefore(q, k)' /\ Room!InOrder(q, k)'
    BY <1>0, <1>3, <2>1 DEF DueAt
  <2>4. ASSUME NEW l \in 1 .. m - 1, inbox'[q][l] # Reset
        PROVE  \E j \in 1 .. k : log'[j] = inbox'[q][l]
    <3>1. inbox'[q][l] = inbox[q][l]
      BY <2>2
    <3>2. \E j \in 1 .. k : log[j] = inbox[q][l]
      BY <2>1, <2>4, <3>1 DEF DueAt
    <3>3. QED BY <3>1, <3>2
  <2>5. log'[k] = inbox'[q][m] /\ (log'[k].kind = "say" => log'[k].who # q)
    BY <2>1, <2>2 DEF DueAt
  <2>6. DueAt(q, m, k)'
    BY <2>3, <2>4, <2>5 DEF DueAt
  <2>7. QED BY <2>6
<1>5. ASSUME d # Reset, NEW m \in Nat, m = Len(inbox[p]) + 1, NEW k \in Nat, k = Len(log)
      PROVE  k \in 1 .. Len(log) /\ DueAt(p, m, k)'
  <2>1. ASSUME NEW l \in 1 .. Len(inbox[p]), inbox[p][l] # Reset
        PROVE  \E j \in 1 .. Len(log) : log[j] = inbox[p][l]
    BY <2>1 DEF Delivery, DueAt
  <2>2. Room!InOrder(p, k)' /\ Room!JoinedBefore(p, k)'
    BY <1>0, <1>3, <1>5 DEF Delivery
  <2>3. ASSUME NEW l \in 1 .. m - 1, inbox'[p][l] # Reset
        PROVE  \E j \in 1 .. k : log'[j] = inbox'[p][l]
    <3>1. l \in 1 .. Len(inbox[p]) /\ inbox'[p][l] = inbox[p][l]
      BY <1>0, <1>1, <1>5
    <3>2. QED BY <1>5, <2>1, <2>3, <3>1
  <2>4. log'[k] = inbox'[p][m] /\ (log'[k].kind = "say" => log'[k].who # p)
    BY <1>0, <1>1, <1>5
  <2>5. QED BY <1>0, <1>5, <2>2, <2>3, <2>4 DEF DueAt
<1>6. ASSUME NEW q \in Ports, NEW m \in 1 .. Len(inbox'[q]), inbox'[q][m] # Reset
      PROVE  \E k \in 1 .. Len(log) : DueAt(q, m, k)'
  <2>1. CASE m \in 1 .. Len(inbox[q])
    BY <1>0, <1>1, <1>2, <1>4, <1>6, <2>1
  <2>2. CASE m \notin 1 .. Len(inbox[q])
    <3>1. q = p /\ m = Len(inbox[p]) + 1 /\ d # Reset
      BY <1>0, <1>1, <1>2, <1>6, <2>2
    <3>2. QED BY <1>5, <3>1
  <2>3. QED BY <2>1, <2>2
<1>7. QED BY <1>0, <1>3, <1>6 DEF Delivery

(* Sockets are left alone, or closed and emptied.                          *)
LEMMA DeliveryKept ==
  ASSUME Delivery, UNCHANGED <<log, printed>>,
         \A q \in Ports : inbox'[q] \in {inbox[q], <<>>}
  PROVE  Delivery'
<1>1. \A q \in Ports : Room!InOrder(q, Len(log))'
  BY DEF Delivery, Room!InOrder
<1>2. ASSUME NEW q \in Ports, NEW m \in 1 .. Len(inbox'[q]), inbox'[q][m] # Reset
      PROVE  \E k \in 1 .. Len(log) : DueAt(q, m, k)'
  <2>1. inbox'[q] = inbox[q]
    <3>1. inbox'[q] # <<>>
      BY <1>2
    <3>2. QED BY <3>1
  <2>2. PICK k \in 1 .. Len(log) : DueAt(q, m, k)
    BY <1>2, <2>1 DEF Delivery
  <2>3. DueAt(q, m, k)'
    BY <2>1, <2>2 DEF DueAt, Room!JoinedBefore, Room!InOrder
  <2>4. QED BY <2>3
<1>3. QED BY <1>1, <1>2 DEF Delivery

(* A send to an entry of the vector.                                       *)
LEMMA SendDelivers ==
  ASSUME TypeInv, EntriesJoined, Delivery, Announce \/ Relay, UNCHANGED clientVars
  PROVE  Delivery'
<1>0. /\ inbox \in [Ports -> Seq(Waiting)] /\ (\A q \in Ports : Len(inbox[q]) \in Nat)
      /\ clients \in Seq(Ports) /\ Len(clients) \in Nat /\ log \in Seq(Event) /\ Len(log) \in Nat
      /\ i \in Nat
  BY Shapes DEF TypeInv, TypeOK, ServerTypeOK
<1>1. log' = log /\ printed' = printed
  BY DEF Announce, Relay
<1>2. CASE inbox' = inbox
  BY <1>1, <1>2, DeliveryKept
<1>3. CASE inbox' # inbox
  <2> DEFINE p == clients[i + 1]
  <2>1. /\ i + 1 \in 1 .. Len(clients) /\ SendToClient(p, packet)
        /\ \/ spc = "join" /\ i + 1 \in 1 .. Len(clients) - 1
           \/ spc = "say" /\ packet.who # p
    BY <1>0, <1>3 DEF Announce, Relay, Send
  <2>2. p \in Ports
    BY <1>0, <2>1
  <2>3. Len(log) >= 1 /\ packet = log[Len(log)] /\ packet.kind = spc
    BY <2>1 DEF EntriesJoined
  <2>4. packet \in Waiting
    BY <2>1 DEF TypeInv, Waiting
  <2>5. inbox' = [inbox EXCEPT ![p] = Append(@, packet)]
    BY <1>0, <1>3, <2>1, <2>2 DEF SendToClient, Arrive
  <2>6. Room!JoinedBefore(p, Len(log))
    <3>1. CASE spc = "join"
      BY <2>1, <3>1 DEF EntriesJoined
    <3>2. CASE spc = "say"
      <4>1. PICK j \in 1 .. Len(log) : log[j].kind = "join" /\ log[j].who = p
        BY <1>0, <2>1 DEF EntriesJoined, Room!JoinedBefore
      <4>2. j # Len(log)
        BY <2>3, <3>2, <4>1
      <4>3. QED BY <1>0, <4>1, <4>2 DEF Room!JoinedBefore
    <3>3. QED BY <2>1, <3>1, <3>2
  <2>7. packet.kind = "say" => packet.who # p
    BY <2>1, <2>3
  <2> HIDE DEF p
  <2>8. QED BY <1>1, <2>2, <2>3, <2>4, <2>5, <2>6, <2>7, InboxGrows
<1>4. QED BY <1>2, <1>3

(* The server takes a datagram.                                            *)
LEMMA ReceiveDelivers ==
  ASSUME TypeInv, Delivery, ReceiveJoin \/ ReceiveText, UNCHANGED clientVars
  PROVE  Delivery'
<1> DEFINE e == Head(queue)
<1>0. /\ inbox \in [Ports -> Seq(Waiting)] /\ (\A q \in Ports : Len(inbox[q]) \in Nat)
      /\ queue \in Seq(Waiting) /\ Len(log) \in Nat
  BY Shapes
<1>1. e \in Event
  BY <1>0, HeadIsFirst DEF ReceiveJoin, ReceiveText, Waiting
<1>2. log' = Append(log, e) /\ inbox' = inbox /\ printed' = printed
  BY DEF ReceiveJoin, ReceiveText
<1> HIDE DEF e
<1>3. /\ Len(log') = Len(log) + 1
      /\ \A k \in 1 .. Len(log) : log'[k] = log[k]
      /\ \A p \in Ports, k \in 1 .. Len(log) + 1 : Room!JoinedBefore(p, k) => Room!JoinedBefore(p, k)'
      /\ \A p \in Ports, k \in 0 .. Len(log) : Room!InOrder(p, k) => Room!InOrder(p, k)'
  BY <1>1, <1>2, LogGrows
<1>4. ASSUME NEW p \in Ports PROVE Room!InOrder(p, Len(log))'
  BY <1>0, <1>2, <1>3 DEF Delivery, Room!InOrder
<1>5. ASSUME NEW p \in Ports, NEW m \in 1 .. Len(inbox[p]), inbox[p][m] # Reset
      PROVE  \E k \in 1 .. Len(log') : DueAt(p, m, k)'
  <2>1. PICK k \in 1 .. Len(log) : DueAt(p, m, k)
    BY <1>5 DEF Delivery
  <2>2. Room!JoinedBefore(p, k)' /\ Room!InOrder(p, k)'
    BY <1>0, <1>3, <2>1 DEF DueAt
  <2>3. \A j \in 1 .. k : log'[j] = log[j]
    BY <1>0, <1>3
  <2>4. DueAt(p, m, k)'
    BY <1>2, <2>1, <2>2, <2>3 DEF DueAt
  <2>5. QED BY <1>0, <1>3, <2>4
<1>6. QED BY <1>2, <1>4, <1>5 DEF Delivery

(* A receive thread prints the first datagram.                             *)
LEMMA HearsDelivers ==
  ASSUME TypeInv, Delivery, NEW p \in Ports, Hears(p), UNCHANGED serverVars
  PROVE  Delivery' /\ Room!Hear(p)
<1> DEFINE e == Head(inbox[p])
<1>0. /\ inbox \in [Ports -> Seq(Waiting)] /\ (\A q \in Ports : Len(inbox[q]) \in Nat)
      /\ Len(log) \in Nat /\ printed \in [Ports -> Seq(Event)]
  BY Shapes
<1>1. /\ inbox[p] # <<>> /\ e # Reset
      /\ printed' = [printed EXCEPT ![p] = Append(@, e)]
      /\ inbox' = [inbox EXCEPT ![p] = Tail(@)] /\ log' = log
  BY DEF Hears
<1>2. /\ e = inbox[p][1] /\ e \in Waiting /\ Len(inbox[p]) >= 1
      /\ Len(Tail(inbox[p])) = Len(inbox[p]) - 1
      /\ \A m \in 1 .. Len(inbox[p]) - 1 : Tail(inbox[p])[m] = inbox[p][m + 1]
  BY <1>0, <1>1, HeadIsFirst
<1> HIDE DEF e
<1>3. e \in Event /\ printed[p] \in Seq(Event)
  BY <1>0, <1>1, <1>2 DEF Waiting
<1>4. printed'[p] # <<>> /\ printed'[p][Len(printed'[p])] = e
  <2>1. printed'[p] = Append(printed[p], e)
    BY <1>0, <1>1
  <2>2. Len(printed'[p]) = Len(printed[p]) + 1 /\ printed'[p] # <<>>
        /\ printed'[p][Len(printed[p]) + 1] = e
    BY <1>3, <2>1, AppendProperties
  <2>3. QED BY <2>2
<1>5. /\ Len(inbox'[p]) = Len(inbox[p]) - 1
      /\ \A m \in 1 .. Len(inbox[p]) - 1 : inbox'[p][m] = inbox[p][m + 1]
      /\ \A q \in Ports : q # p => inbox'[q] = inbox[q] /\ printed'[q] = printed[q]
  BY <1>0, <1>1, <1>2
<1>6. PICK n \in 1 .. Len(log) : DueAt(p, 1, n)
  <2>1. 1 \in 1 .. Len(inbox[p]) /\ inbox[p][1] # Reset
    BY <1>0, <1>1, <1>2
  <2>2. QED BY <2>1 DEF Delivery
<1>7. Room!Hear(p)
  <2>1. log[n] = e /\ Room!JoinedBefore(p, n) /\ Room!InOrder(p, n)
        /\ (log[n].kind = "say" => log[n].who # p)
    BY <1>2, <1>6 DEF DueAt
  <2>2. QED BY <1>1, <1>6, <2>1 DEF Room!Hear
<1>8. \A k \in n .. Len(log) : Room!InOrder(p, k)'
  BY <1>0, <1>1, <1>2, <1>4, <1>6 DEF DueAt, Room!InOrder
<1>9. ASSUME NEW q \in Ports PROVE Room!InOrder(q, Len(log))'
  <2>1. CASE q = p
    BY <1>0, <1>1, <1>4, <1>2, <1>6, <2>1 DEF DueAt, Room!InOrder
  <2>2. CASE q # p
    BY <1>0, <1>1, <1>5, <2>2 DEF Delivery, Room!InOrder
  <2>3. QED BY <2>1, <2>2
<1>10. ASSUME NEW m \in 1 .. Len(inbox'[p]), inbox'[p][m] # Reset
       PROVE  \E k \in 1 .. Len(log) : DueAt(p, m, k)'
  <2>1. m + 1 \in 2 .. Len(inbox[p]) /\ inbox'[p][m] = inbox[p][m + 1]
    BY <1>0, <1>5
  <2>2. PICK k \in 1 .. Len(log) : DueAt(p, m + 1, k)
    BY <1>0, <1>10, <2>1 DEF Delivery
  <2>3. Room!JoinedBefore(p, k)'
    BY <1>1, <2>2 DEF DueAt, Room!JoinedBefore
  <2>4. \E j \in 1 .. k : log[j] = e
    <3>1. 1 \in 1 .. (m + 1) - 1 /\ inbox[p][1] # Reset
      BY <1>1, <1>2, <2>1
    <3>2. QED BY <1>2, <2>2, <3>1 DEF DueAt
  <2>5. Room!InOrder(p, k)'
    BY <1>1, <1>4, <2>4 DEF Room!InOrder
  <2>6. ASSUME NEW l \in 1 .. m - 1, inbox'[p][l] # Reset
        PROVE  \E j \in 1 .. k : log'[j] = inbox'[p][l]
    <3>1. l + 1 \in 1 .. (m + 1) - 1 /\ inbox'[p][l] = inbox[p][l + 1]
      BY <1>0, <1>5, <2>1
    <3>2. \E j \in 1 .. k : log[j] = inbox[p][l + 1]
      BY <2>2, <2>6, <3>1 DEF DueAt
    <3>3. QED BY <1>1, <3>1, <3>2
  <2>7. log'[k] = inbox'[p][m] /\ (log'[k].kind = "say" => log'[k].who # p)
    BY <1>1, <2>1, <2>2 DEF DueAt
  <2>8. DueAt(p, m, k)'
    BY <2>3, <2>5, <2>6, <2>7 DEF DueAt
  <2>9. QED BY <2>8
<1>11. ASSUME NEW q \in Ports, q # p, NEW m \in 1 .. Len(inbox'[q]), inbox'[q][m] # Reset
       PROVE  \E k \in 1 .. Len(log) : DueAt(q, m, k)'
  <2>1. inbox'[q] = inbox[q] /\ printed'[q] = printed[q]
    BY <1>5, <1>11
  <2>2. PICK k \in 1 .. Len(log) : DueAt(q, m, k)
    BY <1>11, <2>1 DEF Delivery
  <2>3. DueAt(q, m, k)'
    BY <1>1, <2>1, <2>2 DEF DueAt, Room!JoinedBefore, Room!InOrder
  <2>4. QED BY <2>3
<1>12. Delivery'
  BY <1>1, <1>9, <1>10, <1>11 DEF Delivery
<1>13. QED BY <1>7, <1>12

LEMMA DeliveryStep == TypeInv /\ EntriesJoined /\ Delivery /\ [Next]_vars => Delivery'
<1> SUFFICES ASSUME TypeInv, EntriesJoined, Delivery, [Next]_vars PROVE Delivery'
  OBVIOUS
<1>0. inbox \in [Ports -> Seq(Waiting)]
  BY Shapes
<1>1. ASSUME ServerLoop \/ SendFails, UNCHANGED clientVars PROVE Delivery'
  <2>1. CASE ReceiveFails \/ SendFails \/ AnnounceDone \/ RelayDone
    BY <1>1, <2>1, DeliveryKept
       DEF ReceiveFails, SendFails, AnnounceDone, RelayDone, ServerExits
  <2>2. CASE Announce \/ Relay
    BY <1>1, <2>2, SendDelivers
  <2>3. CASE ReceiveJoin \/ ReceiveText
    BY <1>1, <2>3, ReceiveDelivers
  <2>4. QED BY <1>1, <2>1, <2>2, <2>3 DEF ServerLoop
<1>2. ASSUME NEW p \in Ports, ClientStep(p), UNCHANGED serverVars PROVE Delivery'
  <2>1. CASE JoinFails(p) \/ SayFails(p) \/ JoinThread(p) \/ IsKilled(p) \/ HearFails(p) \/ StopsHearing(p)
    <3>1. UNCHANGED <<log, printed>> /\ inbox' \in {inbox, [inbox EXCEPT ![p] = <<>>]}
      BY <1>2, <2>1 DEF JoinFails, SayFails, JoinThread, IsKilled, HearFails, StopsHearing,
                        BeginLoops, CloseSocket
    <3>2. \A q \in Ports : inbox'[q] \in {inbox[q], <<>>}
      BY <1>0, <3>1
    <3>3. QED BY <3>1, <3>2, DeliveryKept
  <2>2. CASE Join(p) \/ Say(p)
    <3>1. UNCHANGED <<log, printed>> /\ inbox' \in {inbox, [inbox EXCEPT ![p] = Append(@, Reset)]}
      BY <1>2, <2>2 DEF Join, Say, SendToServer, BeginLoops
    <3>2. CASE inbox' = inbox
      BY <3>1, <3>2, DeliveryKept
    <3>3. CASE inbox' = [inbox EXCEPT ![p] = Append(@, Reset)]
      BY <3>1, <3>3, InboxGrows DEF Waiting
    <3>4. QED BY <3>1, <3>2, <3>3
  <2>3. CASE Hears(p)
    BY <1>2, <2>3, HearsDelivers
  <2>4. QED BY <1>2, <2>1, <2>2, <2>3 DEF ClientStep
<1>3. CASE UNCHANGED vars
  BY <1>3, DeliveryKept
<1>4. QED BY <1>1, <1>2, <1>3, Steps

ChatInv == TypeInv /\ Numbered /\ EntriesJoined /\ Delivery

LEMMA ChatInvariant == Spec => []ChatInv
<1>1. Init => ChatInv
  <2> SUFFICES ASSUME Init PROVE ChatInv
    OBVIOUS
  <2>1. TypeInv
    BY DEF Init, NetInit, ServerInit, ClientInit, TypeInv, TypeOK, NetTypeOK, ServerTypeOK,
           ClientTypeOK
  <2>2. Numbered /\ EntriesJoined
    BY DEF Init, NetInit, ServerInit, Numbered, EntriesJoined
  <2>3. Delivery
    <3>1. \A p \in Ports : inbox[p] = <<>> /\ printed[p] = <<>>
      BY DEF Init, NetInit, ClientInit
    <3>2. \A p \in Ports : Len(inbox[p]) = 0
      BY <3>1, EmptySeq
    <3>3. \A p \in Ports : Room!InOrder(p, Len(log))
      BY <3>1 DEF Room!InOrder
    <3>4. ASSUME NEW p \in Ports, NEW m \in 1 .. Len(inbox[p]), inbox[p][m] # Reset
          PROVE  \E k \in 1 .. Len(log) : DueAt(p, m, k)
      <4>1. Len(inbox[p]) = 0
        BY <3>2
      <4>2. 1 <= m /\ m <= 0
        BY <3>4, <4>1
      <4>3. QED BY <4>2
    <3>5. QED BY <3>3, <3>4 DEF Delivery
  <2>4. QED BY <2>1, <2>2, <2>3 DEF ChatInv
<1>2. ChatInv /\ [Next]_vars => ChatInv'
  BY TypeStep, NumberedStep, EntriesStep, DeliveryStep DEF ChatInv
<1>3. QED BY <1>1, <1>2, PTL DEF Spec

(* A datagram the server takes from its socket is the next of its author.  *)
LEMMA ReceiveSpeaks ==
  ASSUME ChatInv, ReceiveJoin \/ ReceiveText, UNCHANGED clientVars
  PROVE  \E e \in Room!Event : Room!Speak(e)
<1> DEFINE e == Head(queue)
<1>0. queue \in Seq(Waiting) /\ Len(log) \in Nat /\ log \in Seq(Event)
  BY Shapes DEF ChatInv
<1>1. e \in Event /\ e = queue[1] /\ Len(queue) \in Nat /\ Len(queue) >= 1
  BY <1>0, HeadIsFirst DEF ReceiveJoin, ReceiveText, Waiting
<1>2. log' = Append(log, e) /\ printed' = printed /\ e # Reset
  BY DEF ReceiveJoin, ReceiveText
<1> HIDE DEF e
<1>3. 1 \in 1 .. Len(queue) /\ queue[1] # Reset
  BY <1>1, <1>2
<1>4. e.n \in 1 .. sent[e.who] /\ \A k \in 1 .. Len(log) : Earlier(log[k], e)
  BY <1>1, <1>3 DEF ChatInv, Numbered
<1>5. e.who \in Ports /\ e.kind \in {"join", "say"}
  BY <1>1, EventFields
<1>6. e.n \in 1 .. MaxDatagrams[e.who]
  BY <1>4, <1>5 DEF ChatInv, TypeInv, TypeOK, ClientTypeOK
<1>7. e \in Room!Event
  <2>1. e.n \in UNION {1 .. MaxDatagrams[p] : p \in Ports}
    BY <1>5, <1>6
  <2>2. QED BY <1>1, <1>5, <2>1 DEF Event, Room!Event
<1>8. Room!Speak(e)
  BY <1>2, <1>4 DEF Room!Speak, Earlier
<1>9. QED BY <1>7, <1>8

(* Every step of the chat is one of the room, or changes neither the log   *)
(* nor what is printed.                                                    *)
LEMMA RoomStep ==
  ASSUME ChatInv, [Next]_vars
  PROVE  [Room!RoomNext]_Room!roomVars
<1>1. ASSUME ServerLoop \/ SendFails, UNCHANGED clientVars
      PROVE  [Room!RoomNext]_Room!roomVars
  <2>1. CASE ReceiveJoin \/ ReceiveText
    BY <1>1, <2>1, ReceiveSpeaks DEF Room!RoomNext
  <2>2. CASE ~(ReceiveJoin \/ ReceiveText)
    <3>1. UNCHANGED <<log, printed>>
      BY <1>1, <2>2 DEF ServerLoop, ReceiveFails, SendFails, ServerExits, Announce, AnnounceDone, Relay,
                        RelayDone
    <3>2. QED BY <3>1 DEF Room!roomVars
  <2>3. QED BY <2>1, <2>2
<1>2. ASSUME NEW p \in Ports, ClientStep(p), UNCHANGED serverVars
      PROVE  [Room!RoomNext]_Room!roomVars
  <2>1. CASE Hears(p)
    BY <1>2, <2>1, HearsDelivers DEF ChatInv, Room!RoomNext
  <2>2. CASE ~Hears(p)
    <3>1. UNCHANGED <<log, printed>>
      BY <1>2, <2>2 DEF ClientStep, Join, JoinFails, Say, SayFails, JoinThread, IsKilled, HearFails,
                        StopsHearing, BeginLoops
    <3>2. QED BY <3>1 DEF Room!roomVars
  <2>3. QED BY <2>1, <2>2
<1>3. CASE UNCHANGED vars
  BY <1>3 DEF Room!roomVars
<1>4. QED BY <1>1, <1>2, <1>3, Steps

(* Whatever is lost, whoever comes back at a port and whenever an error    *)
(* ends the server: what is printed for a port is what others sent after   *)
(* it joined, in the order of the server and never a text of its own.      *)
THEOREM ChatImplementsRoom == Spec => ImplementsRoom
<1>1. Init => Room!RoomInit
  BY DEF Init, ServerInit, ClientInit, Room!RoomInit
<1>2. ChatInv /\ [Next]_vars => [Room!RoomNext]_Room!roomVars
  BY RoomStep
<1>3. QED BY <1>1, <1>2, ChatInvariant, PTL DEF Spec, ImplementsRoom, Room!RoomSpec
-------------------------------------------------------------------------------
(***************************************************************************)
(* Everyone is told.                                                       *)
(*                                                                         *)
(* The server's loops go over the vector of clients; what they ought to do *)
(* is said by the log.  Both agree because a port has as many entries in   *)
(* the vector as it has joins in the log.                                  *)
(***************************************************************************)
JoinsOf(p, n) == {j \in 1 .. n : log[j].kind = "join" /\ log[j].who = p}
EntriesOf(p, m) == {l \in 1 .. m : clients[l] = p}

TalliesAt(n, m) ==
  \A p \in Ports : Cardinality(JoinsOf(p, n)) = Cardinality(EntriesOf(p, m))

(* While a client is being announced its join and its entry do not count.  *)
Tallied ==
  spc # "exited" =>
    \E n, m \in Nat :
      /\ TalliesAt(n, m)
      /\ IF spc = "join"
         THEN n + 1 = Len(log) /\ m + 1 = Len(clients)
         ELSE n = Len(log) /\ m = Len(clients)

Repeated(c, e) == [x \in 1 .. c |-> e]

(* What p ought to have been sent of the first n events.                   *)
Due(p, n) == [k \in 1 .. n |-> Repeated(Copies(p, k), log[k])]
Told(p, n) == FlattenSeq(Due(p, n))

(* How often p was sent the packet, after i turns of the loop.             *)
SentNow(p) ==
  IF packet.kind = "say" /\ packet.who = p THEN 0 ELSE Cardinality(EntriesOf(p, i))

AtReceive ==
  spc = "recv" => i = 0 /\ \E n \in Nat : n = Len(log) /\ \A p \in Ports : sentTo[p] = Told(p, n)

InLoop ==
  spc \in {"join", "say"} =>
    \E n \in Nat :
      /\ n + 1 = Len(log) /\ packet = log[n + 1] /\ packet.kind = spc
      /\ \A p \in Ports : sentTo[p] = Told(p, n) \o Repeated(SentNow(p), packet)

(* The entry of the client being announced is the last one.                *)
LastIsNew == spc = "join" => i < Len(clients) /\ clients[Len(clients)] = packet.who

TellInv == Tallied /\ AtReceive /\ InLoop /\ LastIsNew

LEMMA RepeatedType ==
  ASSUME NEW c \in Nat, NEW e \in Event
  PROVE  Repeated(c, e) \in Seq(Event) /\ Len(Repeated(c, e)) = c
BY DEF Repeated

LEMMA RepeatedMore ==
  ASSUME NEW s \in Seq(Event), NEW c \in Nat, NEW e \in Event
  PROVE  /\ s \o Repeated(c + 1, e) = Append(s \o Repeated(c, e), e)
         /\ s \o Repeated(0, e) = s
<1>1. Repeated(c, e) \in Seq(Event) /\ Repeated(c + 1, e) \in Seq(Event)
  BY RepeatedType
<1>2. Repeated(c + 1, e) = Append(Repeated(c, e), e)
  BY <1>1 DEF Repeated
<1>3. \A r \in Seq(Event) : s \o Append(r, e) = Append(s \o r, e)
  OBVIOUS
<1>4. Repeated(0, e) = <<>>
  BY DEF Repeated
<1>5. QED BY <1>1, <1>2, <1>3, <1>4, ConcatEmptySeq

LEMMA JoinsFinite ==
  ASSUME NEW n \in Nat, NEW p
  PROVE  /\ IsFiniteSet(JoinsOf(p, n)) /\ Cardinality(JoinsOf(p, n)) \in Nat
         /\ IsFiniteSet(EntriesOf(p, n)) /\ Cardinality(EntriesOf(p, n)) \in Nat
         /\ Cardinality(EntriesOf(p, 0)) = 0
<1>1. IsFiniteSet(1 .. n)
  BY FS_Interval
<1>2. JoinsOf(p, n) \subseteq 1 .. n /\ EntriesOf(p, n) \subseteq 1 .. n /\ EntriesOf(p, 0) = {}
  BY DEF JoinsOf, EntriesOf
<1>3. QED BY <1>1, <1>2, FS_Subset, FS_CardinalityType, FS_EmptySet

(* One more event, or one more entry.                                      *)
LEMMA JoinsGrow ==
  ASSUME NEW n \in Nat, NEW p
  PROVE  Cardinality(JoinsOf(p, n + 1))
           = IF log[n + 1].kind = "join" /\ log[n + 1].who = p
             THEN Cardinality(JoinsOf(p, n)) + 1 ELSE Cardinality(JoinsOf(p, n))
<1>1. n + 1 \notin JoinsOf(p, n) /\ IsFiniteSet(JoinsOf(p, n))
  <2>1. n + 1 \notin JoinsOf(p, n)
    BY DEF JoinsOf
  <2>2. QED BY <2>1, JoinsFinite
<1>2. JoinsOf(p, n + 1) = IF log[n + 1].kind = "join" /\ log[n + 1].who = p
                          THEN JoinsOf(p, n) \cup {n + 1} ELSE JoinsOf(p, n)
  BY DEF JoinsOf
<1>3. QED BY <1>1, <1>2, FS_AddElement

LEMMA EntriesGrow ==
  ASSUME NEW m \in Nat, NEW p
  PROVE  Cardinality(EntriesOf(p, m + 1))
           = IF clients[m + 1] = p
             THEN Cardinality(EntriesOf(p, m)) + 1 ELSE Cardinality(EntriesOf(p, m))
<1>1. m + 1 \notin EntriesOf(p, m) /\ IsFiniteSet(EntriesOf(p, m))
  <2>1. m + 1 \notin EntriesOf(p, m)
    BY DEF EntriesOf
  <2>2. QED BY <2>1, JoinsFinite
<1>2. EntriesOf(p, m + 1) = IF clients[m + 1] = p
                            THEN EntriesOf(p, m) \cup {m + 1} ELSE EntriesOf(p, m)
  BY DEF EntriesOf
<1>3. QED BY <1>1, <1>2, FS_AddElement

LEMMA CopiesAre ==
  ASSUME NEW n \in Nat, NEW k, k = n + 1, NEW p
  PROVE  /\ Copies(p, k) = IF log[k].kind = "say" /\ log[k].who = p
                           THEN 0 ELSE Cardinality(JoinsOf(p, n))
         /\ Copies(p, k) \in Nat
<1>1. Copies(p, k) = IF log[k].kind = "say" /\ log[k].who = p
                     THEN 0 ELSE Cardinality(JoinsOf(p, n))
  <2>1. k - 1 = n
    OBVIOUS
  <2>2. QED BY <2>1 DEF Copies, JoinsOf
<1>2. Cardinality(JoinsOf(p, n)) \in Nat
  BY JoinsFinite
<1>3. QED BY <1>1, <1>2

LEMMA DueType ==
  ASSUME TypeInv, NEW n \in Nat, n <= Len(log), NEW p
  PROVE  /\ Due(p, n) \in Seq(Seq(Event)) /\ Len(Due(p, n)) = n
         /\ Told(p, n) \in Seq(Event)
<1>1. ASSUME NEW k \in 1 .. n PROVE Repeated(Copies(p, k), log[k]) \in Seq(Event)
  <2>1. k - 1 \in Nat /\ (k - 1) + 1 = k
    OBVIOUS
  <2>2. Copies(p, k) \in Nat
    BY <2>1, CopiesAre
  <2>3. log[k] \in Event
    BY Shapes
  <2>4. QED BY <2>2, <2>3, RepeatedType
<1>2. Due(p, n) \in Seq(Seq(Event)) /\ Len(Due(p, n)) = n
  BY <1>1 DEF Due
<1>3. QED BY <1>2, FlattenType DEF Told

(* The next event is due as often as it has copies.                        *)
LEMMA ToldNext ==
  ASSUME TypeInv, NEW n \in Nat, n + 1 <= Len(log), NEW p
  PROVE  Told(p, n + 1) = Told(p, n) \o Repeated(Copies(p, n + 1), log[n + 1])
<1> DEFINE d == Due(p, n)
           r == Repeated(Copies(p, n + 1), log[n + 1])
<1>1. n <= Len(log) /\ log[n + 1] \in Event /\ Copies(p, n + 1) \in Nat
  <2>1. log \in Seq(Event) /\ Len(log) \in Nat
    BY Shapes
  <2>2. n + 1 \in 1 .. Len(log) /\ n <= Len(log)
    BY <2>1
  <2>3. log[n + 1] \in Event
    BY <2>1, <2>2
  <2>4. QED BY <2>2, <2>3, CopiesAre
<1>2. d \in Seq(Seq(Event)) /\ Len(d) = n /\ r \in Seq(Event)
  BY <1>1, DueType, RepeatedType
<1>3. Due(p, n + 1) \in Seq(Seq(Event)) /\ Len(Due(p, n + 1)) = n + 1
  BY DueType
<1>4. /\ \A k \in 1 .. n : Due(p, n + 1)[k] = d[k]
      /\ Due(p, n + 1)[n + 1] = r
  BY DEF Due
<1> HIDE DEF d, r
<1>5. /\ Append(d, r) \in Seq(Seq(Event)) /\ Len(Append(d, r)) = n + 1
      /\ Append(d, r)[n + 1] = r /\ \A k \in 1 .. n : Append(d, r)[k] = d[k]
  BY <1>2, AppendProperties
<1>6. \A k \in 1 .. n + 1 : k \in 1 .. n \/ k = n + 1
  OBVIOUS
<1>7. Due(p, n + 1) = Append(d, r)
  BY <1>3, <1>4, <1>5, <1>6, SeqEqual
<1>8. FlattenSeq(Append(d, r)) = FlattenSeq(d) \o r
  BY <1>2, FlattenAppend
<1>9. QED BY <1>7, <1>8 DEF Told, d, r

(* Of the events that were there nothing changes when others follow.       *)
LEMMA ToldKept ==
  ASSUME NEW n \in Nat, \A k \in 1 .. n : log'[k] = log[k], NEW p
  PROVE  Told(p, n)' = Told(p, n) /\ JoinsOf(p, n)' = JoinsOf(p, n)
<1>1. ASSUME NEW k \in 1 .. n PROVE Copies(p, k)' = Copies(p, k)
  <2>1. log'[k] = log[k] /\ \A j \in 1 .. k - 1 : log'[j] = log[j]
    OBVIOUS
  <2>2. {j \in 1 .. k - 1 : log'[j].kind = "join" /\ log'[j].who = p}
          = {j \in 1 .. k - 1 : log[j].kind = "join" /\ log[j].who = p}
    BY <2>1
  <2>3. QED BY <2>1, <2>2 DEF Copies
<1>2. Due(p, n)' = Due(p, n)
  BY <1>1 DEF Due
<1>3. QED BY <1>2 DEF Told, JoinsOf

(* The counts of joins and entries in a state that says the same of them.  *)
LEMMA EntriesKept ==
  ASSUME NEW m \in Nat, \A l \in 1 .. m : clients'[l] = clients[l], NEW p
  PROVE  EntriesOf(p, m)' = EntriesOf(p, m)
BY DEF EntriesOf

LEMMA TalliesKept ==
  ASSUME TellInv, UNCHANGED <<spc, clients, log>>
  PROVE  Tallied'
<1>1. \A n, m : TalliesAt(n, m)' <=> TalliesAt(n, m)
  BY DEF TalliesAt, JoinsOf, EntriesOf
<1>2. CASE spc = "exited"
  BY <1>2 DEF Tallied
<1>3. CASE spc # "exited"
  BY <1>1, <1>3 DEF TellInv, Tallied
<1>4. QED BY <1>2, <1>3

LEMMA ReceiveTells ==
  ASSUME TypeInv, TellInv, ReceiveJoin \/ ReceiveText
  PROVE  TellInv'
<1> DEFINE e == Head(queue)
<1>1. PICK n \in Nat, m \in Nat : TalliesAt(n, m) /\ n = Len(log) /\ m = Len(clients)
  BY DEF TellInv, Tallied, ReceiveJoin, ReceiveText
<1>2. i = 0 /\ \A p \in Ports : sentTo[p] = Told(p, n)
  BY <1>1 DEF TellInv, AtReceive, ReceiveJoin, ReceiveText
<1>3. queue \in Seq(Waiting) /\ log \in Seq(Event) /\ clients \in Seq(Ports)
  BY Shapes
<1>4. e \in Event /\ e.who \in Ports
  BY <1>3, HeadTailProperties, EventFields DEF ReceiveJoin, ReceiveText, Waiting
<1>5. /\ log' = Append(log, e) /\ packet' = e /\ i' = 0 /\ sentTo' = sentTo
      /\ spc' = e.kind /\ spc' \in {"join", "say"}
      /\ IF spc' = "join" THEN clients' = Append(clients, e.who) ELSE clients' = clients
  BY <1>2 DEF ReceiveJoin, ReceiveText
<1> HIDE DEF e
<1>6. Len(log') = n + 1 /\ log'[n + 1] = e /\ \A k \in 1 .. n : log'[k] = log[k]
  BY <1>1, <1>3, <1>4, <1>5, AppendProperties
<1>7. /\ \A l \in 1 .. m : clients'[l] = clients[l]
      /\ spc' = "join" => Len(clients') = m + 1 /\ clients'[m + 1] = e.who
      /\ spc' = "say" => Len(clients') = m
  <2>1. CASE spc' = "join"
    <3>1. clients' = Append(clients, e.who)
      BY <1>5, <2>1
    <3>2. QED BY <1>1, <1>3, <1>4, <2>1, <3>1, AppendProperties
  <2>2. CASE spc' = "say"
    BY <1>1, <1>5, <2>2
  <2>3. QED BY <1>5, <2>1, <2>2
<1>8. ASSUME NEW p PROVE Told(p, n)' = Told(p, n) /\ JoinsOf(p, n)' = JoinsOf(p, n)
  BY <1>6, ToldKept
<1>9. \A p : EntriesOf(p, m)' = EntriesOf(p, m)
  BY <1>7, EntriesKept
<1>10. TalliesAt(n, m)'
  BY <1>1, <1>8, <1>9 DEF TalliesAt
<1>11. Tallied'
  <2>1. CASE spc' = "join"
    BY <1>6, <1>7, <1>10, <2>1 DEF Tallied
  <2>2. CASE spc' = "say"
    <3>1. ASSUME NEW p PROVE JoinsOf(p, n + 1)' = JoinsOf(p, n)'
      <4>1. log'[n + 1].kind # "join"
        BY <1>5, <1>6, <2>2
      <4>2. QED BY <4>1 DEF JoinsOf
    <3>2. TalliesAt(n + 1, m)'
      BY <1>10, <3>1 DEF TalliesAt
    <3>3. QED BY <1>6, <1>7, <2>2, <3>2 DEF Tallied
  <2>3. QED BY <1>5, <2>1, <2>2
<1>12. InLoop'
  <2>1. ASSUME NEW p \in Ports PROVE sentTo'[p] = Told(p, n)' \o Repeated(SentNow(p)', e)
    <3>1. SentNow(p)' = 0
      <4>1. {l \in 1 .. i' : clients'[l] = p} = {}
        BY <1>5
      <4>2. QED BY <4>1, FS_EmptySet DEF SentNow, EntriesOf
    <3>2. Told(p, n) \in Seq(Event)
      BY <1>1, DueType
    <3>3. Told(p, n) \o Repeated(0, e) = Told(p, n)
      BY <1>4, <3>2, RepeatedMore
    <3>4. QED BY <1>2, <1>5, <1>8, <3>1, <3>3
  <2>2. QED BY <1>5, <1>6, <2>1 DEF InLoop
<1>13. AtReceive'
  BY <1>5 DEF AtReceive
<1>14. LastIsNew'
  <2>1. ASSUME spc' = "join" PROVE i' < Len(clients') /\ clients'[Len(clients')] = packet'.who
    BY <1>5, <1>7, <2>1
  <2>2. QED BY <2>1 DEF LastIsNew
<1>15. QED BY <1>11, <1>12, <1>13, <1>14 DEF TellInv

(* A turn of a loop tells the port of the entry, unless it is the author's. *)
LEMMA LoopTells ==
  ASSUME TypeInv, TellInv, Announce \/ Relay
  PROVE  TellInv'
<1>1. /\ UNCHANGED <<spc, clients, packet, log>> /\ i' = i + 1 /\ spc \in {"join", "say"}
      /\ i < Len(clients) /\ (spc = "join" => i < Len(clients) - 1)
  <2>1. i \in Nat /\ Len(clients) \in Nat
    BY Shapes DEF TypeInv, TypeOK, ServerTypeOK
  <2>2. QED BY <2>1 DEF Announce, Relay
<1>2. PICK j \in Nat : j = i
  BY Shapes DEF TypeInv, TypeOK, ServerTypeOK
<1> DEFINE q == clients[j + 1]
<1>3. q \in Ports /\ packet \in Event /\ Len(clients) \in Nat
  <2>1. clients \in Seq(Ports) /\ Len(clients) \in Nat /\ j + 1 \in 1 .. Len(clients)
    BY <1>1, <1>2, Shapes
  <2>2. q \in Ports
    BY <2>1
  <2>3. QED BY <1>1, <2>1, <2>2 DEF TypeInv
<1>4. PICK n \in Nat :
        /\ n + 1 = Len(log) /\ packet = log[n + 1] /\ packet.kind = spc
        /\ \A p \in Ports : sentTo[p] = Told(p, n) \o Repeated(SentNow(p), packet)
  BY <1>1 DEF TellInv, InLoop
<1>5. /\ sentTo \in [Ports -> Seq(Event)]
      /\ sentTo' = IF packet.kind = "say" /\ packet.who = q
                   THEN sentTo ELSE [sentTo EXCEPT ![q] = Append(@, packet)]
  BY <1>2, <1>4 DEF Announce, Relay, Send, TypeInv, TypeOK, ServerTypeOK
<1>6. \A p : Told(p, n)' = Told(p, n)
  BY <1>1, <1>4, ToldKept
<1>7. \A p \in Ports : Told(p, n) \in Seq(Event)
  <2>1. n <= Len(log)
    BY <1>4
  <2>2. QED BY <2>1, DueType
<1> HIDE DEF q
<1>8. ASSUME NEW p \in Ports PROVE sentTo'[p] = Told(p, n) \o Repeated(SentNow(p)', packet)
  <2>1. SentNow(p) = IF packet.kind = "say" /\ packet.who = p
                     THEN 0 ELSE Cardinality(EntriesOf(p, j))
    BY <1>2 DEF SentNow
  <2>2. SentNow(p)' = IF packet.kind = "say" /\ packet.who = p
                      THEN 0 ELSE Cardinality(EntriesOf(p, j + 1))
    BY <1>1, <1>2 DEF SentNow, EntriesOf
  <2>3. Cardinality(EntriesOf(p, j + 1)) = IF q = p THEN Cardinality(EntriesOf(p, j)) + 1
                                           ELSE Cardinality(EntriesOf(p, j))
    BY EntriesGrow DEF q
  <2>4. Cardinality(EntriesOf(p, j)) \in Nat
    BY JoinsFinite
  <2>5. sentTo[p] = Told(p, n) \o Repeated(SentNow(p), packet)
    BY <1>4
  <2>6. CASE q = p /\ ~(packet.kind = "say" /\ packet.who = p)
    <3>1. SentNow(p)' = SentNow(p) + 1 /\ SentNow(p) \in Nat
      BY <2>1, <2>2, <2>3, <2>4, <2>6
    <3>2. sentTo'[p] = Append(sentTo[p], packet)
      BY <1>5, <2>6
    <3>3. Told(p, n) \o Repeated(SentNow(p) + 1, packet)
            = Append(Told(p, n) \o Repeated(SentNow(p), packet), packet)
      <4>1. packet \in Event /\ Told(p, n) \in Seq(Event)
        BY <1>1, <1>7 DEF TypeInv, TypeOK, ServerTypeOK
      <4>2. QED BY <3>1, <4>1, RepeatedMore
    <3>4. QED BY <2>5, <3>1, <3>2, <3>3
  <2>7. CASE ~(q = p /\ ~(packet.kind = "say" /\ packet.who = p))
    <3>1. SentNow(p)' = SentNow(p)
      BY <2>1, <2>2, <2>3, <2>7
    <3>2. sentTo'[p] = sentTo[p]
      BY <1>5, <2>7
    <3>3. QED BY <2>5, <3>1, <3>2
  <2>8. QED BY <2>6, <2>7
<1>9. InLoop'
  <2>1. /\ n + 1 = Len(log') /\ packet' = log'[n + 1] /\ packet'.kind = spc'
        /\ \A p \in Ports : sentTo'[p] = Told(p, n)' \o Repeated(SentNow(p)', packet')
    BY <1>1, <1>4, <1>6, <1>8
  <2>2. QED BY <2>1 DEF InLoop
<1>10. Tallied'
  BY <1>1, TalliesKept
<1>11. AtReceive' /\ LastIsNew'
  <2>1. spc = "join" => i' < Len(clients)
    BY <1>1, <1>2, <1>3
  <2>2. QED BY <1>1, <2>1 DEF TellInv, AtReceive, LastIsNew
<1>12. QED BY <1>9, <1>10, <1>11 DEF TellInv

(* When a loop ends, every port was sent its copies of the packet.         *)
LEMMA LoopEnds ==
  ASSUME TypeInv, TellInv, AnnounceDone \/ RelayDone
  PROVE  TellInv'
<1>1. /\ UNCHANGED <<clients, log, sentTo>> /\ i' = 0 /\ spc' = "recv" /\ spc \in {"join", "say"}
  BY DEF AnnounceDone, RelayDone
<1>2. PICK n \in Nat :
        /\ n + 1 = Len(log) /\ packet = log[n + 1] /\ packet.kind = spc
        /\ \A p \in Ports : sentTo[p] = Told(p, n) \o Repeated(SentNow(p), packet)
  BY <1>1 DEF TellInv, InLoop
<1>3. PICK m \in Nat :
        /\ TalliesAt(IF spc = "join" THEN n ELSE n + 1, m)
        /\ IF spc = "join" THEN m + 1 = Len(clients) ELSE m = Len(clients)
  <2>1. CASE spc = "join"
    <3>1. \E k, m \in Nat : TalliesAt(k, m) /\ k + 1 = Len(log) /\ m + 1 = Len(clients)
      BY <2>1 DEF TellInv, Tallied
    <3>2. \A k \in Nat : k + 1 = Len(log) => k = n
      BY <1>2
    <3>3. QED BY <2>1, <3>1, <3>2
  <2>2. CASE spc = "say"
    BY <1>2, <2>2 DEF TellInv, Tallied
  <2>3. QED BY <1>1, <2>1, <2>2
<1>4. i = m
  BY <1>3, Shapes DEF AnnounceDone, RelayDone, TellInv, LastIsNew, TypeInv, TypeOK, ServerTypeOK
<1>5. ASSUME NEW p \in Ports
      PROVE  Cardinality(JoinsOf(p, n)) = Cardinality(EntriesOf(p, m))
  <2>1. CASE spc = "join"
    BY <1>3, <2>1 DEF TalliesAt
  <2>2. CASE spc = "say"
    <3>1. Cardinality(JoinsOf(p, n + 1)) = Cardinality(JoinsOf(p, n))
      BY <1>2, <2>2, JoinsGrow
    <3>2. QED BY <1>3, <2>2, <3>1 DEF TalliesAt
  <2>3. QED BY <1>1, <2>1, <2>2
<1>6. \E k \in Nat : TalliesAt(n + 1, k) /\ k = Len(clients)
  <2>1. CASE spc = "join"
    <3>1. clients[m + 1] = log[n + 1].who /\ log[n + 1].kind = "join"
      BY <1>2, <1>3, <2>1 DEF TellInv, LastIsNew
    <3>2. ASSUME NEW p \in Ports
          PROVE  Cardinality(JoinsOf(p, n + 1)) = Cardinality(EntriesOf(p, m + 1))
      BY <1>5, <3>1, JoinsGrow, EntriesGrow
    <3>3. QED BY <1>3, <2>1, <3>2 DEF TalliesAt
  <2>2. CASE spc = "say"
    BY <1>3, <2>2
  <2>3. QED BY <1>1, <2>1, <2>2
<1>7. Tallied'
  <2>1. PICK k \in Nat : TalliesAt(n + 1, k) /\ k = Len(clients)
    BY <1>6
  <2>2. TalliesAt(n + 1, k)'
    BY <1>1, <2>1 DEF TalliesAt, JoinsOf, EntriesOf
  <2>3. QED BY <1>1, <1>2, <2>1, <2>2 DEF Tallied
<1>8. ASSUME NEW p \in Ports PROVE sentTo[p] = Told(p, n + 1)
  <2>1. Told(p, n + 1) = Told(p, n) \o Repeated(Copies(p, n + 1), log[n + 1])
    <3>1. n + 1 <= Len(log)
      BY <1>2
    <3>2. QED BY <3>1, ToldNext
  <2>2. Copies(p, n + 1) = SentNow(p)
    BY <1>2, <1>4, <1>5, CopiesAre DEF SentNow
  <2>3. QED BY <1>2, <2>1, <2>2
<1>9. \A p : Told(p, n + 1)' = Told(p, n + 1)
  BY <1>1, ToldKept
<1>10. AtReceive'
  BY <1>1, <1>2, <1>8, <1>9 DEF AtReceive
<1>11. InLoop' /\ LastIsNew'
  BY <1>1 DEF InLoop, LastIsNew
<1>12. QED BY <1>7, <1>10, <1>11 DEF TellInv

LEMMA TellStep == TypeInv /\ TellInv /\ [Next]_vars => TellInv'
<1> SUFFICES ASSUME TypeInv, TellInv, [Next]_vars PROVE TellInv'
  OBVIOUS
<1>1. CASE ReceiveJoin \/ ReceiveText
  BY <1>1, ReceiveTells
<1>2. CASE Announce \/ Relay
  BY <1>2, LoopTells
<1>3. CASE AnnounceDone \/ RelayDone
  BY <1>3, LoopEnds
<1>4. CASE ServerExits
  BY <1>4 DEF ServerExits, TellInv, Tallied, AtReceive, InLoop, LastIsNew
<1>5. CASE UNCHANGED serverVars
  <2>1. \A p, n : Told(p, n)' = Told(p, n) /\ SentNow(p)' = SentNow(p)
    BY <1>5 DEF Told, Due, Copies, SentNow, EntriesOf
  <2>2. Tallied'
    BY <1>5, TalliesKept
  <2>3. AtReceive' /\ InLoop' /\ LastIsNew'
    BY <1>5, <2>1 DEF TellInv, AtReceive, InLoop, LastIsNew
  <2>4. QED BY <2>2, <2>3 DEF TellInv
<1>6. QED
  BY <1>1, <1>2, <1>3, <1>4, <1>5, Steps DEF ServerLoop, ReceiveFails, SendFails

(* Between two datagrams every address was sent, in order, every event as  *)
(* often as it had joined before, and never an own text.                   *)
THEOREM EveryoneTold == Spec => []EveryoneIsTold
<1>1. Init => TellInv
  <2> SUFFICES ASSUME Init PROVE TellInv
    OBVIOUS
  <2>1. spc = "recv" /\ i = 0 /\ Len(log) = 0 /\ Len(clients) = 0
        /\ \A p \in Ports : sentTo[p] = <<>>
    BY EmptySeq DEF Init, ServerInit
  <2>2. \A p : Told(p, 0) = <<>>
    <3>1. \A p : Due(p, 0) = <<>>
      BY DEF Due
    <3>2. QED BY <3>1, FlattenEmpty DEF Told
  <2>3. TalliesAt(0, 0)
    <3>1. \A p : JoinsOf(p, 0) = {} /\ EntriesOf(p, 0) = {}
      BY DEF JoinsOf, EntriesOf
    <3>2. QED BY <3>1 DEF TalliesAt
  <2>4. QED BY <2>1, <2>2, <2>3 DEF TellInv, Tallied, AtReceive, InLoop, LastIsNew
<1>2. TellInv => EveryoneIsTold
  BY DEF TellInv, AtReceive, Told, Due, Repeated, EveryoneIsTold
<1>3. QED BY TypeInvariant, TellStep, <1>1, <1>2, PTL DEF Spec
===============================================================================
