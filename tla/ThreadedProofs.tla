---------------------------- MODULE ThreadedProofs ----------------------------
(***************************************************************************)
(* Theorems about ThreadedSystem, for every number of clients, socket      *)
(* values, table slots, buffer and window sizes.                           *)
(***************************************************************************)
EXTENDS ThreadedSystem, TLAPS

USE DEF vars, linkVars, serverVars, hostVars, historyVars, clientVars,
        receiveUnchanged, sendUnchanged

-------------------------------------------------------------------------------
(***************************************************************************)
(* Type correctness.  h stays within the table because the accepting       *)
(* thread counts a host only after it has found room for it.               *)
(***************************************************************************)
PendingHost == mpc # "accept" => h < MaxHosts /\ client \in Clients

TypeInv == TypeOK /\ PendingHost

(* The values main sets up before it accepts have their types.             *)
LEMMA TypeInit == Init => TypeInv
BY ServerAssumption, ClientAssumption, WindowAssumption
   DEF Init, LinkInit, ServerInit, ClientInit, TypeInv, TypeOK, PendingHost,
       LinkTypeOK, ServerTypeOK, ClientTypeOK, Message, Slots, Sockets

(* The accepting thread keeps the types.                                   *)
LEMMA TypeMain ==
  ASSUME TypeInv, MainThread, UNCHANGED clientVars
  PROVE  TypeInv'
<1> USE ServerAssumption
    DEF TypeInv, TypeOK, PendingHost, LinkTypeOK, ServerTypeOK, ClientTypeOK,
        Slots, Sockets
<1>1. CASE Accept
  <2>1. Head(backlog) \in Clients /\ Tail(backlog) \in Seq(Clients)
    BY <1>1 DEF Accept
  <2>2. LinkTypeOK' /\ ClientTypeOK'
    BY <1>1, <2>1 DEF Accept
  <2>3. PICK s \in Sockets : /\ host' = [host EXCEPT ![h] = s]
                             /\ sock' = [sock EXCEPT ![Head(backlog)] = s]
    BY <1>1 DEF Accept, FreeHandles
  <2>4. host' \in [Slots -> Sockets] /\ sock' \in [Clients -> Sockets]
    BY <2>3
  <2>5. QED BY <1>1, <2>1, <2>2, <2>4 DEF Accept
<1>2. CASE AcceptPastTable
  BY <1>2 DEF AcceptPastTable
<1>3. CASE StartReceiver
  BY <1>3 DEF StartReceiver
<1>4. CASE CountHost
  <2>1. client \in Clients /\ h < MaxHosts
    BY <1>4 DEF CountHost
  <2>2. h' \in 0 .. MaxHosts
    BY <1>4, <2>1 DEF CountHost
  <2>3. since' \in [Clients -> Nat]
    BY <1>4, <2>1 DEF CountHost
  <2>4. QED BY <1>4, <2>2, <2>3 DEF CountHost
<1>5. QED BY <1>1, <1>2, <1>3, <1>4 DEF MainThread

(* The send thread keeps the types.                                        *)
LEMMA TypeSend ==
  ASSUME TypeInv, SendThread, UNCHANGED clientVars
  PROVE  TypeInv'
<1> USE ServerAssumption
    DEF TypeInv, TypeOK, PendingHost, LinkTypeOK, ServerTypeOK, ClientTypeOK,
        Slots, Sockets
<1>1. CASE SendToHost
  <2>1. PICK receivers : SendUpdate(receivers, tempBuf)
    BY <1>1 DEF SendToHost
  <2>2. downlink' \in [Clients -> Seq(Seq(Message))]
    BY <2>1 DEF SendUpdate
  <2>3. missed' \in SUBSET Clients
    BY <1>1 DEF SendToHost, SendUpdate
  <2>4. i' \in 0 .. MaxHosts
    BY <1>1 DEF SendToHost
  <2>5. QED BY <1>1, <2>2, <2>3, <2>4 DEF SendToHost, SendUpdate
<1>2. CASE SenderLocks
  BY <1>2 DEF SenderLocks, Acquire
<1>3. CASE SenderTimesOut
  BY <1>3 DEF SenderTimesOut
<1>4. CASE CopyBuffer
  BY <1>4 DEF CopyBuffer
<1>5. CASE ClearBuffer
  <2>1. buf' \in Seq(Message) /\ Len(buf') <= BufMessages
    BY <1>5 DEF ClearBuffer
  <2>2. flushed' \in Nat
    BY <1>5 DEF ClearBuffer
  <2>3. QED BY <1>5, <2>1, <2>2 DEF ClearBuffer
<1>6. CASE SenderUnlocks
  BY <1>6 DEF SenderUnlocks, Release
<1>7. CASE SendDone
  <2>1. tempBuf' \in Seq(Message) /\ Len(tempBuf') <= BufMessages
    BY <1>7 DEF SendDone
  <2>2. QED BY SMTT(30), <1>7, <2>1 DEF SendDone
<1>8. QED BY <1>1, <1>2, <1>3, <1>4, <1>5, <1>6, <1>7 DEF SendThread

(* Counters stay natural numbers when one of them takes another value.     *)
LEMMA CountType ==
  ASSUME NEW S, NEW f \in [S -> Nat], NEW c \in S
  PROVE  [f EXCEPT ![c] = @ + 1] \in [S -> Nat]
<1>1. f[c] \in Nat /\ f[c] + 1 \in Nat
  OBVIOUS
<1>2. \A k \in Nat : [f EXCEPT ![c] = k] \in [S -> Nat]
  OBVIOUS
<1>3. QED BY <1>1, <1>2

(* A receive thread keeps the types.                                       *)
LEMMA TypeReceive ==
  ASSUME TypeInv, NEW c \in Clients, Receiver(c), UNCHANGED clientVars
  PROVE  TypeInv'
<1> USE ServerAssumption
    DEF TypeInv, TypeOK, PendingHost, LinkTypeOK, ServerTypeOK, ClientTypeOK,
        Slots, Sockets
<1>1. CASE Receive(c)
  <2>1. Head(uplink[c]) \in Message /\ Tail(uplink[c]) \in Seq(Message)
    BY <1>1 DEF Receive
  <2>2. QED BY <1>1, <2>1 DEF Receive
<1>2. CASE ReceiveFails(c)
  BY <1>2 DEF ReceiveFails
<1>3. CASE ReceiverLocks(c)
  BY <1>3 DEF ReceiverLocks, Acquire
<1>4. CASE ReceiverTimesOut(c)
  BY <1>4 DEF ReceiverTimesOut
<1>5. CASE AppendMessage(c)
  <2>1. /\ buf' \in Seq(Message) /\ Len(buf') = Len(buf) + 1
        /\ order' \in Seq(Message)
    BY <1>5 DEF AppendMessage
  <2>2. Len(buf') <= BufMessages
    BY <1>5, <2>1 DEF AppendMessage
  <2>3. appended' \in [Clients -> Nat]
    <3>1. appended' = [appended EXCEPT ![c] = @ + 1]
      BY <1>5 DEF AppendMessage
    <3>2. appended \in [Clients -> Nat]
      OBVIOUS
    <3>3. QED BY ONLY <3>1, <3>2, CountType
  <2>4. rpc' \in [Clients -> {"none", "recv", "wait", "append", "release", "exited"}]
    BY <1>5 DEF AppendMessage
  <2>5. QED BY <1>5, <2>1, <2>2, <2>3, <2>4 DEF AppendMessage
<1>6. CASE AppendPastBuffer(c)
  BY <1>6 DEF AppendPastBuffer
<1>7. CASE ReceiverUnlocks(c)
  BY <1>7 DEF ReceiverUnlocks, Release
<1>8. QED BY <1>1, <1>2, <1>3, <1>4, <1>5, <1>6, <1>7 DEF Receiver

(* A client keeps the types.                                               *)
LEMMA TypeClient ==
  ASSUME TypeInv, NEW c \in Clients, UNCHANGED serverVars,
         ClientConnects(c) \/ ClientSends(c) \/ ClientReceives(c) \/ ClientIsKilled(c)
  PROVE  TypeInv'
<1> USE ClientAssumption
    DEF TypeInv, TypeOK, PendingHost, LinkTypeOK, ServerTypeOK, ClientTypeOK
<1>1. CASE ClientConnects(c)
  <2>1. backlog' \in Seq(Clients)
    BY <1>1 DEF ClientConnects, Connect
  <2>2. peer' \in [Clients -> {"none", "up", "gone"}]
    BY <1>1 DEF ClientConnects, Connect
  <2>3. cpc' \in [Clients -> {"start", "send", "recv", "ended"}]
    BY <1>1 DEF ClientConnects
  <2>4. QED BY <1>1, <2>1, <2>2, <2>3 DEF ClientConnects, Connect
<1>2. CASE ClientSends(c)
  <2> DEFINE m == [from |-> c, n |-> count[c]]
  <2>1. cpc' \in [Clients -> {"start", "send", "recv", "ended"}] /\ UNCHANGED printed
    BY <1>2 DEF ClientSends
  <2>2. CASE SendToServer(c, m) /\ count' = [count EXCEPT ![c] = @ + 1]
    <3>1. m \in Message
      BY DEF Message
    <3>2. uplink' \in [Clients -> Seq(Message)]
      <4>1. Append(uplink[c], m) \in Seq(Message)
        BY <3>1
      <4>2. uplink' = [uplink EXCEPT ![c] = Append(uplink[c], m)]
        BY <2>2 DEF SendToServer
      <4>3. QED BY <4>1, <4>2
    <3>3. count' \in [Clients -> Nat]
      <4>1. count \in [Clients -> Nat]
        OBVIOUS
      <4>2. QED BY ONLY <2>2, <4>1, CountType
    <3>4. QED BY <2>1, <2>2, <3>2, <3>3 DEF SendToServer
  <2>3. CASE SendIsRefused(c) /\ UNCHANGED count
    <3>1. downlink' \in {downlink, [downlink EXCEPT ![c] = <<>>]}
      BY <2>3 DEF SendIsRefused
    <3>2. [downlink EXCEPT ![c] = <<>>] \in [Clients -> Seq(Seq(Message))]
      OBVIOUS
    <3>3. downlink' \in [Clients -> Seq(Seq(Message))]
      BY <3>1, <3>2
    <3>4. QED BY <2>1, <2>3, <3>3 DEF SendIsRefused
  <2>4. QED BY <1>2, <2>2, <2>3 DEF ClientSends
<1>3. CASE ClientReceives(c)
  <2>1. downlink' \in [Clients -> Seq(Seq(Message))] /\ printed' \in [Clients -> Seq(Message)]
    <3>1. CASE downlink[c] = <<>>
      BY <1>3, <3>1 DEF ClientReceives
    <3>2. CASE downlink[c] # <<>>
      <4>1. Head(downlink[c]) \in Seq(Message) /\ Tail(downlink[c]) \in Seq(Seq(Message))
        BY <3>2
      <4>2. printed[c] \o Head(downlink[c]) \in Seq(Message)
        BY <4>1
      <4>3. QED BY <1>3, <3>2, <4>1, <4>2 DEF ClientReceives
    <3>3. QED BY <3>1, <3>2
  <2>2. cpc' \in [Clients -> {"start", "send", "recv", "ended"}]
    BY <1>3 DEF ClientReceives
  <2>3. QED BY <1>3, <2>1, <2>2 DEF ClientReceives
<1>4. CASE ClientIsKilled(c)
  <2>1. uplink' \in [Clients -> Seq(Message)]
    <3>1. uplink' \in {uplink, [uplink EXCEPT ![c] = <<>>]}
      BY <1>4 DEF ClientIsKilled, Disconnect
    <3>2. [uplink EXCEPT ![c] = <<>>] \in [Clients -> Seq(Message)]
      OBVIOUS
    <3>3. QED BY <3>1, <3>2
  <2>2. peer' \in [Clients -> {"none", "up", "gone"}]
    BY <1>4 DEF ClientIsKilled, Disconnect
  <2>3. cpc' \in [Clients -> {"start", "send", "recv", "ended"}]
    BY <1>4 DEF ClientIsKilled
  <2>4. QED BY <1>4, <2>1, <2>2, <2>3 DEF ClientIsKilled, Disconnect
<1>5. QED BY <1>1, <1>2, <1>3, <1>4

(* Every step is one of a thread of the server or of a client.             *)
LEMMA StepOfAThread ==
  ASSUME Next
  PROVE  \/ MainThread /\ UNCHANGED clientVars
         \/ SendThread /\ UNCHANGED clientVars
         \/ \E c \in Clients : Receiver(c) /\ UNCHANGED clientVars
         \/ \E c \in Clients :
              /\ UNCHANGED serverVars
              /\ \/ ClientConnects(c) \/ ClientSends(c)
                 \/ ClientReceives(c) \/ ClientIsKilled(c)
BY ClientAssumption DEF Next, MainThread, SendThread, Receiver

(* Every variable keeps its type, and an accepted connection that is not   *)
(* counted yet has a slot of the table.                                    *)
THEOREM TypeCorrect == Spec => []TypeInv
<1>1. TypeInv /\ [Next]_vars => TypeInv'
  <2>1. ASSUME TypeInv, Next PROVE TypeInv'
    BY <2>1, StepOfAThread, TypeMain, TypeSend, TypeReceive, TypeClient
  <2>2. ASSUME TypeInv, UNCHANGED vars PROVE TypeInv'
    BY <2>2 DEF TypeInv, TypeOK, PendingHost, LinkTypeOK, ServerTypeOK, ClientTypeOK
  <2>3. QED BY <2>1, <2>2
<1>2. QED BY <1>1, TypeInit, PTL DEF Spec

(* Every variable keeps its type: host, aThreads and buf are never overrun *)
(* in a state the model does not call undefined.                           *)
THEOREM TypeOKCorrect == Spec => []TypeOK
<1>1. TypeInv => TypeOK
  BY DEF TypeInv
<1>2. QED BY <1>1, TypeCorrect, PTL

-------------------------------------------------------------------------------
(***************************************************************************)
(* The way of a connection: it is queued once, accepted once and given one *)
(* receive thread.                                                         *)
(***************************************************************************)
QueuedOnce ==
  \A j, k \in 1 .. Len(backlog) : backlog[j] = backlog[k] => j = k

QueuedIsNew ==
  \A k \in 1 .. Len(backlog) :
    /\ conn[backlog[k]] = "none"
    /\ rpc[backlog[k]] = "none"
    /\ cpc[backlog[k]] # "start"

UnstartedIsNew ==
  \A c \in Clients : cpc[c] = "start" => conn[c] = "none" /\ rpc[c] = "none"

AcceptedIsNew == mpc = "start" => conn[client] # "none" /\ rpc[client] = "none"

HandOver == QueuedOnce /\ QueuedIsNew /\ UnstartedIsNew /\ AcceptedIsNew

(* Nothing is queued and no receive thread exists at first.                *)
LEMMA HandOverInit == Init => HandOver
BY DEF Init, LinkInit, ServerInit, ClientInit, HandOver, QueuedOnce, QueuedIsNew,
       UnstartedIsNew, AcceptedIsNew

(* accept() takes a connection out of the queue and gives it its thread.   *)
LEMMA HandOverMain ==
  ASSUME TypeInv, HandOver, MainThread, UNCHANGED clientVars
  PROVE  HandOver'
<1> USE DEF HandOver
<1>1. CASE Accept
  <2> DEFINE c == Head(backlog)
  <2>1. /\ backlog \in Seq(Clients) /\ backlog # <<>>
        /\ conn \in [Clients -> {"none", "open", "closed"}]
    BY <1>1 DEF Accept, TypeInv, TypeOK, LinkTypeOK
  <2>2. /\ c = backlog[1] /\ c \in Clients /\ 1 \in 1 .. Len(backlog)
        /\ Len(Tail(backlog)) = Len(backlog) - 1
        /\ \A k \in 1 .. Len(Tail(backlog)) :
             Tail(backlog)[k] = backlog[k + 1] /\ k + 1 \in 1 .. Len(backlog)
    BY <2>1
  <2>3. PICK e \in {"open", "closed"} : conn' = [conn EXCEPT ![c] = e]
    BY <1>1 DEF Accept
  <2>4. backlog' = Tail(backlog) /\ client' = c /\ UNCHANGED <<rpc, cpc>>
    BY <1>1 DEF Accept
  <2>5. QueuedOnce'
    BY <2>2, <2>4 DEF QueuedOnce
  <2>6. QueuedIsNew'
    <3>1. \A k \in 1 .. Len(Tail(backlog)) : Tail(backlog)[k] # c
      BY <2>2 DEF QueuedOnce
    <3>2. QED BY <2>1, <2>2, <2>3, <2>4, <3>1 DEF QueuedIsNew
  <2>7. UnstartedIsNew' /\ AcceptedIsNew'
    BY <2>1, <2>2, <2>3, <2>4 DEF UnstartedIsNew, AcceptedIsNew, QueuedIsNew
  <2>8. QED BY <2>5, <2>6, <2>7
<1>2. CASE AcceptPastTable
  BY <1>2 DEF AcceptPastTable, QueuedOnce, QueuedIsNew, UnstartedIsNew, AcceptedIsNew
<1>3. CASE StartReceiver
  <2>1. /\ rpc' = [rpc EXCEPT ![client] = "recv"] /\ mpc' = "count"
        /\ UNCHANGED <<backlog, conn, cpc>>
    BY <1>3 DEF StartReceiver
  <2>2. conn[client] # "none"
    BY <1>3 DEF StartReceiver, AcceptedIsNew
  <2>3. rpc \in [Clients -> {"none", "recv", "wait", "append", "release", "exited"}]
        /\ backlog \in Seq(Clients)
    BY DEF TypeInv, TypeOK, LinkTypeOK, ServerTypeOK
  <2>4. QueuedIsNew'
    BY <2>1, <2>2, <2>3 DEF QueuedIsNew
  <2>5. QED BY <2>1, <2>2, <2>3, <2>4 DEF QueuedOnce, UnstartedIsNew, AcceptedIsNew
<1>4. CASE CountHost
  BY <1>4 DEF CountHost, QueuedOnce, QueuedIsNew, UnstartedIsNew, AcceptedIsNew
<1>5. QED BY <1>1, <1>2, <1>3, <1>4 DEF MainThread

(* A receive thread changes neither the queue nor what is new.             *)
LEMMA HandOverReceive ==
  ASSUME TypeInv, HandOver, NEW c \in Clients, Receiver(c), UNCHANGED clientVars
  PROVE  HandOver'
<1>1. /\ rpc \in [Clients -> {"none", "recv", "wait", "append", "release", "exited"}]
      /\ conn \in [Clients -> {"none", "open", "closed"}]
      /\ backlog \in Seq(Clients)
  BY DEF TypeInv, TypeOK, LinkTypeOK, ServerTypeOK
<1>2. rpc[c] # "none" /\ UNCHANGED <<backlog, mpc, client, cpc>>
  BY DEF Receiver, Receive, ReceiveFails, ReceiverLocks, ReceiverTimesOut,
         AppendMessage, AppendPastBuffer, ReceiverUnlocks
<1>3. PICK p \in {"none", "recv", "wait", "append", "release", "exited"} :
        rpc' = [rpc EXCEPT ![c] = p]
  <2>1. \/ \E p \in {"recv", "wait", "append", "release", "exited"} :
             rpc' = [rpc EXCEPT ![c] = p]
        \/ UNCHANGED rpc
    BY DEF Receiver, Receive, ReceiveFails, ReceiverLocks, ReceiverTimesOut,
           AppendMessage, AppendPastBuffer, ReceiverUnlocks
  <2>2. rpc = [rpc EXCEPT ![c] = rpc[c]]
    BY <1>1
  <2>3. QED BY <1>1, <2>1, <2>2
<1>4. UNCHANGED conn \/ conn' = [conn EXCEPT ![c] = "closed"]
  BY DEF Receiver, Receive, ReceiveFails, ReceiverLocks, ReceiverTimesOut,
         AppendMessage, AppendPastBuffer, ReceiverUnlocks
<1>5. \A d \in Clients : rpc[d] = "none" => rpc'[d] = "none" /\ conn'[d] = conn[d]
  BY <1>1, <1>2, <1>3, <1>4
<1>6. \A d \in Clients : conn[d] # "none" => conn'[d] # "none"
  BY <1>1, <1>4
<1>7. QueuedOnce'
  BY <1>2 DEF HandOver, QueuedOnce
<1>8. QueuedIsNew'
  BY <1>1, <1>2, <1>5 DEF HandOver, QueuedIsNew
<1>9. UnstartedIsNew'
  BY <1>2, <1>5 DEF HandOver, UnstartedIsNew
<1>10. AcceptedIsNew'
  BY <1>2, <1>5, <1>6 DEF HandOver, AcceptedIsNew, TypeInv, PendingHost
<1>11. QED BY <1>7, <1>8, <1>9, <1>10 DEF HandOver

(* A client queues its connection once, when it starts.                    *)
LEMMA HandOverClient ==
  ASSUME TypeInv, HandOver, NEW c \in Clients, UNCHANGED serverVars,
         ClientConnects(c) \/ ClientSends(c) \/ ClientReceives(c) \/ ClientIsKilled(c)
  PROVE  HandOver'
<1>1. /\ cpc \in [Clients -> {"start", "send", "recv", "ended"}]
      /\ backlog \in Seq(Clients)
  BY DEF TypeInv, TypeOK, LinkTypeOK, ClientTypeOK
<1>2. CASE ClientConnects(c)
  <2>1. /\ backlog' = Append(backlog, c) /\ cpc[c] = "start"
        /\ cpc' = [cpc EXCEPT ![c] = "send"] /\ UNCHANGED <<conn, rpc, mpc, client>>
    BY <1>2 DEF ClientConnects, Connect
  <2>2. /\ Len(backlog') = Len(backlog) + 1 /\ backlog'[Len(backlog) + 1] = c
        /\ \A k \in 1 .. Len(backlog) : backlog'[k] = backlog[k] /\ backlog[k] \in Clients
    BY <1>1, <2>1
  <2>3. \A k \in 1 .. Len(backlog) : backlog[k] # c
    BY <2>1 DEF HandOver, QueuedIsNew
  <2>4. QueuedOnce'
    BY <1>1, <2>2, <2>3 DEF HandOver, QueuedOnce
  <2>5. QueuedIsNew'
    <3>1. conn[c] = "none" /\ rpc[c] = "none"
      BY <2>1 DEF HandOver, UnstartedIsNew
    <3>2. QED BY <1>1, <2>1, <2>2, <3>1 DEF HandOver, QueuedIsNew
  <2>6. UnstartedIsNew' /\ AcceptedIsNew'
    BY <1>1, <2>1 DEF HandOver, UnstartedIsNew, AcceptedIsNew
  <2>7. QED BY <2>4, <2>5, <2>6 DEF HandOver
<1>3. CASE ClientSends(c) \/ ClientReceives(c) \/ ClientIsKilled(c)
  <2>1. /\ UNCHANGED <<backlog, conn, rpc, mpc, client>>
        /\ \E p \in {"send", "recv", "ended"} : cpc' = [cpc EXCEPT ![c] = p]
    BY <1>3 DEF ClientSends, SendToServer, SendIsRefused, ClientReceives, ClientIsKilled, Disconnect
  <2>2. \A d \in Clients : cpc'[d] = "start" => cpc[d] = "start"
    BY <1>1, <2>1
  <2>3. QED BY <1>1, <2>1, <2>2
            DEF HandOver, QueuedOnce, QueuedIsNew, UnstartedIsNew, AcceptedIsNew
<1>4. QED BY <1>2, <1>3

(* A connection is queued once and accepted once, and gets one receive     *)
(* thread.                                                                 *)
THEOREM HandOverCorrect == Spec => []HandOver
<1>1. TypeInv /\ HandOver /\ [Next]_vars => HandOver'
  <2>1. ASSUME TypeInv, HandOver, Next PROVE HandOver'
    <3>1. ASSUME SendThread, UNCHANGED clientVars PROVE HandOver'
      <4>1. UNCHANGED <<backlog, conn, rpc, mpc, client, cpc>>
        BY <3>1 DEF SendThread, SenderLocks, SenderTimesOut, CopyBuffer, ClearBuffer,
                    SenderUnlocks, SendToHost, SendUpdate, SendDone
      <4>2. QED BY <2>1, <4>1 DEF HandOver, QueuedOnce, QueuedIsNew, UnstartedIsNew,
                                  AcceptedIsNew
    <3>2. QED BY <2>1, <3>1, StepOfAThread, HandOverMain, HandOverReceive, HandOverClient
  <2>2. ASSUME HandOver, UNCHANGED vars PROVE HandOver'
    BY <2>2 DEF HandOver, QueuedOnce, QueuedIsNew, UnstartedIsNew, AcceptedIsNew
  <2>3. QED BY <2>1, <2>2
<1>2. QED BY <1>1, HandOverInit, TypeCorrect, PTL DEF Spec

-------------------------------------------------------------------------------
(***************************************************************************)
(* Mutual exclusion.                                                       *)
(***************************************************************************)
(* hMutex is created without an owner.                                     *)
LEMMA MutexInit == Init => MutexDiscipline
BY ServerAssumption DEF Init, ServerInit, MutexDiscipline

(* The accepting thread never touches hMutex.                              *)
LEMMA MutexMain ==
  ASSUME TypeInv, HandOver, MutexDiscipline, MainThread
  PROVE  MutexDiscipline'
<1>1. CASE StartReceiver
  <2>1. /\ rpc' = [rpc EXCEPT ![client] = "recv"] /\ rpc[client] = "none"
        /\ UNCHANGED <<process, owner, spc>>
    BY <1>1 DEF StartReceiver, HandOver, AcceptedIsNew
  <2>2. rpc \in [Clients -> {"none", "recv", "wait", "append", "release", "exited"}]
    BY DEF TypeInv, TypeOK, ServerTypeOK
  <2>3. QED BY <2>1, <2>2 DEF MutexDiscipline
<1>2. CASE Accept \/ AcceptPastTable \/ CountHost
  <2>1. UNCHANGED <<owner, spc, rpc>> /\ process' # "exited"
    BY <1>2 DEF Accept, AcceptPastTable, CountHost
  <2>2. QED BY <2>1 DEF MutexDiscipline
<1>3. QED BY <1>1, <1>2 DEF MainThread

(* The send thread locks and unlocks in pairs.                             *)
LEMMA MutexSend ==
  ASSUME TypeInv, MutexDiscipline, SendThread
  PROVE  MutexDiscipline'
<1> USE ServerAssumption DEF MutexDiscipline
<1>1. CASE SenderLocks
  BY <1>1 DEF SenderLocks, Acquire
<1>2. CASE SenderTimesOut
  BY <1>2 DEF SenderTimesOut
<1>3. CASE CopyBuffer
  BY <1>3 DEF CopyBuffer
<1>4. CASE ClearBuffer
  BY <1>4 DEF ClearBuffer
<1>5. CASE SenderUnlocks
  BY <1>5 DEF SenderUnlocks, Release
<1>6. CASE SendToHost
  BY <1>6 DEF SendToHost
<1>7. CASE SendDone
  BY <1>7 DEF SendDone
<1>8. QED BY <1>1, <1>2, <1>3, <1>4, <1>5, <1>6, <1>7 DEF SendThread

(* A receive thread locks and unlocks in pairs, and returns unlocked only. *)
LEMMA MutexReceive ==
  ASSUME TypeInv, MutexDiscipline, NEW c \in Clients, Receiver(c)
  PROVE  MutexDiscipline'
<1>1. /\ rpc \in [Clients -> {"none", "recv", "wait", "append", "release", "exited"}]
      /\ Sender # NoThread
      /\ \A d \in Clients : d # NoThread /\ d # Sender
  BY ServerAssumption DEF TypeInv, TypeOK, ServerTypeOK
<1> USE DEF MutexDiscipline
<1>2. CASE Receive(c)
  BY <1>1, <1>2 DEF Receive
<1>3. CASE ReceiveFails(c)
  BY <1>1, <1>3 DEF ReceiveFails
<1>4. CASE ReceiverLocks(c)
  BY <1>1, <1>4 DEF ReceiverLocks, Acquire
<1>5. CASE ReceiverTimesOut(c)
  BY <1>1, <1>5 DEF ReceiverTimesOut
<1>6. CASE AppendMessage(c)
  BY <1>1, <1>6 DEF AppendMessage
<1>7. CASE AppendPastBuffer(c)
  BY <1>1, <1>7 DEF AppendPastBuffer
<1>8. CASE ReceiverUnlocks(c)
  BY <1>1, <1>8 DEF ReceiverUnlocks, Release
<1>9. QED BY <1>2, <1>3, <1>4, <1>5, <1>6, <1>7, <1>8 DEF Receiver

(* No two threads are between WaitForSingleObject and ReleaseMutex at the  *)
(* same time, ReleaseMutex is called by the owner only, and no thread ends *)
(* while it owns hMutex.                                                   *)
THEOREM MutexCorrect == Spec => []MutexDiscipline
<1>1. TypeInv /\ HandOver /\ MutexDiscipline /\ [Next]_vars => MutexDiscipline'
  <2>1. ASSUME TypeInv, HandOver, MutexDiscipline, Next PROVE MutexDiscipline'
    <3>1. UNCHANGED serverVars => MutexDiscipline'
      BY <2>1 DEF MutexDiscipline
    <3>2. QED BY <2>1, <3>1, StepOfAThread, MutexMain, MutexSend, MutexReceive
  <2>2. ASSUME MutexDiscipline, UNCHANGED vars PROVE MutexDiscipline'
    BY <2>2 DEF MutexDiscipline
  <2>3. QED BY <2>1, <2>2
<1>2. QED BY <1>1, MutexInit, TypeCorrect, HandOverCorrect, PTL DEF Spec

-------------------------------------------------------------------------------
(***************************************************************************)
(* The shared buffer.  BufferIsUnflushedTail is not inductive: while the   *)
(* send thread is between the two strcpy, tempBuf must still equal buf,    *)
(* and this holds because no receive thread owns the mutex then.           *)
(***************************************************************************)
CopyIsFresh == spc = "clear" => tempBuf = buf

BufferInv == BufferIsUnflushedTail /\ CopyIsFresh

(* The buffer is empty and nothing was appended.                           *)
LEMMA BufferInit == Init => BufferInv
BY DEF Init, ServerInit, BufferInv, BufferIsUnflushedTail, CopyIsFresh

(* strcat adds a message to the buffer and to the order alike.             *)
LEMMA BufferAppend ==
  ASSUME TypeInv, MutexDiscipline, BufferInv, NEW c \in Clients, AppendMessage(c)
  PROVE  BufferInv'
<1>1. /\ buf \in Seq(Message) /\ order \in Seq(Message) /\ flushed \in Nat
      /\ recBuf[c] \in Message
  BY DEF TypeInv, TypeOK, ServerTypeOK
<1>2. /\ buf' = Append(buf, recBuf[c]) /\ order' = Append(order, recBuf[c])
      /\ UNCHANGED <<flushed, spc>>
  BY DEF AppendMessage
<1>3. spc # "clear"
  BY ServerAssumption DEF AppendMessage, MutexDiscipline
<1>4. Len(order) = flushed + Len(buf)
  BY DEF BufferInv, BufferIsUnflushedTail
<1>5. /\ Len(buf') = Len(buf) + 1 /\ Len(order') = Len(order) + 1
      /\ buf'[Len(buf) + 1] = recBuf[c] /\ order'[Len(order) + 1] = recBuf[c]
      /\ \A p \in 1 .. Len(buf) : buf'[p] = buf[p]
      /\ \A p \in 1 .. Len(order) : order'[p] = order[p]
  BY <1>1, <1>2
<1>6. \A p \in 1 .. Len(buf) : buf[p] = order[flushed + p] /\ flushed + p \in 1 .. Len(order)
  BY <1>1, <1>4 DEF BufferInv, BufferIsUnflushedTail
<1>7. \A p \in 1 .. Len(buf') : buf'[p] = order'[flushed' + p]
  BY <1>1, <1>2, <1>4, <1>5, <1>6
<1>8. QED BY <1>1, <1>2, <1>3, <1>4, <1>5, <1>7 DEF BufferInv, BufferIsUnflushedTail, CopyIsFresh

(* The copy of the send thread is what its strcpy of "" takes away.        *)
LEMMA BufferSend ==
  ASSUME TypeInv, BufferInv, SendThread
  PROVE  BufferInv'
<1> USE DEF BufferInv, BufferIsUnflushedTail, CopyIsFresh
<1>1. CASE ClearBuffer
  <2>1. /\ buf' = <<>> /\ flushed' = flushed + Len(tempBuf) /\ tempBuf = buf
        /\ spc' # "clear" /\ UNCHANGED order
    BY <1>1 DEF ClearBuffer
  <2>2. buf \in Seq(Message) /\ flushed \in Nat /\ order \in Seq(Message)
    BY DEF TypeInv, TypeOK, ServerTypeOK
  <2>3. QED BY <2>1, <2>2
<1>2. CASE SendThread /\ ~ClearBuffer
  <2>1. UNCHANGED <<buf, flushed, order>> /\ (spc' = "clear" => tempBuf' = buf')
    BY <1>2 DEF SendThread, SenderLocks, SenderTimesOut, CopyBuffer, SenderUnlocks,
                SendToHost, SendDone
  <2>2. QED BY <2>1
<1>3. QED BY <1>1, <1>2

(* The buffer follows the order of messages, and so does the copy.         *)
LEMMA BufferInvCorrect == Spec => []BufferInv
<1>1. TypeInv /\ MutexDiscipline /\ BufferInv /\ [Next]_vars => BufferInv'
  <2>1. ASSUME TypeInv, MutexDiscipline, BufferInv, Next PROVE BufferInv'
    <3>1. ASSUME UNCHANGED <<buf, order, flushed, spc, tempBuf>> PROVE BufferInv'
      BY <2>1, <3>1 DEF BufferInv, BufferIsUnflushedTail, CopyIsFresh
    <3>2. MainThread => UNCHANGED <<buf, order, flushed, spc, tempBuf>>
      BY DEF MainThread, Accept, AcceptPastTable, StartReceiver, CountHost
    <3>3. \A c \in Clients : Receiver(c) => BufferInv'
      <4> TAKE c \in Clients
      <4>1. Receiver(c) => AppendMessage(c) \/ UNCHANGED <<buf, order, flushed, spc, tempBuf>>
        BY DEF Receiver, Receive, ReceiveFails, ReceiverLocks, ReceiverTimesOut,
               AppendPastBuffer, ReceiverUnlocks
      <4>2. QED BY <2>1, <3>1, <4>1, BufferAppend
    <3>4. QED BY <2>1, <3>1, <3>2, <3>3, StepOfAThread, BufferSend
  <2>2. ASSUME BufferInv, UNCHANGED vars PROVE BufferInv'
    BY <2>2 DEF BufferInv, BufferIsUnflushedTail, CopyIsFresh
  <2>3. QED BY <2>1, <2>2
<1>2. QED BY <1>1, BufferInit, TypeCorrect, MutexCorrect, PTL DEF Spec

(* The buffer is exactly the part of the order of messages that the send   *)
(* thread has not taken yet.                                               *)
THEOREM BufferCorrect == Spec => []BufferIsUnflushedTail
<1>1. BufferInv => BufferIsUnflushedTail
  BY DEF BufferInv
<1>2. QED BY <1>1, BufferInvCorrect, PTL

-------------------------------------------------------------------------------
(***************************************************************************)
(* The order of a client's messages.  A message is in the uplink, in the   *)
(* hands of the receive thread or appended; as long as the receive thread  *)
(* lives, the numbers of a client run without a gap through all three.     *)
(***************************************************************************)
InHand(c) == IF rpc[c] \in {"wait", "append"} THEN 1 ELSE 0

UplinkInOrder ==
  \A c \in Clients : rpc[c] # "exited" =>
    \A k \in 1 .. Len(uplink[c]) :
      uplink[c][k] = [from |-> c, n |-> appended[c] + InHand(c) + k - 1]

HandInOrder ==
  \A c \in Clients :
    rpc[c] \in {"wait", "append"} => recBuf[c] = [from |-> c, n |-> appended[c]]

CountInOrder ==
  \A c \in Clients :
    rpc[c] # "exited" /\ conn[c] # "closed" /\ cpc[c] # "ended"
      => count[c] = appended[c] + InHand(c) + Len(uplink[c])

PeerIsAlive == \A c \in Clients : peer[c] = "up" => cpc[c] # "ended"

WayInv == UplinkInOrder /\ HandInOrder /\ CountInOrder /\ PeerIsAlive

(* No client has sent anything.                                            *)
LEMMA WayInit == Init => WayInv /\ ClientOrder
BY DEF Init, LinkInit, ServerInit, ClientInit, WayInv, UplinkInOrder, HandInOrder,
       CountInOrder, PeerIsAlive, InHand, ClientOrder

(* The state of the way of c; a step that keeps it keeps the invariants.   *)
wayVars == <<rpc, uplink, appended, recBuf, conn, cpc, count, peer>>

(* Accepting a connection and starting its thread moves no message.        *)
LEMMA WayMain ==
  ASSUME TypeInv, HandOver, WayInv, MainThread, UNCHANGED clientVars
  PROVE  WayInv'
<1>1. CASE Accept
  <2> DEFINE c == Head(backlog)
  <2>1. UNCHANGED <<rpc, uplink, appended, recBuf, cpc, count, peer>>
    BY <1>1 DEF Accept
  <2>2. \A d \in Clients : conn'[d] # "closed" => conn[d] # "closed"
    <3>1. conn \in [Clients -> {"none", "open", "closed"}] /\ backlog \in Seq(Clients)
      BY DEF TypeInv, TypeOK, LinkTypeOK
    <3>2. c = backlog[1] /\ 1 \in 1 .. Len(backlog) /\ c \in Clients
      BY <1>1, <3>1 DEF Accept
    <3>3. conn[c] = "none"
      BY <3>2 DEF HandOver, QueuedIsNew
    <3>4. PICK e \in {"open", "closed"} : conn' = [conn EXCEPT ![c] = e]
      BY <1>1 DEF Accept
    <3>5. QED BY <3>1, <3>3, <3>4
  <2>3. QED BY <2>1, <2>2 DEF WayInv, UplinkInOrder, HandInOrder, CountInOrder, PeerIsAlive, InHand
<1>2. CASE AcceptPastTable \/ CountHost
  <2>1. UNCHANGED wayVars
    BY <1>2 DEF AcceptPastTable, CountHost, wayVars
  <2>2. QED BY <2>1 DEF wayVars, WayInv, UplinkInOrder, HandInOrder, CountInOrder, PeerIsAlive, InHand
<1>3. CASE StartReceiver
  <2>1. /\ rpc' = [rpc EXCEPT ![client] = "recv"] /\ rpc[client] = "none"
        /\ UNCHANGED <<uplink, appended, recBuf, conn, cpc, count, peer>>
    BY <1>3 DEF StartReceiver, HandOver, AcceptedIsNew
  <2>2. rpc \in [Clients -> {"none", "recv", "wait", "append", "release", "exited"}]
    BY DEF TypeInv, TypeOK, ServerTypeOK
  <2>3. \A d \in Clients : rpc'[d] = rpc[d] \/ (rpc[d] = "none" /\ rpc'[d] = "recv")
    BY <2>1, <2>2
  <2>4. QED BY <2>1, <2>3 DEF WayInv, UplinkInOrder, HandInOrder, CountInOrder, PeerIsAlive, InHand
<1>4. QED BY <1>1, <1>2, <1>3 DEF MainThread

(* A receive thread moves the oldest message on, or ends.                  *)
LEMMA WayReceive ==
  ASSUME TypeInv, WayInv, NEW c \in Clients, Receiver(c), UNCHANGED clientVars
  PROVE  WayInv'
<1>1. /\ rpc \in [Clients -> {"none", "recv", "wait", "append", "release", "exited"}]
      /\ uplink \in [Clients -> Seq(Message)]
      /\ appended \in [Clients -> Nat]
      /\ recBuf \in [Clients -> Message]
      /\ conn \in [Clients -> {"none", "open", "closed"}]
      /\ count \in [Clients -> Nat]
  BY DEF TypeInv, TypeOK, LinkTypeOK, ServerTypeOK, ClientTypeOK
<1>2. CASE Receive(c)
  <2>1. /\ rpc[c] = "recv" /\ rpc' = [rpc EXCEPT ![c] = "wait"]
        /\ uplink[c] # <<>> /\ uplink' = [uplink EXCEPT ![c] = Tail(uplink[c])]
        /\ recBuf' = [recBuf EXCEPT ![c] = Head(uplink[c])]
        /\ UNCHANGED <<appended, conn, cpc, count, peer>>
    BY <1>2 DEF Receive
  <2>2. /\ Len(Tail(uplink[c])) = Len(uplink[c]) - 1
        /\ Head(uplink[c]) = uplink[c][1] /\ 1 \in 1 .. Len(uplink[c])
        /\ \A k \in 1 .. Len(Tail(uplink[c])) :
             Tail(uplink[c])[k] = uplink[c][k + 1] /\ k + 1 \in 1 .. Len(uplink[c])
    BY <1>1, <2>1
  <2>3. \A k \in 1 .. Len(uplink[c]) :
          uplink[c][k] = [from |-> c, n |-> appended[c] + 0 + k - 1]
    BY <2>1 DEF WayInv, UplinkInOrder, InHand
  <2>4. uplink[c][1] = [from |-> c, n |-> appended[c]]
    <3>1. appended[c] + 0 + 1 - 1 = appended[c]
      BY <1>1
    <3>2. QED BY <2>2, <2>3, <3>1
  <2>5. \A k \in 1 .. Len(Tail(uplink[c])) :
          Tail(uplink[c])[k] = [from |-> c, n |-> appended[c] + 1 + k - 1]
    <3> TAKE k \in 1 .. Len(Tail(uplink[c]))
    <3>1. appended[c] + 0 + (k + 1) - 1 = appended[c] + 1 + k - 1
      BY <1>1
    <3>2. QED BY <2>2, <2>3, <3>1
  <2>6. UplinkInOrder'
    BY <1>1, <2>1, <2>5 DEF WayInv, UplinkInOrder, InHand
  <2>7. HandInOrder'
    BY <1>1, <2>1, <2>2, <2>4 DEF WayInv, HandInOrder
  <2>8. CountInOrder'
    BY <1>1, <2>1, <2>2 DEF WayInv, CountInOrder, InHand
  <2>9. PeerIsAlive'
    BY <2>1 DEF WayInv, PeerIsAlive
  <2>10. QED BY <2>6, <2>7, <2>8, <2>9 DEF WayInv
<1>3. CASE ReceiveFails(c) \/ ReceiverTimesOut(c)
  <2>1. /\ rpc' = [rpc EXCEPT ![c] = "exited"]
        /\ UNCHANGED <<uplink, appended, recBuf, cpc, count, peer>>
        /\ \A d \in Clients \ {c} : conn'[d] = conn[d]
    BY <1>1, <1>3 DEF ReceiveFails, ReceiverTimesOut
  <2>2. QED BY <1>1, <2>1 DEF WayInv, UplinkInOrder, HandInOrder, CountInOrder, PeerIsAlive, InHand
<1>4. CASE ReceiverLocks(c) \/ ReceiverUnlocks(c)
  <2>1. /\ \/ rpc[c] = "wait" /\ rpc' = [rpc EXCEPT ![c] = "append"]
           \/ rpc[c] = "release" /\ rpc' = [rpc EXCEPT ![c] = "recv"]
        /\ UNCHANGED <<uplink, appended, recBuf, conn, cpc, count, peer>>
    BY <1>4 DEF ReceiverLocks, ReceiverUnlocks
  <2>2. \A d \in Clients : InHand(d)' = InHand(d) /\ (rpc'[d] = "exited" <=> rpc[d] = "exited")
    BY <1>1, <2>1 DEF InHand
  <2>3. UplinkInOrder'
    BY <2>1, <2>2 DEF WayInv, UplinkInOrder
  <2>4. HandInOrder'
    BY <1>1, <2>1 DEF WayInv, HandInOrder
  <2>5. CountInOrder'
    BY <2>1, <2>2 DEF WayInv, CountInOrder
  <2>6. QED BY <2>1, <2>3, <2>4, <2>5 DEF WayInv, PeerIsAlive
<1>5. CASE AppendMessage(c)
  <2>1. /\ rpc[c] = "append" /\ rpc' = [rpc EXCEPT ![c] = "release"]
        /\ appended' = [appended EXCEPT ![c] = appended[c] + 1]
        /\ UNCHANGED <<uplink, recBuf, conn, cpc, count, peer>>
    BY <1>5 DEF AppendMessage
  <2>2. \A d \in Clients : appended'[d] + InHand(d)' = appended[d] + InHand(d)
    BY <1>1, <2>1 DEF InHand
  <2>3. \A d \in Clients : rpc'[d] = "exited" <=> rpc[d] = "exited"
    BY <1>1, <2>1
  <2>4. UplinkInOrder'
    BY <2>1, <2>2, <2>3 DEF WayInv, UplinkInOrder
  <2>5. HandInOrder'
    BY <1>1, <2>1 DEF WayInv, HandInOrder
  <2>6. CountInOrder'
    BY <2>1, <2>2, <2>3 DEF WayInv, CountInOrder
  <2>7. QED BY <2>1, <2>4, <2>5, <2>6 DEF WayInv, PeerIsAlive
<1>6. CASE AppendPastBuffer(c)
  BY <1>6 DEF AppendPastBuffer, WayInv, UplinkInOrder, HandInOrder, CountInOrder, PeerIsAlive, InHand
<1>7. QED BY <1>2, <1>3, <1>4, <1>5, <1>6 DEF Receiver

(* A client adds the next message at the end, or is killed.                *)
LEMMA WayClient ==
  ASSUME TypeInv, WayInv, NEW c \in Clients, UNCHANGED serverVars,
         ClientConnects(c) \/ ClientSends(c) \/ ClientReceives(c) \/ ClientIsKilled(c)
  PROVE  WayInv'
<1>1. /\ uplink \in [Clients -> Seq(Message)]
      /\ appended \in [Clients -> Nat]
      /\ count \in [Clients -> Nat]
      /\ cpc \in [Clients -> {"start", "send", "recv", "ended"}]
      /\ peer \in [Clients -> {"none", "up", "gone"}]
  BY DEF TypeInv, TypeOK, LinkTypeOK, ServerTypeOK, ClientTypeOK
<1>2. CASE ClientConnects(c)
  <2>1. /\ cpc[c] = "start" /\ cpc' = [cpc EXCEPT ![c] = "send"]
        /\ peer' = [peer EXCEPT ![c] = "up"]
        /\ UNCHANGED <<rpc, uplink, appended, recBuf, conn, count>>
    BY <1>2 DEF ClientConnects, Connect
  <2>2. QED BY <1>1, <2>1 DEF WayInv, UplinkInOrder, HandInOrder, CountInOrder, PeerIsAlive, InHand
<1>3. CASE ClientSends(c)
  <2> DEFINE m == [from |-> c, n |-> count[c]]
  <2>1. /\ cpc[c] = "send" /\ cpc' = [cpc EXCEPT ![c] = "recv"]
        /\ UNCHANGED <<rpc, appended, recBuf, conn, peer>>
    BY <1>3 DEF ClientSends, SendToServer, SendIsRefused
  <2>2. CASE SendIsRefused(c) /\ UNCHANGED count
    <3>1. UNCHANGED <<uplink, count>>
      BY <2>2 DEF SendIsRefused
    <3>2. QED BY <1>1, <2>1, <2>2, <3>1 DEF WayInv, UplinkInOrder, HandInOrder, CountInOrder, PeerIsAlive, InHand
  <2>3. CASE SendToServer(c, m) /\ count' = [count EXCEPT ![c] = @ + 1]
    <3>1. /\ uplink' = [uplink EXCEPT ![c] = Append(uplink[c], m)]
          /\ count' = [count EXCEPT ![c] = count[c] + 1]
          /\ conn[c] # "closed"
      BY <1>1, <2>3 DEF SendToServer
    <3>2. /\ Len(Append(uplink[c], m)) = Len(uplink[c]) + 1
          /\ Append(uplink[c], m)[Len(uplink[c]) + 1] = m
          /\ \A k \in 1 .. Len(uplink[c]) : Append(uplink[c], m)[k] = uplink[c][k]
      BY <1>1 DEF Message
    <3>3. rpc[c] # "exited" => count[c] = appended[c] + InHand(c) + Len(uplink[c])
      BY <2>1, <3>1 DEF WayInv, CountInOrder
    <3>4. rpc[c] # "exited" =>
            \A k \in 1 .. Len(uplink[c]) + 1 :
              Append(uplink[c], m)[k] = [from |-> c, n |-> appended[c] + InHand(c) + k - 1]
      BY <1>1, <3>2, <3>3 DEF WayInv, UplinkInOrder, InHand
    <3>5. UplinkInOrder'
      BY <1>1, <2>1, <3>1, <3>2, <3>4 DEF WayInv, UplinkInOrder, InHand
    <3>6. HandInOrder'
      BY <2>1 DEF WayInv, HandInOrder
    <3>7. CountInOrder'
      <4>1. \A d \in Clients :
              /\ InHand(d)' = InHand(d) /\ (d # c => Len(uplink'[d]) = Len(uplink[d]))
              /\ (d # c => count'[d] = count[d] /\ cpc'[d] = cpc[d])
        BY <1>1, <2>1, <3>1 DEF InHand
      <4>2. Len(uplink'[c]) = Len(uplink[c]) + 1 /\ count'[c] = count[c] + 1
        BY <1>1, <3>1, <3>2
      <4>3. appended[c] \in Nat /\ InHand(c) \in Nat /\ Len(uplink[c]) \in Nat
        BY <1>1 DEF InHand
      <4>4. rpc'[c] # "exited" => count'[c] = appended'[c] + InHand(c)' + Len(uplink'[c])
        <5>1. appended'[c] = appended[c] /\ InHand(c)' = InHand(c)
          BY <2>1, <4>1
        <5>2. SUFFICES ASSUME rpc'[c] # "exited"
                       PROVE  count'[c] = appended[c] + InHand(c) + (Len(uplink[c]) + 1)
          BY <2>1, <4>2, <5>1
        <5>3. count[c] = appended[c] + InHand(c) + Len(uplink[c])
          BY <2>1, <3>3, <5>2
        <5>4. count'[c] = count[c] + 1
          BY <4>2
        <5>5. count'[c] = (appended[c] + InHand(c) + Len(uplink[c])) + 1
          BY <5>3, <5>4
        <5>6. (appended[c] + InHand(c) + Len(uplink[c])) + 1
                = appended[c] + InHand(c) + (Len(uplink[c]) + 1)
          BY <4>3
        <5>7. QED BY <5>5, <5>6
      <4>5. ASSUME NEW d \in Clients, d # c,
                   rpc'[d] # "exited", conn'[d] # "closed", cpc'[d] # "ended"
            PROVE  count'[d] = appended'[d] + InHand(d)' + Len(uplink'[d])
        <5>1. count[d] = appended[d] + InHand(d) + Len(uplink[d])
          BY <2>1, <4>1, <4>5 DEF WayInv, CountInOrder
        <5>2. QED BY <2>1, <4>1, <4>5, <5>1
      <4>6. QED BY <2>1, <4>4, <4>5 DEF CountInOrder
    <3>8. PeerIsAlive'
      BY <1>1, <2>1 DEF WayInv, PeerIsAlive
    <3>9. QED BY <3>5, <3>6, <3>7, <3>8 DEF WayInv
  <2>4. QED BY <1>3, <2>2, <2>3 DEF ClientSends
<1>4. CASE ClientReceives(c)
  <2>1. /\ \E p \in {"send", "recv"} : cpc' = [cpc EXCEPT ![c] = p]
        /\ cpc[c] = "recv"
        /\ UNCHANGED <<rpc, uplink, appended, recBuf, conn, count, peer>>
    BY <1>4 DEF ClientReceives
  <2>2. QED BY <1>1, <2>1 DEF WayInv, UplinkInOrder, HandInOrder, CountInOrder, PeerIsAlive, InHand
<1>5. CASE ClientIsKilled(c)
  <2>1. /\ cpc' = [cpc EXCEPT ![c] = "ended"] /\ peer' = [peer EXCEPT ![c] = "gone"]
        /\ uplink' \in {uplink, [uplink EXCEPT ![c] = <<>>]}
        /\ UNCHANGED <<rpc, appended, recBuf, conn, count>>
    BY <1>5 DEF ClientIsKilled, Disconnect
  <2>2. \A d \in Clients : uplink'[d] = uplink[d] \/ (d = c /\ Len(uplink'[d]) = 0)
    BY <1>1, <2>1
  <2>3. UplinkInOrder'
    BY <1>1, <2>1, <2>2 DEF WayInv, UplinkInOrder, InHand
  <2>4. QED BY <1>1, <2>1, <2>2, <2>3 DEF WayInv, HandInOrder, CountInOrder, PeerIsAlive, InHand
<1>6. QED BY <1>2, <1>3, <1>4, <1>5

(* Only AppendMessage touches the order.                                   *)
LEMMA OrderStep ==
  ASSUME TypeInv, WayInv, ClientOrder, NEW c \in Clients, AppendMessage(c)
  PROVE  ClientOrder'
<1>1. order \in Seq(Message) /\ appended \in [Clients -> Nat]
  BY DEF TypeInv, TypeOK, ServerTypeOK
<1>2. /\ order' = Append(order, [from |-> c, n |-> appended[c]])
      /\ appended' = [appended EXCEPT ![c] = appended[c] + 1]
  BY DEF AppendMessage, WayInv, HandInOrder
<1> DEFINE m == [from |-> c, n |-> appended[c]]
<1>3. m \in Message /\ m.from = c /\ m.n = appended[c]
  BY <1>1 DEF Message
<1>4. /\ Len(order) \in Nat /\ DOMAIN order = 1 .. Len(order)
      /\ DOMAIN order' = 1 .. Len(order) + 1
      /\ order'[Len(order) + 1] = m
      /\ \A p \in 1 .. Len(order) : order'[p] = order[p] /\ order[p] \in Message
  <2> HIDE DEF m
  <2>1. order' = Append(order, m)
    BY <1>2 DEF m
  <2>2. QED BY <1>1, <1>3, <2>1
<1>5. \A d \in Clients : appended'[d] = IF d = c THEN appended[c] + 1 ELSE appended[d]
  BY <1>1, <1>2
<1> HIDE DEF m
<1>6. \A p, q \in DOMAIN order' :
        p < q /\ order'[p].from = order'[q].from => order'[p].n < order'[q].n
  <2> TAKE p, q \in DOMAIN order'
  <2> HAVE p < q /\ order'[p].from = order'[q].from
  <2>1. p \in 1 .. Len(order) /\ order'[p] = order[p]
    BY <1>4
  <2>2. CASE q \in 1 .. Len(order)
    BY <1>4, <2>1, <2>2 DEF ClientOrder
  <2>3. CASE q = Len(order) + 1
    <3>1. order[p].n < appended[order[p].from] /\ order[p].from = c
      BY <1>3, <1>4, <2>1, <2>3 DEF ClientOrder
    <3>2. QED BY <1>3, <1>4, <2>1, <2>3, <3>1
  <2>4. QED BY <1>4, <2>2, <2>3
<1>7. \A p \in DOMAIN order' : order'[p].n < appended'[order'[p].from]
  <2> TAKE p \in DOMAIN order'
  <2>1. CASE p \in 1 .. Len(order)
    <3>1. order'[p] = order[p] /\ order[p].from \in Clients /\ order[p].n \in Nat
      BY <1>4, <2>1 DEF Message
    <3>2. order[p].n < appended[order[p].from]
      BY <1>4, <2>1 DEF ClientOrder
    <3>3. QED BY <1>1, <1>5, <3>1, <3>2
  <2>2. CASE p = Len(order) + 1
    BY <1>1, <1>3, <1>4, <1>5, <2>2
  <2>3. QED BY <1>4, <2>1, <2>2
<1>8. \A d \in Clients : \A k \in 0 .. appended'[d] - 1 :
        \E p \in DOMAIN order' : order'[p] = [from |-> d, n |-> k]
  <2> TAKE d \in Clients
  <2> TAKE k \in 0 .. appended'[d] - 1
  <2>1. CASE d = c /\ k = appended[c]
    BY <1>4, <2>1 DEF m
  <2>2. CASE ~(d = c /\ k = appended[c])
    <3>1. k \in 0 .. appended[d] - 1
      BY <1>1, <1>5, <2>2
    <3>2. PICK p \in DOMAIN order : order[p] = [from |-> d, n |-> k]
      BY <3>1 DEF ClientOrder
    <3>3. QED BY <1>4, <3>2
  <2>3. QED BY <2>1, <2>2
<1>9. QED BY <1>6, <1>7, <1>8 DEF ClientOrder

(* What a client has sent and the server has not appended yet is underway  *)
(* in order, and what was appended precedes it.                            *)
THEOREM WayCorrect == Spec => [](WayInv /\ ClientOrder)
<1>1. TypeInv /\ HandOver /\ WayInv /\ ClientOrder /\ [Next]_vars => (WayInv /\ ClientOrder)'
  <2>1. ASSUME TypeInv, HandOver, WayInv, ClientOrder, Next PROVE (WayInv /\ ClientOrder)'
    <3>1. UNCHANGED <<order, appended>> => ClientOrder'
      BY <2>1 DEF ClientOrder
    <3>2. ASSUME MainThread, UNCHANGED clientVars PROVE (WayInv /\ ClientOrder)'
      <4>1. UNCHANGED <<order, appended>>
        BY <3>2 DEF MainThread, Accept, AcceptPastTable, StartReceiver, CountHost
      <4>2. QED BY <2>1, <3>1, <3>2, <4>1, WayMain
    <3>3. ASSUME SendThread, UNCHANGED clientVars PROVE (WayInv /\ ClientOrder)'
      <4>1. UNCHANGED <<wayVars, order>>
        BY <3>3 DEF SendThread, SenderLocks, SenderTimesOut, CopyBuffer, ClearBuffer,
                    SenderUnlocks, SendToHost, SendUpdate, SendDone, wayVars
      <4>2. WayInv'
        BY <2>1, <4>1 DEF wayVars, WayInv, UplinkInOrder, HandInOrder, CountInOrder,
                          PeerIsAlive, InHand
      <4>3. QED BY <3>1, <4>1, <4>2 DEF wayVars
    <3>4. ASSUME NEW c \in Clients, Receiver(c), UNCHANGED clientVars
          PROVE  (WayInv /\ ClientOrder)'
      <4>1. AppendMessage(c) \/ UNCHANGED <<order, appended>>
        BY <3>4 DEF Receiver, Receive, ReceiveFails, ReceiverLocks, ReceiverTimesOut,
                    AppendPastBuffer, ReceiverUnlocks
      <4>2. QED BY <2>1, <3>1, <3>4, <4>1, WayReceive, OrderStep
    <3>5. ASSUME NEW c \in Clients, UNCHANGED serverVars,
                 \/ ClientConnects(c) \/ ClientSends(c)
                 \/ ClientReceives(c) \/ ClientIsKilled(c)
          PROVE  (WayInv /\ ClientOrder)'
      BY <2>1, <3>1, <3>5, WayClient
    <3>6. QED BY <2>1, <3>2, <3>3, <3>4, <3>5, StepOfAThread
  <2>2. ASSUME WayInv, ClientOrder, UNCHANGED vars PROVE (WayInv /\ ClientOrder)'
    BY <2>2 DEF ClientOrder, WayInv, UplinkInOrder, HandInOrder, CountInOrder,
                PeerIsAlive, InHand
  <2>3. QED BY <2>1, <2>2
<1>2. QED BY <1>1, WayInit, TypeCorrect, HandOverCorrect, PTL DEF Spec

(* Each client's messages are appended in the order it sent them, without  *)
(* a gap and without a repetition.                                         *)
THEOREM OrderCorrect == Spec => []ClientOrder
BY WayCorrect, PTL

(* When the server closes the connection of a client that is still there,  *)
(* all it has read of that client is appended: what the connection took    *)
(* and is not, is what was still in flight.                                *)
THEOREM CloseCorrect == Spec => CloseLosesOnlyUnread
<1> DEFINE Drained(c) == conn[c] = "open" /\ conn'[c] = "closed" /\ peer[c] = "up"
                           => appended[c] + Len(uplink[c]) = count[c]
<1>1. ASSUME TypeInv, HandOver, WayInv, Next PROVE \A c \in Clients : Drained(c)
  <2>1. conn \in [Clients -> {"none", "open", "closed"}]
    BY <1>1 DEF TypeInv, TypeOK, LinkTypeOK
  <2>2. ASSUME Accept PROVE \A c \in Clients : Drained(c)
    <3>1. backlog \in Seq(Clients) /\ backlog # <<>>
      BY <1>1, <2>2 DEF Accept, TypeInv, TypeOK, LinkTypeOK
    <3>2. conn[Head(backlog)] = "none"
      BY <1>1, <3>1 DEF HandOver, QueuedIsNew
    <3>3. \A c \in Clients : c # Head(backlog) => conn'[c] = conn[c]
      BY <2>1, <2>2 DEF Accept
    <3>4. QED BY <3>2, <3>3
  <2>3. ASSUME NEW d \in Clients, ReceiveFails(d) PROVE \A c \in Clients : Drained(c)
    <3>1. /\ rpc[d] = "recv"
          /\ \A c \in Clients : c # d => conn'[c] = conn[c]
      BY <2>1, <2>3 DEF ReceiveFails
    <3>2. appended[d] \in Nat
      BY <1>1 DEF TypeInv, TypeOK, ServerTypeOK
    <3>3. conn[d] = "open" /\ peer[d] = "up" => count[d] = appended[d] + Len(uplink[d])
      BY <1>1, <3>1, <3>2 DEF WayInv, CountInOrder, PeerIsAlive, InHand
    <3>4. QED BY <3>1, <3>3
  <2>4. \/ Accept \/ \E d \in Clients : ReceiveFails(d)
        \/ UNCHANGED conn
    BY <1>1, ClientAssumption
       DEF Next, AcceptPastTable, StartReceiver, CountHost, SenderLocks, SenderTimesOut,
           CopyBuffer, ClearBuffer, SenderUnlocks, SendToHost, SendUpdate, SendDone,
           Receive, ReceiverLocks, ReceiverTimesOut, AppendMessage, AppendPastBuffer,
           ReceiverUnlocks, ClientConnects, Connect, ClientSends, SendToServer,
           SendIsRefused, ClientReceives, ClientIsKilled, Disconnect
  <2>5. QED BY <2>2, <2>3, <2>4
<1>2. TypeInv /\ HandOver /\ WayInv /\ [Next]_vars => [\A c \in Clients : Drained(c)]_vars
  BY <1>1
<1>3. QED BY <1>2, TypeCorrect, HandOverCorrect, WayCorrect, PTL
          DEF Spec, CloseLosesOnlyUnread

-------------------------------------------------------------------------------
(***************************************************************************)
(* The refinement.  strcat is the step that puts a message, strcpy of ""   *)
(* the step that takes all; every other step leaves the queue alone.       *)
(***************************************************************************)

(* strcat puts the next message of its client.                             *)
LEMMA QueuePut ==
  ASSUME TypeInv, WayInv, NEW c \in Clients, AppendMessage(c)
  PROVE  Queue!Put(c)
<1>1. recBuf[c] = [from |-> c, n |-> appended[c]]
  BY DEF AppendMessage, WayInv, HandInOrder
<1>2. QED BY <1>1 DEF AppendMessage, Queue!Put

(* strcpy of "" takes all that was put, since the copy is fresh.           *)
LEMMA QueueTakeAll ==
  ASSUME TypeInv, BufferInv, ClearBuffer
  PROVE  Queue!TakeAll
<1>1. flushed' = flushed + Len(buf) /\ UNCHANGED <<order, appended>>
  BY DEF ClearBuffer, BufferInv, CopyIsFresh
<1>2. Len(order) = flushed + Len(buf)
  BY DEF BufferInv, BufferIsUnflushedTail
<1>3. QED BY <1>1, <1>2 DEF Queue!TakeAll

(* No other step puts or takes.                                            *)
LEMMA QueueStutter ==
  ASSUME Next, ~ClearBuffer, \A c \in Clients : ~AppendMessage(c)
  PROVE  UNCHANGED <<order, appended, flushed>>
BY ClientAssumption
   DEF Next, Accept, AcceptPastTable, StartReceiver, CountHost, SenderLocks, SenderTimesOut,
       CopyBuffer, SenderUnlocks, SendToHost, SendDone, Receive, ReceiveFails, ReceiverLocks,
       ReceiverTimesOut, AppendPastBuffer, ReceiverUnlocks

(* The buffer that all threads share, with its mutex, implements a queue   *)
(* that takes the messages of each client in order and gives all it has.   *)
THEOREM QueueCorrect == Spec => ImplementsQueue
<1>1. Init => Queue!QueueInit
  BY DEF Init, ServerInit, Queue!QueueInit
<1>2. ASSUME TypeInv, WayInv, BufferInv, [Next]_vars
      PROVE  [Queue!QueueNext]_Queue!queueVars
  <2>1. CASE \E c \in Clients : AppendMessage(c)
    BY <1>2, <2>1, QueuePut DEF Queue!QueueNext
  <2>2. CASE ClearBuffer
    BY <1>2, <2>2, QueueTakeAll DEF Queue!QueueNext
  <2>3. CASE Next /\ ~ClearBuffer /\ \A c \in Clients : ~AppendMessage(c)
    BY <2>3, QueueStutter DEF Queue!queueVars
  <2>4. CASE UNCHANGED vars
    BY <2>4 DEF Queue!queueVars
  <2>5. QED BY <1>2, <2>1, <2>2, <2>3, <2>4
<1>3. QED BY <1>1, <1>2, TypeCorrect, WayCorrect, BufferInvCorrect, PTL
          DEF Spec, ImplementsQueue, Queue!QueueSpec
===============================================================================
