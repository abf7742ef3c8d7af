------------------------------ MODULE BoidsProofs ------------------------------
(***************************************************************************)
(* Theorems about BoidsSession, for every capacity of a socket, every      *)
(* number of launches and failures, and whichever peers may leave.         *)
(***************************************************************************)
EXTENDS BoidsSession, SequenceTheorems, TLAPS

USE DEF vars, netVars, gameVars, threadUnchanged, Peers, Other

-------------------------------------------------------------------------------
(***************************************************************************)
(* Types.  One lemma per operation of the DLL, which the steps of the game *)
(* thread and of the receive thread cite.                                  *)
(***************************************************************************)
FlockDatagram == [kind : Messages, from : {"open", "closed"}]

LEMMA FunctionIsSeq ==
  ASSUME NEW S, NEW n \in Nat, NEW f \in [1 .. n -> S]
  PROVE  f \in Seq(S) /\ Len(f) = n
OBVIOUS

(* Taking a datagram out of a socket leaves one less.                      *)
LEMMA RemoveAtType ==
  ASSUME NEW S, NEW s \in Seq(S), NEW d \in 1 .. Len(s)
  PROVE  RemoveAt(s, d) \in Seq(S) /\ Len(RemoveAt(s, d)) = Len(s) - 1
<1> DEFINE a == SubSeq(s, 1, d - 1)
           b == SubSeq(s, d + 1, Len(s))
<1>1. a \in Seq(S) /\ Len(a) = d - 1 /\ b \in Seq(S) /\ Len(b) = Len(s) - d
  OBVIOUS
<1>2. RemoveAt(s, d) = a \o b
  BY DEF RemoveAt
<1> HIDE DEF a, b
<1>3. a \o b \in Seq(S) /\ Len(a \o b) = Len(a) + Len(b)
  BY <1>1, ConcatProperties
<1>4. QED BY <1>1, <1>2, <1>3

(* A send puts at most one datagram into the other socket, if it fits.     *)
LEMMA DeliverType ==
  ASSUME NetTypeOK, NEW p \in Peers, NEW kind \in Messages, Deliver(p, kind)
  PROVE  /\ inbox' \in [Peers -> Seq(FlockDatagram)]
         /\ \A q \in Peers : Len(inbox'[q]) <= Capacity
         /\ reset' \in [Peers -> BOOLEAN]
<1> DEFINE d == [kind |-> kind, from |-> "open"]
           more == Append(inbox[Other(p)], d)
<1>1. inbox \in [Peers -> Seq(FlockDatagram)] /\ d \in FlockDatagram
  BY DEF NetTypeOK, FlockDatagram
<1>2. more \in Seq(FlockDatagram) /\ Len(more) = Len(inbox[Other(p)]) + 1
  BY <1>1
<1>3. inbox' \in [Peers -> Seq(FlockDatagram)] /\ reset' \in [Peers -> BOOLEAN]
  <2>1. CASE inbox' = inbox
    BY <1>1, <2>1 DEF Deliver, NetTypeOK
  <2>2. CASE inbox' # inbox
    <3>1. inbox' = [inbox EXCEPT ![Other(p)] =
                      IF Len(@) < Capacity THEN more ELSE @] /\ reset' = reset
      BY <2>2 DEF Deliver
    <3>2. QED BY <1>1, <1>2, <3>1 DEF NetTypeOK
  <2>3. QED BY <2>1, <2>2
<1>4. \A q \in Peers : Len(inbox'[q]) <= Capacity
  <2>1. CASE inbox' = inbox
    BY <2>1 DEF NetTypeOK
  <2>2. CASE inbox' # inbox
    <3>1. inbox' = [inbox EXCEPT ![Other(p)] =
                      IF Len(@) < Capacity THEN more ELSE @]
      BY <2>2 DEF Deliver
    <3>2. Len(inbox[Other(p)]) \in Nat
      BY <1>1
    <3>3. QED BY <1>1, <1>2, <3>1, <3>2, PeerAssumption DEF NetTypeOK
  <2>3. QED BY <2>1, <2>2
<1>5. QED BY <1>3, <1>4

(* Closing a socket empties it and marks what came from it.                *)
LEMMA CloseSocketType ==
  ASSUME NetTypeOK, NEW p \in Peers, CloseSocket(p)
  PROVE  /\ sock' \in [Peers -> {"none", "good", "bad"}]
         /\ inbox' \in [Peers -> Seq(FlockDatagram)]
         /\ \A q \in Peers : Len(inbox'[q]) <= Capacity
         /\ reset' \in [Peers -> BOOLEAN]
<1> USE PeerAssumption DEF NetTypeOK
<1>1. sock' \in [Peers -> {"none", "good", "bad"}] /\ reset' \in [Peers -> BOOLEAN]
  BY DEF CloseSocket
<1>2. CASE p = Server
  BY <1>2 DEF CloseSocket, FlockDatagram
<1>3. CASE p # Server
  <2> DEFINE marked(q) == [k \in DOMAIN inbox[q] |-> [inbox[q][k] EXCEPT !.from = "closed"]]
  <2>1. ASSUME NEW q \in Peers
        PROVE  marked(q) \in Seq(FlockDatagram) /\ Len(marked(q)) = Len(inbox[q])
    <3>1. inbox[q] \in Seq(FlockDatagram)
      BY DEF FlockDatagram
    <3>2. DOMAIN inbox[q] = 1 .. Len(inbox[q]) /\ Len(inbox[q]) \in Nat
      BY <3>1
    <3>3. ASSUME NEW k \in DOMAIN inbox[q]
          PROVE  [inbox[q][k] EXCEPT !.from = "closed"] \in FlockDatagram
      <4>1. inbox[q][k] \in FlockDatagram
        BY <3>1, <3>2
      <4>2. QED BY <4>1 DEF FlockDatagram
    <3>4. marked(q) \in [1 .. Len(inbox[q]) -> FlockDatagram]
      BY <3>2, <3>3
    <3> HIDE DEF marked
    <3>5. QED BY <3>2, <3>4, FunctionIsSeq
  <2>2. inbox' = [q \in Peers |-> IF q = Client THEN <<>> ELSE marked(q)]
    BY <1>3 DEF CloseSocket
  <2>3. QED BY <1>1, <2>1, <2>2
<1>4. QED BY <1>1, <1>2, <1>3

(* initialize() leaves an instance whose fields have their types, whether  *)
(* or not its calls fail.                                                  *)
LEMMA InitializeType ==
  ASSUME NetTypeOK, NEW p \in Peers, NEW ok \in BOOLEAN, Initialize(p, ok)
  PROVE  NetTypeOK'
<1>1. /\ inbox' \in [Peers -> Seq(FlockDatagram)]
      /\ \A q \in Peers : Len(inbox'[q]) <= Capacity
      /\ reset' \in [Peers -> BOOLEAN]
  <2>1. CASE Deliver(p, "connect")
    BY <2>1, DeliverType DEF Messages
  <2>2. CASE UNCHANGED <<inbox, reset>>
    BY <2>2 DEF NetTypeOK, FlockDatagram
  <2>3. QED BY <2>1, <2>2 DEF Initialize, OpenSocket
<1>2. /\ sock' \in [Peers -> {"none", "good", "bad"}]
      /\ thread' \in [Peers -> {"none", "loop", "store", "exited"}]
      /\ running' \in [Peers -> BOOLEAN]
      /\ hasError' \in [Peers -> BOOLEAN]
      /\ connected' \in BOOLEAN /\ (connected' => connected)
      /\ UNCHANGED <<sender, incoming, received, newReceived>>
  BY DEF Initialize, OpenSocket, NetTypeOK
<1>3. QED BY <1>1, <1>2 DEF NetTypeOK, FlockDatagram

(* cleanUp() and the end of the process.                                   *)
LEMMA ClosingType ==
  ASSUME NetTypeOK, NEW p \in Peers, JoinAndClose(p) \/ ProcessEnds(p)
  PROVE  NetTypeOK'
<1>1. CloseSocket(p)
  BY DEF JoinAndClose, ProcessEnds
<1>2. /\ sock' \in [Peers -> {"none", "good", "bad"}]
      /\ inbox' \in [Peers -> Seq(FlockDatagram)]
      /\ \A q \in Peers : Len(inbox'[q]) <= Capacity
      /\ reset' \in [Peers -> BOOLEAN]
  BY <1>1, CloseSocketType
<1>3. /\ sender' \in {"none", "open", "closed"}
      /\ connected' \in BOOLEAN
      /\ connected' => sender' # "none"
  BY PeerAssumption DEF JoinAndClose, ProcessEnds, SenderWithout, NetTypeOK
<1>4. /\ thread' \in [Peers -> {"none", "loop", "store", "exited"}]
      /\ running' \in [Peers -> BOOLEAN]
      /\ incoming' \in [Peers -> Messages]
      /\ received' \in [Peers -> Messages]
      /\ newReceived' \in [Peers -> BOOLEAN]
      /\ hasError' \in [Peers -> BOOLEAN]
  <2>1. CASE JoinAndClose(p)
    BY <2>1 DEF JoinAndClose, NetTypeOK
  <2>2. CASE ProcessEnds(p)
    BY <2>2 DEF ProcessEnds, NetTypeOK, Messages
  <2>3. QED BY <2>1, <2>2
<1>5. QED BY <1>2, <1>3, <1>4 DEF NetTypeOK, FlockDatagram

(* The receive thread takes a datagram that is there.                      *)
LEMMA TakeDatagramType ==
  ASSUME NetTypeOK, NEW p \in Peers, NEW d \in 1 .. Capacity, TakeDatagram(p, d)
  PROVE  /\ inbox[p][d] \in FlockDatagram
         /\ inbox' \in [Peers -> Seq(FlockDatagram)]
         /\ \A q \in Peers : Len(inbox'[q]) <= Capacity
         /\ sender' = IF p = Server THEN inbox[p][d].from ELSE sender
<1>1. inbox \in [Peers -> Seq(FlockDatagram)]
  BY DEF NetTypeOK, FlockDatagram
<1>2. d \in 1 .. Len(inbox[p]) /\ Len(inbox[p]) \in Nat
  BY <1>1 DEF TakeDatagram
<1>3. /\ RemoveAt(inbox[p], d) \in Seq(FlockDatagram)
      /\ Len(RemoveAt(inbox[p], d)) = Len(inbox[p]) - 1
  BY <1>1, <1>2, RemoveAtType
<1>4. inbox' = [inbox EXCEPT ![p] = RemoveAt(@, d)]
  BY DEF TakeDatagram
<1>5. inbox' \in [Peers -> Seq(FlockDatagram)]
  BY <1>1, <1>3, <1>4
<1>6. \A q \in Peers : Len(inbox'[q]) <= Capacity
  BY <1>1, <1>2, <1>3, <1>4, PeerAssumption DEF NetTypeOK
<1>7. QED BY <1>1, <1>2, <1>5, <1>6 DEF TakeDatagram

(* Every step of the receive thread.                                       *)
LEMMA ReceiveThreadType ==
  ASSUME NetTypeOK, NEW p \in Peers, ReceiveThread(p)
  PROVE  NetTypeOK'
<1>1. CASE ReceiveFirst(p)
  <2>1. PICK d \in 1 .. Capacity : TakeDatagram(p, d)
    BY <1>1 DEF ReceiveFirst
  <2>2. /\ inbox' \in [Peers -> Seq(FlockDatagram)]
        /\ \A q \in Peers : Len(inbox'[q]) <= Capacity
        /\ sender' \in {"open", "closed"}
    BY <1>1, <2>1, TakeDatagramType DEF ReceiveFirst, FlockDatagram
  <2>3. QED BY <1>1, <2>2 DEF ReceiveFirst, NetTypeOK, FlockDatagram
<1>2. CASE Receive(p)
  <2>1. PICK d \in 1 .. Capacity :
               TakeDatagram(p, d) /\ incoming' = [incoming EXCEPT ![p] = inbox[p][d].kind]
    BY <1>2 DEF Receive
  <2>2. /\ inbox' \in [Peers -> Seq(FlockDatagram)]
        /\ \A q \in Peers : Len(inbox'[q]) <= Capacity
        /\ inbox[p][d] \in FlockDatagram
        /\ sender' = IF p = Server THEN inbox[p][d].from ELSE sender
    BY <2>1, TakeDatagramType
  <2>3. incoming' \in [Peers -> Messages] /\ sender' \in {sender, "open", "closed"}
    BY <2>1, <2>2 DEF NetTypeOK, FlockDatagram
  <2>4. QED BY <1>2, <2>2, <2>3 DEF Receive, NetTypeOK, FlockDatagram
<1>3. CASE Store(p)
  BY <1>3 DEF Store, NetTypeOK, Messages
<1>4. CASE ReceiveFails(p)
  BY <1>4 DEF ReceiveFails, NetTypeOK
<1>5. CASE StopReceiving(p)
  BY <1>5 DEF StopReceiving, NetTypeOK
<1>6. QED BY <1>1, <1>2, <1>3, <1>4, <1>5 DEF ReceiveThread

LEMMA EndProcessType ==
  ASSUME TypeOK, NEW p \in Peers, EndProcess(p)
  PROVE  TypeOK'
<1>1. NetTypeOK'
  BY ClosingType DEF EndProcess, TypeOK
<1>2. GameTypeOK'
  BY DEF EndProcess, TypeOK, GameTypeOK, Messages
<1>3. QED BY <1>1, <1>2 DEF TypeOK

LEMMA TypeStep == TypeOK /\ [Next]_vars => TypeOK'
<1> SUFFICES ASSUME TypeOK, [Next]_vars PROVE TypeOK'
  OBVIOUS
<1> USE GameAssumption
<1>1. ASSUME NEW p \in Peers, Launch(p) PROVE TypeOK'
  BY <1>1 DEF Launch, GoTo, TypeOK, GameTypeOK, NetTypeOK
<1>2. ASSUME NEW p \in Peers, Quit(p) PROVE TypeOK'
  BY <1>2 DEF Quit, GoTo, TypeOK, GameTypeOK, NetTypeOK
<1>3. ASSUME NEW p \in Peers, IsKilled(p) PROVE TypeOK'
  BY <1>3, EndProcessType DEF IsKilled
<1>4. ASSUME NEW p \in Peers, CallInitialize(p) PROVE TypeOK'
  <2>1. NetTypeOK'
    BY <1>4, InitializeType DEF CallInitialize, TypeOK
  <2>2. QED BY <1>4, <2>1 DEF CallInitialize, TypeOK, GameTypeOK
<1>5. ASSUME NEW p \in Peers, CallInitializeFails(p) PROVE TypeOK'
  <2>1. NetTypeOK'
    BY <1>5, InitializeType DEF CallInitializeFails, TypeOK
  <2>2. QED BY <1>5, <2>1 DEF CallInitializeFails, TypeOK, GameTypeOK
<1>6. ASSUME NEW p \in Peers, InitHasFailed(p) PROVE TypeOK'
  BY <1>6 DEF InitHasFailed, GoTo, TypeOK, GameTypeOK, NetTypeOK
<1>7. ASSUME NEW p \in Peers, InitHasSucceeded(p) PROVE TypeOK'
  BY <1>7 DEF InitHasSucceeded, GoTo, TypeOK, GameTypeOK, NetTypeOK
<1>8. ASSUME NEW p \in Peers, CleanUp(p) PROVE TypeOK'
  BY <1>8 DEF CleanUp, GoTo, TypeOK, GameTypeOK, NetTypeOK
<1>9. ASSUME NEW p \in Peers, CleanUpReturns(p) PROVE TypeOK'
  <2>1. NetTypeOK'
    BY <1>9, ClosingType DEF CleanUpReturns, TypeOK
  <2>2. QED BY <1>9, <2>1 DEF CleanUpReturns, GoTo, TypeOK, GameTypeOK
<1>10. ASSUME NEW p \in Peers, QuitReturns(p) PROVE TypeOK'
  BY <1>10, EndProcessType DEF QuitReturns
<1>11. ASSUME NEW p \in Peers, ReadNew(p) PROVE TypeOK'
  BY <1>11 DEF ReadNew, GoTo, TypeOK, GameTypeOK, NetTypeOK
<1>12. ASSUME NEW p \in Peers, ClearNew(p) PROVE TypeOK'
  BY <1>12 DEF ClearNew, GoTo, TypeOK, GameTypeOK, NetTypeOK
<1>13. ASSUME NEW p \in Peers, Parse(p) PROVE TypeOK'
  <2>1. LastReceived(p) \subseteq Messages \cup {"torn"}
    BY DEF LastReceived, TypeOK, NetTypeOK
  <2>2. QED BY <1>13, <2>1 DEF Parse, GoTo, TypeOK, GameTypeOK, NetTypeOK
<1>14. ASSUME NEW p \in Peers, SendFlock(p) PROVE TypeOK'
  <2>1. /\ inbox' \in [Peers -> Seq(FlockDatagram)]
        /\ \A q \in Peers : Len(inbox'[q]) <= Capacity
        /\ reset' \in [Peers -> BOOLEAN]
    BY <1>14, DeliverType DEF SendFlock, TypeOK, Messages
  <2>2. QED BY <1>14, <2>1 DEF SendFlock, GoTo, TypeOK, GameTypeOK, NetTypeOK, FlockDatagram
<1>15. ASSUME NEW p \in Peers, SendFlockInVain(p) PROVE TypeOK'
  <2>1. NetTypeOK'
    BY <1>15 DEF SendFlockInVain, TypeOK, NetTypeOK
  <2>2. GameTypeOK'
    BY <1>15 DEF SendFlockInVain, GoTo, TypeOK, GameTypeOK
  <2>3. QED BY <2>1, <2>2 DEF TypeOK
<1>16. ASSUME NEW p \in Peers, ReceiveThread(p), UNCHANGED gameVars PROVE TypeOK'
  <2>1. NetTypeOK'
    BY <1>16, ReceiveThreadType DEF TypeOK
  <2>2. QED BY <1>16, <2>1 DEF TypeOK, GameTypeOK
<1>17. CASE UNCHANGED vars
  BY <1>17 DEF TypeOK, GameTypeOK, NetTypeOK
<1>18. QED
  BY <1>1, <1>2, <1>3, <1>4, <1>5, <1>6, <1>7, <1>8, <1>9, <1>10, <1>11, <1>12,
     <1>13, <1>14, <1>15, <1>16, <1>17 DEF Next, ReceiveThread

(* No field of the instances and of the game leaves its type, and a server *)
(* that has had a datagram has an address to send to.                      *)
THEOREM TypeCorrect == Spec => []TypeOK
<1>1. Init => TypeOK
  <2> SUFFICES ASSUME Init PROVE TypeOK
    OBVIOUS
  <2>1. inbox \in [Peers -> Seq([kind : Messages, from : {"open", "closed"}])]
        /\ \A p \in Peers : Len(inbox[p]) <= Capacity
    BY PeerAssumption DEF Init, NetInit
  <2>2. NetTypeOK
    BY <2>1 DEF Init, NetInit, NetTypeOK, Messages
  <2>3. GameTypeOK
    BY GameAssumption DEF Init, GameInit, GameTypeOK, Messages
  <2>4. QED BY <2>2, <2>3 DEF TypeOK
<1>2. QED BY <1>1, TypeStep, PTL DEF Spec

-------------------------------------------------------------------------------
(***************************************************************************)
(* The discipline of the receive thread and the socket.                    *)
(*                                                                         *)
(* ThreadDiscipline alone is not inductive: that an attempt which succeeds *)
(* has a usable socket rests on the error initialize() leaves when it has  *)
(* none, and that the thread ends only in cleanUp() on the flag being set  *)
(* in every other state that has a thread.                                 *)
(***************************************************************************)
DisciplineInv(p) ==
  /\ BeforeInitialize(p) => thread[p] = "none" /\ sock[p] = "none"
  /\ game[p] \in {"off", "init", "check"} => ~initialized[p]
  /\ game[p] \in {"clear", "parse", "flock"} => initialized[p]
  /\ game[p] = "check" => running[p] /\ (sock[p] = "good" \/ hasError[p])
  /\ game[p] \in {"check", "clean", "join"} \/ initialized[p] => thread[p] # "none"
  /\ initialized[p] /\ game[p] # "join" => sock[p] = "good" /\ running[p]
  /\ game[p] = "clean" => running[p]
  /\ thread[p] = "exited" => game[p] = "join"

(* What the discipline of a peer reads.                                    *)
disciplined(p) == <<game[p], initialized[p], thread[p], sock[p], running[p], hasError[p]>>

LEMMA DisciplineKept ==
  ASSUME NEW q, DisciplineInv(q), UNCHANGED disciplined(q)
  PROVE  DisciplineInv(q)'
BY DEF DisciplineInv, BeforeInitialize, disciplined

LEMMA DisciplineStep ==
  TypeOK /\ (\A q \in Peers : DisciplineInv(q)) /\ [Next]_vars
    => (\A q \in Peers : DisciplineInv(q))'
<1> SUFFICES ASSUME TypeOK, \A q \in Peers : DisciplineInv(q), [Next]_vars,
                    NEW q \in Peers
             PROVE  DisciplineInv(q)'
  OBVIOUS
<1> USE DEF TypeOK, NetTypeOK, GameTypeOK
<1>1. ASSUME NEW p \in Peers, Launch(p) PROVE DisciplineInv(q)'
  BY <1>1 DEF Launch, GoTo, DisciplineInv, BeforeInitialize
<1>2. ASSUME NEW p \in Peers, Quit(p) PROVE DisciplineInv(q)'
  BY <1>2 DEF Quit, GoTo, DisciplineInv, BeforeInitialize
<1>3. ASSUME NEW p \in Peers, EndProcess(p) PROVE DisciplineInv(q)'
  <2>1. CASE q = p
    BY <1>3, <2>1 DEF EndProcess, ProcessEnds, CloseSocket, DisciplineInv, BeforeInitialize
  <2>2. CASE q # p
    <3>1. UNCHANGED disciplined(q)
      BY <1>3, <2>2 DEF EndProcess, ProcessEnds, CloseSocket, disciplined
    <3>2. QED BY <3>1, DisciplineKept
  <2>3. QED BY <2>1, <2>2
<1>4. ASSUME NEW p \in Peers, NEW ok \in BOOLEAN, Initialize(p, ok), BeforeInitialize(p),
             game[p] \in {"init", "frame"}, game' = [game EXCEPT ![p] = "check"],
             UNCHANGED initialized
      PROVE  DisciplineInv(q)'
  <2>1. CASE q = p
    BY <1>4, <2>1 DEF Initialize, OpenSocket, DisciplineInv, BeforeInitialize
  <2>2. CASE q # p
    <3>1. UNCHANGED disciplined(q)
      BY <1>4, <2>2 DEF Initialize, OpenSocket, disciplined
    <3>2. QED BY <3>1, DisciplineKept
  <2>3. QED BY <2>1, <2>2
<1>5. ASSUME NEW p \in Peers, CallInitialize(p) \/ CallInitializeFails(p)
      PROVE  DisciplineInv(q)'
  BY <1>4, <1>5 DEF CallInitialize, CallInitializeFails, BeforeInitialize
<1>6. ASSUME NEW p \in Peers, InitHasFailed(p) PROVE DisciplineInv(q)'
  BY <1>6 DEF InitHasFailed, GoTo, DisciplineInv, BeforeInitialize
<1>7. ASSUME NEW p \in Peers, InitHasSucceeded(p) PROVE DisciplineInv(q)'
  BY <1>7 DEF InitHasSucceeded, GoTo, DisciplineInv, BeforeInitialize
<1>8. ASSUME NEW p \in Peers, CleanUp(p) PROVE DisciplineInv(q)'
  BY <1>8 DEF CleanUp, GoTo, DisciplineInv, BeforeInitialize
<1>9. ASSUME NEW p \in Peers, CleanUpReturns(p) PROVE DisciplineInv(q)'
  BY <1>9 DEF CleanUpReturns, GoTo, JoinAndClose, CloseSocket, DisciplineInv, BeforeInitialize
<1>10. ASSUME NEW p \in Peers, ReadNew(p) PROVE DisciplineInv(q)'
  BY <1>10 DEF ReadNew, GoTo, DisciplineInv, BeforeInitialize
<1>11. ASSUME NEW p \in Peers, ClearNew(p) PROVE DisciplineInv(q)'
  BY <1>11 DEF ClearNew, GoTo, DisciplineInv, BeforeInitialize
<1>12. ASSUME NEW p \in Peers, Parse(p) PROVE DisciplineInv(q)'
  BY <1>12 DEF Parse, GoTo, DisciplineInv, BeforeInitialize
<1>13. ASSUME NEW p \in Peers, SendFlock(p) \/ SendFlockInVain(p) PROVE DisciplineInv(q)'
  BY <1>13 DEF SendFlock, SendFlockInVain, GoTo, DisciplineInv, BeforeInitialize
<1>14. ASSUME NEW p \in Peers, ReceiveFirst(p) \/ Receive(p) \/ Store(p) \/ ReceiveFails(p),
              UNCHANGED gameVars
       PROVE  DisciplineInv(q)'
  <2>1. /\ thread[p] \in {"loop", "store"} /\ UNCHANGED <<sock, running>>
        /\ thread' \in {thread, [thread EXCEPT ![p] = "loop"], [thread EXCEPT ![p] = "store"]}
        /\ hasError' \in {hasError, [hasError EXCEPT ![p] = TRUE]}
    BY <1>14 DEF ReceiveFirst, Receive, Store, ReceiveFails, TakeDatagram
  <2>2. QED BY <1>14, <2>1 DEF DisciplineInv, BeforeInitialize
<1>15. ASSUME NEW p \in Peers, StopReceiving(p), UNCHANGED gameVars PROVE DisciplineInv(q)'
  BY <1>15 DEF StopReceiving, DisciplineInv, BeforeInitialize
<1>16. CASE UNCHANGED vars
  BY <1>16 DEF DisciplineInv, BeforeInitialize
<1>17. QED
  BY <1>1, <1>2, <1>3, <1>5, <1>6, <1>7, <1>8, <1>9, <1>10, <1>11, <1>12, <1>13,
     <1>14, <1>15, <1>16 DEF Next, IsKilled, QuitReturns

(* However often a peer fails to initialize, is closed, killed and started *)
(* anew, and in whichever order its two threads run, no thread is started  *)
(* over a joinable one or joined without one, and an initialized peer has  *)
(* a usable socket that a thread reads.                                    *)
THEOREM DisciplineCorrect == Spec => []ThreadDiscipline
<1>1. Init => \A q \in Peers : DisciplineInv(q)
  BY DEF Init, NetInit, GameInit, DisciplineInv, BeforeInitialize
<1>2. Spec => [](\A q \in Peers : DisciplineInv(q))
  BY <1>1, TypeCorrect, DisciplineStep, PTL DEF Spec
<1>3. (\A q \in Peers : DisciplineInv(q)) => ThreadDiscipline
  BY DEF DisciplineInv, BeforeInitialize, ThreadDiscipline
<1>4. QED BY <1>2, <1>3, PTL
===============================================================================
