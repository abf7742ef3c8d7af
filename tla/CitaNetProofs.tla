---------------------------- MODULE CitaNetProofs ----------------------------
(***************************************************************************)
(* What CitaNetServer promises, whatever the clients and the network do:   *)
(* its dictionary, what it told the clients, what awaits an ack and its    *)
(* answers are what the datagrams received so far make of them; and it     *)
(* never has more than two clients.                                        *)
(***************************************************************************)
EXTENDS CitaNetServer, SequenceTheorems, FiniteSetTheorems, TLAPS

(* The steps of the receive callback and of the loop of run().             *)
LEMMA Steps ==
  ASSUME [Next]_vars
  PROVE  \/ \E d \in Datagram : ReceiveAck(d) \/ ConnectAgain(d) \/ Connect(d) \/ Disconnect(d)
         \/ ReceiveFails
         \/ \E c \in Endpoints : Tell(c)
         \/ TellDone \/ AddClient \/ AckClient
         \/ BeginPass \/ Visit \/ EndPass \/ UNCHANGED vars
BY DEF Next

-------------------------------------------------------------------------------
(* While the callback works on a datagram, that one is the connect of an   *)
(* endpoint whose address is not in the dictionary until it is added.      *)
AtWork ==
  callback # "armed" =>
    /\ Len(handled) > 0 /\ Current.kind = "connect"
    /\ callback \in {"broadcast", "add"} => ~Known(Current.from.address)

(* Only clients are still to visit, and only during a broadcast.           *)
StillClients == rest \subseteq clients /\ (callback # "broadcast" => rest = {})

TypeInv == TypeOK /\ AtWork /\ StillClients

LEMMA DatagramFields ==
  ASSUME NEW d \in Datagram
  PROVE  /\ d.kind \in {"connect", "disconnect", "ack"}
         /\ d.from \in Endpoints /\ d.from.address \in Addresses
         /\ d.kind # "ack" /\ d.id # Cut => d.id \in RequestIDs
BY DEF Datagram, Addresses

(* A datagram received is the last of those handled.                       *)
LEMMA HandledGrows ==
  ASSUME TypeInv, NEW d \in Datagram, Receive(d)
  PROVE  /\ Len(handled) \in Nat /\ Len(handled') = Len(handled) + 1
         /\ handled' \in Seq(Datagram)
         /\ handled'[Len(handled) + 1] = d /\ Current' = d
         /\ \A k \in 1 .. Len(handled) : handled'[k] = handled[k]
<1>1. handled \in Seq(Datagram) /\ handled' = Append(handled, d)
  BY DEF TypeInv, TypeOK, Receive
<1>2. QED BY <1>1, AppendProperties DEF Current

LEMMA CurrentIsDatagram ==
  ASSUME TypeInv, callback # "armed"
  PROVE  /\ Len(handled) \in Nat /\ Len(handled) >= 1
         /\ Current \in Datagram /\ Current = handled[Len(handled)]
         /\ Current.from \in Endpoints /\ Current.from.address \in Addresses
         /\ Current.kind = "connect"
<1>1. handled \in Seq(Datagram) /\ Len(handled) > 0 /\ Current.kind = "connect"
  BY DEF TypeInv, TypeOK, AtWork
<1>2. Len(handled) \in Nat
  BY <1>1
<1>3. Current \in Datagram
  BY <1>1, <1>2 DEF Current
<1>4. QED BY <1>1, <1>2, <1>3, DatagramFields DEF Current

LEMMA TypeStep ==
  ASSUME TypeInv, [Next]_vars
  PROVE  TypeInv'
<1>0. /\ handled \in Seq(Datagram) /\ Len(handled) \in Nat
      /\ told \subseteq [about : Addresses, to : Endpoints, nth : 1 .. Len(handled)]
      /\ answers \in Seq([to : Endpoints, id : RequestIDs])
  BY DEF TypeInv, TypeOK
<1>1. ASSUME NEW d \in Datagram, Receive(d)
      PROVE  told \subseteq [about : Addresses, to : Endpoints, nth : 1 .. Len(handled')]
  BY <1>0, <1>1, HandledGrows
<1>2. ASSUME NEW d \in Datagram, d.kind # "ack", Reply(d)
      PROVE  /\ answers' \in Seq([to : Endpoints, id : RequestIDs])
             /\ process' \in {process, "tooShort"}
  <2>1. CASE d.id = Cut
    BY <1>0, <1>2, <2>1 DEF Reply
  <2>2. CASE d.id # Cut
    <3>1. [to |-> d.from, id |-> d.id] \in [to : Endpoints, id : RequestIDs]
      BY <1>2, <2>2, DatagramFields
    <3>2. SendAck(d) /\ process' = process
      BY <1>2, <2>2 DEF Reply
    <3>3. QED BY <1>0, <3>1, <3>2, AppendProperties DEF SendAck
  <2>3. QED BY <2>1, <2>2
<1>3. CASE \E d \in Datagram : ReceiveAck(d)
  <2>1. PICK d \in Datagram : ReceiveAck(d)
    BY <1>3
  <2>2. Receive(d)
    BY <2>1 DEF ReceiveAck
  <2>3. QED BY <2>1, <2>2, <1>1, HandledGrows
            DEF ReceiveAck, Receive, Throw, Exceptions, TypeInv, TypeOK, AtWork, StillClients
<1>4. CASE \E d \in Datagram : ConnectAgain(d)
  <2>1. PICK d \in Datagram : ConnectAgain(d)
    BY <1>4
  <2>2. Receive(d) /\ d.kind # "ack" /\ Reply(d)
    BY <2>1 DEF ConnectAgain
  <2>3. QED BY <2>1, <2>2, <1>1, <1>2, HandledGrows
            DEF ConnectAgain, Receive, Exceptions, TypeInv, TypeOK, AtWork, StillClients
<1>5. CASE \E d \in Datagram : Connect(d)
  <2>1. PICK d \in Datagram : Connect(d)
    BY <1>5
  <2>2. Receive(d)
    BY <2>1 DEF Connect
  <2>3. QED BY <2>1, <2>2, <1>1, HandledGrows
            DEF Connect, Receive, TypeInv, TypeOK, AtWork, StillClients, Known
<1>6. CASE \E d \in Datagram : Disconnect(d)
  <2>1. PICK d \in Datagram : Disconnect(d)
    BY <1>6
  <2>2. Receive(d) /\ d.kind # "ack" /\ Reply(d)
    BY <2>1 DEF Disconnect
  <2>3. QED BY <2>1, <2>2, <1>1, <1>2, HandledGrows
            DEF Disconnect, Receive, Exceptions, TypeInv, TypeOK, AtWork, StillClients
<1>7. CASE \E c \in Endpoints : Tell(c)
  <2>1. PICK c \in Endpoints : Tell(c)
    BY <1>7
  <2>2. [about |-> Current.from.address, to |-> c, nth |-> Len(handled)]
          \in [about : Addresses, to : Endpoints, nth : 1 .. Len(handled)]
    BY <2>1, CurrentIsDatagram DEF Tell
  <2>3. told' \subseteq [about : Addresses, to : Endpoints, nth : 1 .. Len(handled')]
    BY <1>0, <2>1, <2>2 DEF Tell
  <2>4. process' \in {process, "duplicateKey"}
    BY <2>1 DEF Tell, Throw
  <2>5. QED BY <2>1, <2>3, <2>4, CurrentIsDatagram
            DEF Tell, Throw, TypeInv, TypeOK, AtWork, StillClients, Known, Exceptions,
                TableExceptions, Current
<1>8. CASE AddClient
  BY <1>8, CurrentIsDatagram
     DEF AddClient, TypeInv, TypeOK, AtWork, StillClients, Known, Current
<1>9. CASE AckClient
  <2>1. /\ answers' \in Seq([to : Endpoints, id : RequestIDs])
        /\ process' \in {process, "tooShort"}
    BY <1>9, <1>2, CurrentIsDatagram DEF AckClient
  <2>2. callback' \in {"armed", "ack"} /\ callback = "ack"
    BY <1>9 DEF AckClient
  <2>3. QED BY <1>9, <2>1, <2>2
            DEF AckClient, Exceptions, TypeInv, TypeOK, AtWork, StillClients, Current
<1>10. CASE ReceiveFails \/ TellDone \/ BeginPass \/ Visit \/ EndPass
  BY <1>10 DEF ReceiveFails, TellDone, BeginPass, Visit, EndPass, Throw, Exceptions, TableExceptions,
               TypeInv, TypeOK, AtWork, StillClients, Known, Current
<1>11. CASE UNCHANGED vars
  BY <1>11 DEF vars, TypeInv, TypeOK, AtWork, StillClients, Known, Current
<1>12. QED
  BY <1>3, <1>4, <1>5, <1>6, <1>7, <1>8, <1>9, <1>10, <1>11, Steps

LEMMA TypeInit == Init => TypeInv
<1> SUFFICES ASSUME Init PROVE TypeInv
  OBVIOUS
<1>1. handled \in Seq(Datagram) /\ answers \in Seq([to : Endpoints, id : RequestIDs])
  BY DEF Init
<1>2. told = {} /\ clients = {} /\ rest = {} /\ awaiting = {}
  BY DEF Init
<1>3. QED BY <1>1, <1>2 DEF Init, TypeInv, TypeOK, AtWork, StillClients

(* The variables hold what the code declares, and an address is the key of *)
(* one client: AddClient, whose Add throws on a key that is there, is only *)
(* reached with a newcomer, and nobody else adds between the test of the   *)
(* dictionary and the Add.                                                 *)
THEOREM TypeCorrect == Spec => []TypeOK
<1>1. TypeInv => TypeOK
  BY DEF TypeInv
<1>2. QED BY TypeInit, TypeStep, <1>1, PTL DEF Spec

-------------------------------------------------------------------------------
(* The datagrams whose effect on the dictionary is complete: all but a     *)
(* newcomer that is still being announced.                                 *)
Done == IF callback \in {"broadcast", "add"} THEN Len(handled) - 1 ELSE Len(handled)

(* Somebody connected from a, and nobody disconnected there since.         *)
OpenConnect(a, n) ==
  \E m \in 1 .. n :
    /\ Requested("connect", a, m)
    /\ \A k \in m + 1 .. n : ~Requested("disconnect", a, k)

(* The dictionary is what the first n datagrams make of it.  The second    *)
(* part replaces a search for the first of several connects: an address    *)
(* from which a connect is open has a client.                              *)
RegistryAt(n) ==
  /\ clients = {e \in Endpoints : Registered(e, n)}
  /\ \A a \in Addresses : OpenConnect(a, n) => Known(a)

RegistryInv == \E n \in Nat : n = Done /\ RegistryAt(n)

(* What the first n datagrams say does not change when others follow.      *)
LEMMA RegisteredKept ==
  ASSUME NEW n \in Nat, \A k \in 1 .. n : handled'[k] = handled[k], NEW e, NEW a
  PROVE  /\ Registered(e, n)' <=> Registered(e, n)
         /\ OpenConnect(a, n)' <=> OpenConnect(a, n)
BY DEF Registered, OpenConnect, Requested

(* An ack says nothing of who is registered.                               *)
LEMMA RegisteredByAck ==
  ASSUME NEW n \in Nat, \A k \in 1 .. n : handled'[k] = handled[k],
         handled'[n + 1].kind = "ack", NEW e, NEW a
  PROVE  /\ Registered(e, n + 1)' <=> Registered(e, n)
         /\ OpenConnect(a, n + 1)' <=> OpenConnect(a, n)
<1>1. ~Requested("disconnect", e.address, n + 1)' /\ ~Requested("disconnect", a, n + 1)'
  BY DEF Requested
<1>2. handled'[n + 1].kind # "connect" /\ ~Requested("connect", a, n + 1)'
  BY DEF Requested
<1>3. \A j \in 1 .. n + 1 : j \in 1 .. n \/ j = n + 1
  OBVIOUS
<1>4. Registered(e, n + 1)' <=> Registered(e, n)'
  BY <1>1, <1>2 DEF Registered, Requested
<1>5. OpenConnect(a, n + 1)' <=> OpenConnect(a, n)'
  BY <1>1, <1>2 DEF OpenConnect, Requested
<1>6. QED BY <1>4, <1>5, RegisteredKept

(* A disconnect takes the client at its address away, whatever its port.   *)
LEMMA RegisteredByDisconnect ==
  ASSUME NEW n \in Nat, \A k \in 1 .. n : handled'[k] = handled[k],
         handled'[n + 1].kind = "disconnect", NEW e, NEW a
  PROVE  /\ Registered(e, n + 1)'
              <=> Registered(e, n) /\ e.address # handled'[n + 1].from.address
         /\ OpenConnect(a, n + 1)' <=> OpenConnect(a, n) /\ a # handled'[n + 1].from.address
<1>1. Registered(e, n + 1)'
        <=> Registered(e, n)' /\ e.address # handled'[n + 1].from.address
  BY DEF Registered, Requested
<1>2. OpenConnect(a, n + 1)'
        <=> OpenConnect(a, n)' /\ a # handled'[n + 1].from.address
  BY DEF OpenConnect, Requested
<1>3. QED BY <1>1, <1>2, RegisteredKept

(* A connect registers its endpoint, unless one is open from its address.  *)
LEMMA RegisteredByConnect ==
  ASSUME NEW n \in Nat, \A k \in 1 .. n : handled'[k] = handled[k],
         handled'[n + 1].kind = "connect", NEW e, NEW a
  PROVE  /\ Registered(e, n + 1)'
              <=> \/ Registered(e, n)
                  \/ /\ e = handled'[n + 1].from
                     /\ ~OpenConnect(handled'[n + 1].from.address, n)
         /\ OpenConnect(a, n + 1)'
              <=> OpenConnect(a, n) \/ a = handled'[n + 1].from.address
<1>1. OpenConnect(a, n + 1)'
        <=> OpenConnect(a, n)' \/ a = handled'[n + 1].from.address
  BY DEF OpenConnect, Requested
<1>2. ASSUME Registered(e, n)' PROVE Registered(e, n + 1)'
  BY <1>2 DEF Registered, Requested
<1>3. ASSUME e = handled'[n + 1].from, ~OpenConnect(e.address, n)'
      PROVE  Registered(e, n + 1)'
  BY <1>3 DEF Registered, OpenConnect, Requested
<1>4. ASSUME Registered(e, n + 1)', ~Registered(e, n)'
      PROVE  e = handled'[n + 1].from /\ ~OpenConnect(e.address, n)'
  BY <1>4 DEF Registered, OpenConnect, Requested
<1>5. OpenConnect(e.address, n)' <=> OpenConnect(e.address, n)
  BY RegisteredKept
<1>6. QED BY <1>1, <1>2, <1>3, <1>4, <1>5, RegisteredKept

(* Whoever is registered has an open connect from the address.             *)
LEMMA RegisteredIsOpen ==
  ASSUME NEW n \in Nat, NEW e, Registered(e, n)
  PROVE  OpenConnect(e.address, n)
BY DEF Registered, OpenConnect, Requested

(* An address has a client exactly when a connect from it is open.         *)
LEMMA KnownIsOpen ==
  ASSUME NEW n \in Nat, RegistryAt(n), NEW a \in Addresses
  PROVE  Known(a) <=> OpenConnect(a, n)
BY RegisteredIsOpen DEF RegistryAt, Known

LEMMA RegistryStep ==
  ASSUME TypeInv, RegistryInv, [Next]_vars
  PROVE  RegistryInv'
<1>1. PICK n \in Nat : n = Done /\ RegistryAt(n)
  BY DEF RegistryInv
<1>2. clients = {e \in Endpoints : Registered(e, n)}
  BY <1>1 DEF RegistryAt
<1>3. Len(handled) \in Nat
  BY DEF TypeInv, TypeOK
<1>4. CASE \E d \in Datagram : ReceiveAck(d)
  <2>1. PICK d \in Datagram : ReceiveAck(d)
    BY <1>4
  <2>2. Receive(d) /\ n = Len(handled) /\ UNCHANGED <<callback, clients>>
    BY <1>1, <2>1 DEF ReceiveAck, Receive, Throw, Done
  <2>3. /\ \A k \in 1 .. n : handled'[k] = handled[k]
        /\ handled'[n + 1].kind = "ack" /\ Len(handled') = n + 1
    BY <2>1, <2>2, HandledGrows DEF ReceiveAck
  <2>4. RegistryAt(n + 1)'
    BY <1>1, <2>2, <2>3, RegisteredByAck DEF RegistryAt, Known
  <2>5. Done' = n + 1
    BY <2>2, <2>3 DEF Done, Receive
  <2>6. QED BY <2>4, <2>5 DEF RegistryInv
<1>5. CASE \E d \in Datagram : ConnectAgain(d)
  <2>1. PICK d \in Datagram : ConnectAgain(d)
    BY <1>5
  <2>2. Receive(d) /\ n = Len(handled) /\ UNCHANGED <<callback, clients>>
    BY <1>1, <2>1 DEF ConnectAgain, Receive, Done
  <2>3. /\ \A k \in 1 .. n : handled'[k] = handled[k]
        /\ handled'[n + 1] = d /\ d.kind = "connect" /\ Len(handled') = n + 1
    BY <2>1, <2>2, HandledGrows DEF ConnectAgain
  <2>4. d.from.address \in Addresses /\ Known(d.from.address) /\ OpenConnect(d.from.address, n)
    BY <1>1, <2>1, DatagramFields, KnownIsOpen DEF ConnectAgain
  <2>5. RegistryAt(n + 1)'
    BY <1>1, <2>2, <2>3, <2>4, RegisteredByConnect DEF RegistryAt, Known
  <2>6. Done' = n + 1
    BY <2>2, <2>3 DEF Done, Receive
  <2>7. QED BY <2>5, <2>6 DEF RegistryInv
<1>6. CASE \E d \in Datagram : Connect(d)
  <2>1. PICK d \in Datagram : Connect(d)
    BY <1>6
  <2>2. Receive(d) /\ n = Len(handled) /\ clients' = clients /\ callback' = "broadcast"
    BY <1>1, <2>1 DEF Connect, Receive, Done
  <2>3. \A k \in 1 .. n : handled'[k] = handled[k]
    BY <2>1, <2>2, HandledGrows
  <2>4. RegistryAt(n)'
    BY <1>1, <2>2, <2>3, RegisteredKept DEF RegistryAt, Known
  <2>5. Done' = n
    BY <2>1, <2>2, HandledGrows DEF Done
  <2>6. QED BY <2>4, <2>5 DEF RegistryInv
<1>7. CASE \E d \in Datagram : Disconnect(d)
  <2>1. PICK d \in Datagram : Disconnect(d)
    BY <1>7
  <2>2. /\ Receive(d) /\ n = Len(handled) /\ callback' = callback
        /\ clients' = {c \in clients : c.address # d.from.address}
    BY <1>1, <2>1 DEF Disconnect, Receive, Done
  <2>3. /\ \A k \in 1 .. n : handled'[k] = handled[k]
        /\ handled'[n + 1] = d /\ d.kind = "disconnect" /\ Len(handled') = n + 1
    BY <2>1, <2>2, HandledGrows DEF Disconnect
  <2>4. RegistryAt(n + 1)'
    <3>1. clients' = {e \in Endpoints : Registered(e, n + 1)}'
      <4>1. ASSUME NEW e \in Endpoints PROVE e \in clients' <=> Registered(e, n + 1)'
        BY <1>2, <2>2, <2>3, RegisteredByDisconnect
      <4>2. clients' \subseteq Endpoints
        BY <1>2, <2>2
      <4>3. QED BY <4>1, <4>2
    <3>2. ASSUME NEW a \in Addresses, OpenConnect(a, n + 1)' PROVE Known(a)'
      <4>1. OpenConnect(a, n) /\ a # d.from.address
        BY <2>3, <3>2, RegisteredByDisconnect
      <4>2. PICK c \in clients : c.address = a
        BY <1>1, <4>1 DEF RegistryAt, Known
      <4>3. QED BY <2>2, <4>1, <4>2 DEF Known
    <3>3. QED BY <3>1, <3>2 DEF RegistryAt
  <2>5. Done' = n + 1
    BY <2>2, <2>3 DEF Done, Receive
  <2>6. QED BY <2>4, <2>5 DEF RegistryInv
<1>8. CASE AddClient
  <2>1. /\ n + 1 = Len(handled) /\ callback' = "ack" /\ handled' = handled
        /\ clients' = clients \cup {Current.from}
    BY <1>1, <1>3, <1>8 DEF AddClient, Done
  <2>2. /\ Current.kind = "connect" /\ handled'[n + 1] = Current
        /\ Current.from \in Endpoints /\ Current.from.address \in Addresses
    BY <1>8, <2>1, CurrentIsDatagram DEF AddClient
  <2>3. ~OpenConnect(Current.from.address, n)
    BY <1>1, <1>8, <2>2, KnownIsOpen DEF AddClient, TypeInv, AtWork
  <2> DEFINE d == Current
  <2> HIDE DEF d
  <2>4. /\ handled'[n + 1] = d /\ d.kind = "connect" /\ d.from \in Endpoints
        /\ clients' = clients \cup {d.from} /\ ~OpenConnect(d.from.address, n)
    BY <2>1, <2>2, <2>3 DEF d
  <2>5. RegistryAt(n + 1)'
    BY <1>1, <2>1, <2>4, RegisteredByConnect DEF RegistryAt, Known
  <2>6. Done' = n + 1
    BY <2>1 DEF Done
  <2>7. QED BY <2>5, <2>6 DEF RegistryInv
<1>9. CASE \/ ReceiveFails \/ \E c \in Endpoints : Tell(c)
           \/ TellDone \/ AckClient \/ BeginPass \/ Visit \/ EndPass \/ UNCHANGED vars
  <2>1. UNCHANGED <<clients, handled>> /\ Done' = Done
    BY <1>9 DEF ReceiveFails, Tell, TellDone, AckClient, BeginPass, Visit, EndPass, Throw, Done,
                vars
  <2>2. \A k \in 1 .. n : handled'[k] = handled[k]
    BY <2>1
  <2>3. RegistryAt(n)'
    BY <1>1, <2>1, <2>2, RegisteredKept DEF RegistryAt, Known
  <2>4. QED BY <1>1, <2>1, <2>3 DEF RegistryInv
<1>10. QED BY <1>4, <1>5, <1>6, <1>7, <1>8, <1>9, Steps

LEMMA RegistryInit == Init => RegistryInv
<1> SUFFICES ASSUME Init PROVE RegistryInv
  OBVIOUS
<1>1. Len(handled) = 0 /\ Done = 0 /\ clients = {}
  BY EmptySeq DEF Init, Done
<1>2. \A e, a : ~Registered(e, 0) /\ ~OpenConnect(a, 0)
  BY DEF Registered, OpenConnect
<1>3. RegistryAt(0)
  BY <1>1, <1>2 DEF RegistryAt
<1>4. QED BY <1>1, <1>3 DEF RegistryInv

(* Between two datagrams the dictionary is what the requests received so   *)
(* far make of it: repeated, delayed and reordered requests, and requests  *)
(* from another port of a known address, do what Registered says.          *)
THEOREM RegistryCorrect == Spec => []RegistryFollowsRequests
<1>1. TypeInv /\ RegistryInv => RegistryFollowsRequests
  BY DEF RegistryInv, RegistryAt, Done, RegistryFollowsRequests, BetweenDatagrams
<1>2. QED BY TypeInit, TypeStep, RegistryInit, RegistryStep, <1>1, PTL DEF Spec

-------------------------------------------------------------------------------
(* The notice a client e is due when the k-th datagram is a newcomer's.    *)
Notice(k, e) == [about |-> handled[k].from.address, to |-> e, nth |-> k]

(* Everybody due a notice got it, except those still to visit in a         *)
(* broadcast under way.  (A Tell that throws leaves its client in rest.)   *)
ToldInv ==
  process = "running" =>
    \A t : t \in told <=> \E k \in 1 .. Len(handled) : \E e \in Audience(k) :
                             t = Notice(k, e) /\ ~(k = Len(handled) /\ e \in rest)

(* No datagram after its notice acknowledges the newcomer.                 *)
Unacknowledged(t) ==
  \A k \in t.nth + 1 .. Len(handled) : ~(handled[k].kind = "ack" /\ handled[k].id = t.about)

AwaitingInv ==
  process = "running" => \A a : a \in awaiting <=> \E t \in told : t.about = a /\ Unacknowledged(t)

(* Only a notice changes the table of what awaits an ack for the first time. *)
ModifiedInv == modified => told # {}

NoticeInv == ToldInv /\ AwaitingInv /\ ModifiedInv

LEMMA AudienceKept ==
  ASSUME NEW n \in Nat, \A k \in 1 .. n : handled'[k] = handled[k], NEW k \in 1 .. n
  PROVE  Audience(k)' = Audience(k)
<1>1. k - 1 \in Nat /\ (\A j \in 1 .. k - 1 : handled'[j] = handled[j]) /\ handled'[k] = handled[k]
  OBVIOUS
<1>2. \A e : Registered(e, k - 1)' <=> Registered(e, k - 1)
  BY <1>1, RegisteredKept
<1>3. QED BY <1>1, <1>2 DEF Audience, Newcomer

(* A datagram that is no connect, or one from a known address, has no      *)
(* audience; that of a newcomer are all who are registered.                *)
LEMMA AudienceOfLast ==
  ASSUME NEW n \in Nat, \A k \in 1 .. n : handled'[k] = handled[k], RegistryAt(n),
         NEW last, last = n + 1
  PROVE  Audience(last)' = IF /\ handled'[last].kind = "connect"
                              /\ ~Known(handled'[last].from.address)
                           THEN clients
                           ELSE {}
<1>1. last - 1 \in Nat /\ last - 1 = n
  OBVIOUS
<1>2. \A e : Registered(e, last - 1)' <=> Registered(e, last - 1)
  BY <1>1, RegisteredKept
<1>3. \A e : Registered(e, last - 1) <=> Registered(e, n)
  BY <1>1
<1>4. QED BY <1>2, <1>3 DEF Audience, Newcomer, RegistryAt, Known

(* During a broadcast the clients are the audience of the newcomer.        *)
LEMMA AudienceOfCurrent ==
  ASSUME TypeInv, RegistryInv, callback = "broadcast"
  PROVE  Audience(Len(handled)) = clients
<1>1. PICK n \in Nat : n = Done /\ RegistryAt(n)
  BY DEF RegistryInv
<1>2. n = Len(handled) - 1 /\ Current = handled[Len(handled)]
  BY <1>1 DEF Done, Current
<1>3. Current.kind = "connect" /\ ~Known(Current.from.address)
  BY DEF TypeInv, AtWork
<1>4. QED BY <1>1, <1>2, <1>3 DEF Audience, Newcomer, RegistryAt, Known

(* A datagram with nobody to visit, or one whose audience is still to      *)
(* visit, adds no notice.                                                  *)
LEMMA ToldByReceive ==
  ASSUME TypeInv, ToldInv, process = "running", NEW d \in Datagram, Receive(d),
         told' = told, rest = {}, \A k : k = Len(handled') => rest' = Audience(k)'
  PROVE  ToldInv'
<1> DEFINE n == Len(handled)
<1>1. /\ n \in Nat /\ Len(handled') = n + 1
      /\ \A k \in 1 .. n : handled'[k] = handled[k]
  BY HandledGrows
<1>2. \A t : t \in told <=> \E k \in 1 .. n : \E e \in Audience(k) : t = Notice(k, e)
  BY DEF ToldInv
<1>3. \A k : k = n + 1 => rest' = Audience(k)'
  BY <1>1
<1> HIDE DEF n
<1>4. ASSUME NEW k \in 1 .. n PROVE Audience(k)' = Audience(k)
  BY <1>1, AudienceKept
<1>5. \A k \in 1 .. n : \A e : Notice(k, e)' = Notice(k, e)
  BY <1>1 DEF Notice
<1>6. \A k \in 1 .. n + 1 : k \in 1 .. n \/ k = n + 1
  BY <1>1
<1>7. \A k \in 1 .. n : k # n + 1 /\ k \in 1 .. n + 1
  BY <1>1
<1>8. ASSUME NEW t
      PROVE  t \in told <=> \E k \in 1 .. n + 1 : \E e \in Audience(k)' :
                               t = Notice(k, e)' /\ ~(k = n + 1 /\ e \in rest')
  <2>1. ASSUME NEW k \in 1 .. n, NEW e \in Audience(k), t = Notice(k, e)
        PROVE  \E j \in 1 .. n + 1 : \E f \in Audience(j)' :
                  t = Notice(j, f)' /\ ~(j = n + 1 /\ f \in rest')
    BY <2>1, <1>4, <1>5, <1>7
  <2>2. ASSUME NEW k \in 1 .. n + 1, NEW e \in Audience(k)',
               t = Notice(k, e)', ~(k = n + 1 /\ e \in rest')
        PROVE  \E j \in 1 .. n : \E f \in Audience(j) : t = Notice(j, f)
    <3>1. k \in 1 .. n
      BY <2>2, <1>6, <1>3
    <3>2. QED BY <2>2, <3>1, <1>4, <1>5
  <2>3. QED BY <2>1, <2>2, <1>2
<1>9. QED BY <1>1, <1>8 DEF ToldInv

(* Only an ack that names the newcomer acknowledges a notice.              *)
LEMMA AcknowledgedBy ==
  ASSUME TypeInv, NEW d \in Datagram, Receive(d), NEW t \in told
  PROVE  Unacknowledged(t)' <=> Unacknowledged(t) /\ ~(d.kind = "ack" /\ d.id = t.about)
<1>1. t.nth \in 1 .. Len(handled)
  BY DEF TypeInv, TypeOK
<1> DEFINE n == Len(handled)
<1>2. /\ n \in Nat /\ Len(handled') = n + 1 /\ handled'[n + 1] = d
      /\ \A k \in 1 .. n : handled'[k] = handled[k]
  BY HandledGrows
<1> HIDE DEF n
<1>3. t.nth \in 1 .. n
  BY <1>1 DEF n
<1>4. Unacknowledged(t) <=> \A k \in t.nth + 1 .. n : ~(handled[k].kind = "ack" /\ handled[k].id = t.about)
  BY DEF Unacknowledged, n
<1>5. Unacknowledged(t)' <=> \A k \in t.nth + 1 .. n + 1 : ~(handled'[k].kind = "ack" /\ handled'[k].id = t.about)
  BY <1>2 DEF Unacknowledged
<1>6. \A k \in t.nth + 1 .. n : handled'[k] = handled[k] /\ k \in t.nth + 1 .. n + 1
  BY <1>2, <1>3
<1>7. \A k \in t.nth + 1 .. n + 1 : k \in t.nth + 1 .. n \/ k = n + 1
  BY <1>2, <1>3
<1>8. n + 1 \in t.nth + 1 .. n + 1
  BY <1>2, <1>3
<1>9. QED BY <1>2, <1>4, <1>5, <1>6, <1>7, <1>8

(* Where neither the datagrams nor the notices change.                     *)
LEMMA NoticesKept ==
  ASSUME TypeInv, NoticeInv, UNCHANGED <<handled, told>>,
         process' = "running" => process = "running" /\ UNCHANGED <<awaiting, rest>>,
         modified' => modified
  PROVE  NoticeInv'
<1>1. Len(handled) \in Nat /\ (\A k \in 1 .. Len(handled) : handled'[k] = handled[k])
  BY DEF TypeInv, TypeOK
<1>2. ASSUME NEW k \in 1 .. Len(handled) PROVE Audience(k)' = Audience(k)
  BY <1>1, AudienceKept
<1>3. \A k, e : Notice(k, e)' = Notice(k, e)
  BY DEF Notice
<1>4. \A t : Unacknowledged(t)' <=> Unacknowledged(t)
  BY DEF Unacknowledged
<1>5. ToldInv'
  BY <1>2, <1>3 DEF NoticeInv, ToldInv
<1>6. QED BY <1>4, <1>5 DEF NoticeInv, AwaitingInv, ModifiedInv

(* Where the server ends, only the bookkeeping of the table is left.       *)
LEMMA NoticesAtEnd ==
  ASSUME NoticeInv, process' # "running", told' = told, modified' => modified
  PROVE  NoticeInv'
BY DEF NoticeInv, ToldInv, AwaitingInv, ModifiedInv

LEMMA NoticeStep ==
  ASSUME TypeInv, RegistryInv, NoticeInv, [Next]_vars
  PROVE  NoticeInv'
<1>1. ASSUME NEW d \in Datagram, Receive(d)
      PROVE  \A k : k = Len(handled') =>
               Audience(k)' = IF d.kind = "connect" /\ ~Known(d.from.address) THEN clients ELSE {}
  <2> DEFINE n == Len(handled)
  <2>1. /\ n \in Nat /\ Len(handled') = n + 1 /\ handled'[n + 1] = d
        /\ \A k \in 1 .. n : handled'[k] = handled[k]
    BY <1>1, HandledGrows
  <2>2. Done = n
    BY <1>1 DEF Done, Receive
  <2>3. RegistryAt(n)
    BY <2>2 DEF RegistryInv
  <2> HIDE DEF n
  <2>4. QED BY <2>1, <2>3, AudienceOfLast
<1>2. ASSUME NEW d \in Datagram, Receive(d), told' = told, process' = process,
             modified' => modified \/ awaiting # {},
             rest' = IF d.kind = "connect" /\ ~Known(d.from.address) THEN clients ELSE rest,
             d.kind = "ack" => awaiting' = awaiting \ {d.id},
             d.kind # "ack" => awaiting' = awaiting
      PROVE  NoticeInv'
  <2>1. process = "running" /\ rest = {}
    BY <1>2 DEF Receive, TypeInv, StillClients
  <2>2. \A k : k = Len(handled') => rest' = Audience(k)'
    <3>1. rest' = IF d.kind = "connect" /\ ~Known(d.from.address) THEN clients ELSE {}
      BY <1>2, <2>1
    <3>2. QED BY <1>1, <1>2, <3>1
  <2>3. ToldInv'
    BY <1>2, <2>1, <2>2, ToldByReceive DEF NoticeInv
  <2>4. \A a : a \in awaiting <=> \E t \in told : t.about = a /\ Unacknowledged(t)
    BY <2>1 DEF NoticeInv, AwaitingInv
  <2>5. \A t \in told : Unacknowledged(t)'
                          <=> Unacknowledged(t) /\ ~(d.kind = "ack" /\ d.id = t.about)
    BY <1>2, AcknowledgedBy
  <2>6. AwaitingInv'
    BY <1>2, <2>4, <2>5 DEF AwaitingInv
  <2>7. ModifiedInv'
    BY <1>2, <2>4 DEF NoticeInv, ModifiedInv
  <2>8. QED BY <2>3, <2>6, <2>7 DEF NoticeInv
<1>3. CASE \E d \in Datagram : ReceiveAck(d)
  <2>1. PICK d \in Datagram : ReceiveAck(d)
    BY <1>3
  <2>2. CASE d.id = Cut
    BY <2>1, <2>2, NoticesAtEnd DEF ReceiveAck, Throw
  <2>3. CASE d.id # Cut
    BY <1>2, <2>1, <2>3 DEF ReceiveAck
  <2>4. QED BY <2>2, <2>3
<1>4. CASE \E d \in Datagram : ConnectAgain(d)
  <2>1. PICK d \in Datagram : ConnectAgain(d)
    BY <1>4
  <2>2. process' = "tooShort" \/ process' = process
    BY <2>1 DEF ConnectAgain, Reply
  <2>3. CASE process' = "tooShort"
    BY <2>1, <2>3, NoticesAtEnd DEF ConnectAgain
  <2>4. CASE process' = process
    BY <1>2, <2>1, <2>4 DEF ConnectAgain
  <2>5. QED BY <2>2, <2>3, <2>4
<1>5. CASE \E d \in Datagram : Connect(d)
  BY <1>2, <1>5 DEF Connect
<1>6. CASE \E d \in Datagram : Disconnect(d)
  <2>1. PICK d \in Datagram : Disconnect(d)
    BY <1>6
  <2>2. process' = "tooShort" \/ process' = process
    BY <2>1 DEF Disconnect, Reply
  <2>3. CASE process' = "tooShort"
    BY <2>1, <2>3, NoticesAtEnd DEF Disconnect
  <2>4. CASE process' = process
    BY <1>2, <2>1, <2>4 DEF Disconnect
  <2>5. QED BY <2>2, <2>3, <2>4
<1>7. CASE \E c \in Endpoints : Tell(c)
  <2>1. PICK c \in Endpoints : Tell(c)
    BY <1>7
  <2> DEFINE n == Len(handled)
             new == Notice(n, c)
  <2>2. /\ process = "running" /\ callback = "broadcast" /\ c \in rest /\ handled' = handled
        /\ new.about = Current.from.address /\ told' = told \cup {new}
        /\ new.to = c /\ new.nth = n
    BY <2>1 DEF Tell, Notice, Current
  <2>3. Audience(n) = clients /\ c \in clients /\ n \in Nat /\ n >= 1
    BY <2>2, AudienceOfCurrent, CurrentIsDatagram DEF TypeInv, StillClients
  <2>4. CASE Current.from.address \in awaiting
    <3>1. process' # "running" /\ modified' = modified
      BY <2>1, <2>4 DEF Tell, Throw
    <3>2. QED BY <2>2, <3>1 DEF NoticeInv, ToldInv, AwaitingInv, ModifiedInv
  <2>5. CASE Current.from.address \notin awaiting
    <3>1. /\ process' = "running" /\ rest' = rest \ {c}
          /\ awaiting' = awaiting \cup {Current.from.address}
      BY <2>1, <2>2, <2>5 DEF Tell
    <3>2. \A k \in 1 .. n : Audience(k)' = Audience(k)
      BY <2>2, <2>3, AudienceKept
    <3>3. \A k, e : Notice(k, e)' = Notice(k, e)
      BY <2>2 DEF Notice
    <3>4. \A e : Notice(n, e) = new => e = c
      BY <2>2 DEF Notice
    <3>5. \A t : t \in told <=> \E k \in 1 .. n : \E e \in Audience(k) :
                                   t = Notice(k, e) /\ ~(k = n /\ e \in rest)
      BY <2>2 DEF NoticeInv, ToldInv
    <3>6. n \in 1 .. n
      BY <2>3
    <3>7. ToldInv'
      <4> HIDE DEF n, new
      <4>1. \A t : t \in told' <=> \E k \in 1 .. n : \E e \in Audience(k)' :
                                     t = Notice(k, e)' /\ ~(k = n /\ e \in rest')
        <5>1. ASSUME NEW t \in told'
              PROVE  \E k \in 1 .. n : \E e \in Audience(k)' :
                        t = Notice(k, e)' /\ ~(k = n /\ e \in rest')
          <6>1. CASE t = new
            <7>1. t = Notice(n, c)
              BY <6>1 DEF new
            <7>2. QED BY <2>2, <2>3, <3>1, <3>2, <3>3, <3>6, <7>1
          <6>2. CASE t \in told
            BY <2>2, <3>1, <3>2, <3>3, <3>5, <6>2
          <6>3. QED BY <2>2, <6>1, <6>2
        <5>2. ASSUME NEW t, NEW k \in 1 .. n, NEW e \in Audience(k)',
                     t = Notice(k, e)', ~(k = n /\ e \in rest')
              PROVE  t \in told'
          <6>1. t = Notice(k, e) /\ e \in Audience(k)
            BY <3>2, <3>3, <5>2
          <6>2. CASE k = n /\ e = c
            BY <2>2, <6>1, <6>2 DEF new
          <6>3. CASE ~(k = n /\ e = c)
            BY <2>2, <3>1, <3>5, <5>2, <6>1, <6>3
          <6>4. QED BY <6>2, <6>3
        <5>3. QED BY <5>1, <5>2
      <4>2. QED BY <2>2, <4>1 DEF ToldInv, n
    <3>8. AwaitingInv'
      <4>1. \A t : Unacknowledged(t)' <=> Unacknowledged(t)
        BY <2>2 DEF Unacknowledged
      <4>2. Unacknowledged(new)
        BY <2>2, <2>3 DEF Unacknowledged
      <4>3. \A a : a \in awaiting <=> \E t \in told : t.about = a /\ Unacknowledged(t)
        BY <2>2 DEF NoticeInv, AwaitingInv
      <4> HIDE DEF new
      <4>4. QED BY <2>2, <3>1, <4>1, <4>2, <4>3 DEF AwaitingInv
    <3>9. ModifiedInv'
      BY <2>2 DEF ModifiedInv
    <3>10. QED BY <3>7, <3>8, <3>9 DEF NoticeInv
  <2>6. QED BY <2>4, <2>5
<1>8. CASE ReceiveFails \/ TellDone \/ AddClient \/ AckClient \/ BeginPass \/ Visit \/ EndPass
  <2>1. /\ UNCHANGED <<handled, told>> /\ (modified' => modified)
        /\ process' = "running" => process = "running" /\ UNCHANGED <<awaiting, rest>>
    BY <1>8 DEF ReceiveFails, TellDone, AddClient, AckClient, Reply, BeginPass, Visit, EndPass,
                Throw
  <2>2. QED BY <2>1, NoticesKept
<1>9. CASE UNCHANGED vars
  BY <1>9, NoticesKept DEF vars
<1>10. QED BY <1>3, <1>4, <1>5, <1>6, <1>7, <1>8, <1>9, Steps

CitaInv == TypeInv /\ RegistryInv /\ NoticeInv

LEMMA CitaInvariant == Spec => []CitaInv
<1>1. Init => CitaInv
  <2> SUFFICES ASSUME Init PROVE CitaInv
    OBVIOUS
  <2>1. Len(handled) = 0 /\ told = {} /\ awaiting = {} /\ modified = FALSE
    BY EmptySeq DEF Init
  <2>2. 1 .. Len(handled) = {}
    BY <2>1
  <2>3. NoticeInv
    BY <2>1, <2>2 DEF NoticeInv, ToldInv, AwaitingInv, ModifiedInv
  <2>4. QED BY <2>3, TypeInit, RegistryInit DEF CitaInv
<1>2. CitaInv /\ [Next]_vars => CitaInv'
  BY TypeStep, RegistryStep, NoticeStep DEF CitaInv
<1>3. QED BY <1>1, <1>2, PTL DEF Spec

(* Every newcomer was told to all that were registered before it came, and *)
(* to nobody else, each of them once.                                      *)
THEOREM NewcomersAnnounced == Spec => []EveryoneLearnsOfNewcomers
<1>1. CitaInv => EveryoneLearnsOfNewcomers
  <2> SUFFICES ASSUME CitaInv, BetweenDatagrams
               PROVE  told = UNION {{[about |-> handled[k].from.address, to |-> e, nth |-> k] :
                                       e \in Audience(k)} : k \in DOMAIN handled}
    BY DEF EveryoneLearnsOfNewcomers
  <2>1. rest = {} /\ process = "running"
    BY DEF CitaInv, TypeInv, StillClients, BetweenDatagrams
  <2>2. handled \in Seq(Datagram) /\ DOMAIN handled = 1 .. Len(handled)
    BY DEF CitaInv, TypeInv, TypeOK
  <2>3. \A t : t \in told <=> \E k \in DOMAIN handled : \E e \in Audience(k) : t = Notice(k, e)
    BY <2>1, <2>2 DEF CitaInv, NoticeInv, ToldInv
  <2>4. QED BY <2>3 DEF Notice
<1>2. QED BY CitaInvariant, <1>1, PTL

(* The table holds exactly the newcomers that were told to somebody and    *)
(* not acknowledged since, by anybody.                                     *)
THEOREM AwaitingCorrect == Spec => []AwaitingIsUnacknowledged
<1>1. CitaInv => AwaitingIsUnacknowledged
  BY DEF CitaInv, NoticeInv, AwaitingInv, Unacknowledged, AwaitingIsUnacknowledged,
         BetweenDatagrams
<1>2. QED BY CitaInvariant, <1>1, PTL

(* On a server that has never had a newcomer beside another client neither *)
(* broadcastMessage nor the loop of run() throws: for that it takes a      *)
(* message in the table or a change of the table, and either takes a       *)
(* notice.                                                                 *)
THEOREM LoneClient == Spec => []LoneClientIsSafe
<1>1. Init => LoneClientIsSafe
  BY DEF Init, LoneClientIsSafe, TableExceptions
<1>2. ASSUME CitaInv, LoneClientIsSafe, [Next]_vars
      PROVE  LoneClientIsSafe'
  <2>1. Len(handled) \in Nat /\ handled \in Seq(Datagram) /\ DOMAIN handled = 1 .. Len(handled)
    BY <1>2 DEF CitaInv, TypeInv, TypeOK
  <2>2. ASSUME UNCHANGED handled
        PROVE  (\E k \in DOMAIN handled : Audience(k) # {})
                 => (\E k \in DOMAIN handled' : Audience(k)' # {})
    BY <2>1, <2>2, AudienceKept
  <2>3. CASE UNCHANGED <<process, handled>>
    BY <1>2, <2>2, <2>3 DEF LoneClientIsSafe
  <2>4. CASE process' \in {"running", "connectionReset", "tooShort"}
    BY <2>4 DEF LoneClientIsSafe, TableExceptions
  <2>5. CASE \E c \in Endpoints : Tell(c)
    <3>1. /\ \E c : c \in rest /\ rest \subseteq clients
          /\ Audience(Len(handled)) = clients /\ Len(handled) >= 1 /\ handled' = handled
      BY <1>2, <2>5, AudienceOfCurrent, CurrentIsDatagram DEF Tell, CitaInv, TypeInv, StillClients
    <3>2. QED BY <2>1, <2>2, <3>1 DEF LoneClientIsSafe
  <2>6. CASE Visit
    <3>1. told # {} /\ process = "running" /\ handled' = handled
      BY <1>2, <2>6 DEF Visit, CitaInv, NoticeInv, AwaitingInv, ModifiedInv
    <3>2. \E k \in 1 .. Len(handled) : Audience(k) # {}
      BY <1>2, <3>1 DEF CitaInv, NoticeInv, ToldInv
    <3>3. QED BY <2>1, <2>2, <3>1, <3>2 DEF LoneClientIsSafe
  <2>7. \/ process' \in {"running", "connectionReset", "tooShort"}
        \/ UNCHANGED <<process, handled>>
        \/ (\E c \in Endpoints : Tell(c)) \/ Visit
    BY <1>2, Steps DEF ReceiveAck, ConnectAgain, Connect, Disconnect, Receive, Reply, ReceiveFails,
       TellDone, AddClient, AckClient, BeginPass, EndPass, Throw, vars
  <2>8. QED BY <2>3, <2>4, <2>5, <2>6, <2>7
<1>3. QED BY CitaInvariant, <1>1, <1>2, PTL DEF Spec

-------------------------------------------------------------------------------
(* The datagrams that are answered, if they are requests: all but the      *)
(* newcomer the callback is at work on.                                    *)
Answered == IF callback = "armed" THEN Len(handled) ELSE Len(handled) - 1

Answer(k) == [to |-> handled[k].from, id |-> handled[k].id]

AnswersAt(n) ==
  /\ Len(answers) = Cardinality(Requests(n))
  /\ \A k \in Requests(n) : answers[Cardinality(Requests(k))] = Answer(k)

AnswersInv == process = "running" => \E n \in Nat : n = Answered /\ AnswersAt(n)

LEMMA RequestsFinite ==
  ASSUME NEW n \in Nat
  PROVE  IsFiniteSet(Requests(n)) /\ Cardinality(Requests(n)) \in Nat
<1>1. IsFiniteSet(1 .. n)
  BY FS_Interval
<1>2. Requests(n) \subseteq 1 .. n
  BY DEF Requests
<1>3. QED BY <1>1, <1>2, FS_Subset, FS_CardinalityType

LEMMA RequestsKept ==
  ASSUME NEW n \in Nat, \A k \in 1 .. n : handled'[k] = handled[k], NEW k \in 0 .. n
  PROVE  Requests(k)' = Requests(k)
<1>1. \A j \in 1 .. k : handled'[j] = handled[j]
  OBVIOUS
<1>2. QED BY <1>1 DEF Requests

(* A request has a place among the answers.                                *)
LEMMA RequestHasPlace ==
  ASSUME NEW n \in Nat, NEW k \in Requests(n)
  PROVE  k \in 1 .. n /\ Cardinality(Requests(k)) \in 1 .. Cardinality(Requests(n))
<1>1. k \in 1 .. n /\ k \in Nat
  BY DEF Requests
<1>2. Requests(k) \subseteq Requests(n) /\ k \in Requests(k)
  BY <1>1 DEF Requests
<1>3. /\ IsFiniteSet(Requests(n)) /\ Cardinality(Requests(n)) \in Nat
      /\ IsFiniteSet(Requests(k)) /\ Cardinality(Requests(k)) \in Nat
  BY <1>1, RequestsFinite
<1>4. Cardinality(Requests(k)) <= Cardinality(Requests(n))
  BY <1>2, <1>3, FS_Subset
<1>5. Cardinality(Requests(k)) # 0
  BY <1>2, <1>3, FS_EmptySet
<1>6. QED BY <1>1, <1>3, <1>4, <1>5

(* Answers stay where they are when more are given; those to the first n   *)
(* datagrams do not depend on what follows.                                *)
LEMMA AnswersKept ==
  ASSUME TypeInv, NEW n \in Nat, AnswersAt(n), \A k \in 1 .. n : handled'[k] = handled[k],
         UNCHANGED answers
  PROVE  AnswersAt(n)'
<1>1. Requests(n)' = Requests(n)
  BY RequestsKept
<1>2. ASSUME NEW k \in Requests(n)
      PROVE  Requests(k)' = Requests(k) /\ Answer(k)' = Answer(k)
  <2>1. k \in 1 .. n
    BY DEF Requests
  <2>2. QED BY <2>1, RequestsKept DEF Answer
<1>3. QED BY <1>1, <1>2 DEF AnswersAt

(* An ack needs no answer.                                                 *)
LEMMA AckUnanswered ==
  ASSUME TypeInv, NEW n \in Nat, AnswersAt(n), \A k \in 1 .. n : handled'[k] = handled[k],
         handled'[n + 1].kind = "ack", UNCHANGED answers
  PROVE  AnswersAt(n + 1)'
<1>1. Requests(n + 1)' = Requests(n)
  BY DEF Requests
<1>2. ASSUME NEW k \in Requests(n)
      PROVE  Requests(k)' = Requests(k) /\ Answer(k)' = Answer(k)
  <2>1. k \in 1 .. n
    BY DEF Requests
  <2>2. QED BY <2>1, RequestsKept DEF Answer
<1>3. QED BY <1>1, <1>2 DEF AnswersAt

(* The answer to a request takes the next place.                           *)
LEMMA RequestAnswered ==
  ASSUME TypeInv, NEW n \in Nat, AnswersAt(n), \A k \in 1 .. n : handled'[k] = handled[k],
         NEW d \in Datagram, d = handled'[n + 1], d.kind # "ack", d.id # Cut, SendAck(d)
  PROVE  AnswersAt(n + 1)'
<1> DEFINE a == [to |-> d.from, id |-> d.id]
           c == Cardinality(Requests(n))
<1>1. Requests(n + 1)' = Requests(n) \cup {n + 1} /\ n + 1 \notin Requests(n)
  BY DEF Requests
<1>2. IsFiniteSet(Requests(n)) /\ c \in Nat
  BY RequestsFinite
<1>3. Cardinality(Requests(n + 1)') = c + 1
  BY <1>1, <1>2, FS_AddElement
<1>4. answers \in Seq([to : Endpoints, id : RequestIDs]) /\ answers' = Append(answers, a)
      /\ a \in [to : Endpoints, id : RequestIDs] /\ Len(answers) = c
  BY DatagramFields DEF TypeInv, TypeOK, SendAck, AnswersAt
<1> HIDE DEF a
<1>5. /\ Len(answers') = c + 1 /\ answers'[c + 1] = a
      /\ \A j \in 1 .. c : answers'[j] = answers[j]
  BY <1>4, AppendProperties
<1>6. ASSUME NEW k \in Requests(n)
      PROVE  answers'[Cardinality(Requests(k)')] = Answer(k)'
  <2>1. k \in 1 .. n /\ Cardinality(Requests(k)) \in 1 .. c
    BY RequestHasPlace
  <2>2. Requests(k)' = Requests(k) /\ Answer(k)' = Answer(k)
    BY <2>1, RequestsKept DEF Answer
  <2>3. answers[Cardinality(Requests(k))] = Answer(k)
    BY DEF AnswersAt
  <2>4. QED BY <1>5, <2>1, <2>2, <2>3
<1>7. answers'[Cardinality(Requests(n + 1)')] = Answer(n + 1)'
  BY <1>3, <1>5 DEF Answer, a
<1>8. ASSUME NEW k \in Requests(n + 1)'
      PROVE  answers'[Cardinality(Requests(k)')] = Answer(k)'
  <2>1. CASE k \in Requests(n)
    BY <1>6, <2>1
  <2>2. CASE k \notin Requests(n)
    <3>1. k = n + 1
      BY <1>1, <2>2
    <3>2. answers'[Cardinality(Requests(k)')] = Answer(k)'
          <=> answers'[Cardinality(Requests(n + 1)')] = Answer(n + 1)'
      BY <3>1 DEF Requests, Answer
    <3>3. QED BY <1>7, <3>2
  <2>3. QED BY <2>1, <2>2
<1>9. QED BY <1>3, <1>5, <1>8 DEF AnswersAt

LEMMA AnswersStep ==
  ASSUME TypeInv, AnswersInv, [Next]_vars
  PROVE  AnswersInv'
<1> SUFFICES ASSUME process' = "running"
             PROVE  \E n \in Nat : n = Answered' /\ AnswersAt(n)'
  BY DEF AnswersInv
<1>0. process = "running"
  BY Steps DEF ReceiveAck, ConnectAgain, Connect, Disconnect, Receive, ReceiveFails, Tell, TellDone,
               AddClient, AckClient, BeginPass, Visit, EndPass, vars
<1>1. PICK n \in Nat : n = Answered /\ AnswersAt(n)
  BY <1>0 DEF AnswersInv
<1>2. ASSUME NEW d \in Datagram, Receive(d)
      PROVE  /\ n = Len(handled) /\ Len(handled') = n + 1 /\ handled'[n + 1] = d
             /\ \A k \in 1 .. n : handled'[k] = handled[k]
  BY <1>1, <1>2, HandledGrows DEF Answered, Receive
<1>3. CASE \E d \in Datagram : ReceiveAck(d)
  <2>1. PICK d \in Datagram : ReceiveAck(d)
    BY <1>3
  <2>2. Receive(d) /\ d.kind = "ack" /\ UNCHANGED <<answers, callback>> /\ callback = "armed"
    BY <2>1 DEF ReceiveAck, Receive, Throw
  <2>3. AnswersAt(n + 1)' /\ Answered' = n + 1
    BY <1>1, <1>2, <2>2, AckUnanswered DEF Answered
  <2>4. QED BY <2>3
<1>4. CASE \E d \in Datagram : ConnectAgain(d) \/ Disconnect(d)
  <2>1. PICK d \in Datagram : ConnectAgain(d) \/ Disconnect(d)
    BY <1>4
  <2>2. Receive(d) /\ d.kind # "ack" /\ d.id # Cut /\ SendAck(d) /\ callback' = "armed"
    BY <2>1 DEF ConnectAgain, Disconnect, Receive, Reply
  <2>3. AnswersAt(n + 1)' /\ Answered' = n + 1
    BY <1>1, <1>2, <2>2, RequestAnswered DEF Answered
  <2>4. QED BY <2>3
<1>5. CASE \E d \in Datagram : Connect(d)
  <2>1. PICK d \in Datagram : Connect(d)
    BY <1>5
  <2>2. Receive(d) /\ UNCHANGED answers /\ callback' = "broadcast"
    BY <2>1 DEF Connect
  <2>3. AnswersAt(n)' /\ Answered' = n
    BY <1>1, <1>2, <2>2, AnswersKept DEF Answered
  <2>4. QED BY <2>3
<1>6. CASE AckClient
  <2>1. /\ Current \in Datagram /\ Current.kind = "connect" /\ Current = handled[Len(handled)]
        /\ Len(handled) \in Nat
    BY <1>6, CurrentIsDatagram DEF AckClient
  <2>2. /\ handled' = handled /\ n + 1 = Len(handled) /\ callback' = "armed"
        /\ Current.id # Cut /\ SendAck(Current)
    BY <1>1, <1>6, <2>1 DEF AckClient, Reply, Answered
  <2>3. handled'[n + 1] = Current
    BY <2>1, <2>2
  <2> DEFINE d == Current
  <2> HIDE DEF d
  <2>4. d \in Datagram /\ d.kind # "ack" /\ d.id # Cut /\ SendAck(d) /\ d = handled'[n + 1]
    BY <2>1, <2>2, <2>3 DEF d
  <2>5. AnswersAt(n + 1)' /\ Answered' = n + 1
    BY <1>1, <2>2, <2>4, RequestAnswered DEF Answered
  <2>6. QED BY <2>5
<1>7. CASE \/ ReceiveFails \/ \E c \in Endpoints : Tell(c)
           \/ TellDone \/ AddClient \/ BeginPass \/ Visit \/ EndPass \/ UNCHANGED vars
  <2>1. UNCHANGED <<handled, answers>> /\ Answered' = Answered
    BY <1>7 DEF ReceiveFails, Tell, TellDone, AddClient, BeginPass, Visit, EndPass, Throw, Answered,
                vars
  <2>2. AnswersAt(n)'
    BY <1>1, <2>1, AnswersKept
  <2>3. QED BY <1>1, <2>1, <2>2
<1>8. QED BY <1>3, <1>4, <1>5, <1>6, <1>7, Steps

(* Every request was answered, in turn, with its own id, and nothing else  *)
(* was: also the requests that changed nothing.                            *)
THEOREM RequestsAnswered == Spec => []AnswersFollowRequests
<1>1. Init => AnswersInv
  <2> SUFFICES ASSUME Init PROVE AnswersInv
    OBVIOUS
  <2>1. Len(handled) = 0 /\ Len(answers) = 0 /\ callback = "armed"
    BY EmptySeq DEF Init
  <2>2. Requests(0) = {}
    BY DEF Requests
  <2>3. AnswersAt(0)
    BY <2>1, <2>2, FS_EmptySet DEF AnswersAt
  <2>4. QED BY <2>1, <2>3 DEF AnswersInv, Answered
<1>2. AnswersInv => AnswersFollowRequests
  BY DEF AnswersInv, AnswersAt, Answered, Answer, AnswersFollowRequests, BetweenDatagrams
<1>3. QED BY TypeInit, TypeStep, AnswersStep, <1>1, <1>2, PTL DEF Spec

-------------------------------------------------------------------------------
(* While a newcomer is being told to the clients, at most one of them has  *)
(* been visited, and once one has, the message awaits an ack.  So there is *)
(* at most one client when the newcomer is added.                          *)
VisitedOnce ==
  callback = "broadcast" =>
    \/ rest = clients
    \/ /\ Current.from.address \in awaiting
       /\ \E c : clients \subseteq {c} \cup rest

LoneWhenAdding == callback = "add" => \E c : clients \subseteq {c}

AtMostTwo == \E c, d : clients \subseteq {c, d}

AudienceInv == VisitedOnce /\ LoneWhenAdding /\ AtMostTwo

(* There are no clients at first.                                          *)
LEMMA AudienceInit == Init => AudienceInv
BY DEF Init, AudienceInv, VisitedOnce, LoneWhenAdding, AtMostTwo

(* A step of the receive callback.                                         *)
LEMMA AudienceCallback ==
  ASSUME AudienceInv,
         \/ \E d \in Datagram : ReceiveAck(d) \/ ConnectAgain(d) \/ Connect(d) \/ Disconnect(d)
         \/ ReceiveFails
         \/ \E c \in Endpoints : Tell(c)
         \/ TellDone \/ AddClient \/ AckClient
  PROVE  AudienceInv'
<1> USE DEF AudienceInv, VisitedOnce, LoneWhenAdding, AtMostTwo
<1>1. CASE \E d \in Datagram : ReceiveAck(d) \/ ConnectAgain(d) \/ Connect(d)
  BY <1>1 DEF ReceiveAck, ConnectAgain, Connect, Receive, Throw
<1>2. CASE \E d \in Datagram : Disconnect(d)
  BY <1>2 DEF Disconnect, Receive
<1>3. CASE ReceiveFails
  BY <1>3 DEF ReceiveFails, Throw, Current
<1>4. CASE \E c \in Endpoints : Tell(c)
  <2>1. PICK c \in Endpoints : Tell(c)
    BY <1>4
  <2>2. CASE Current.from.address \in awaiting
    BY <2>1, <2>2 DEF Tell, Throw, Current
  <2>3. CASE Current.from.address \notin awaiting
    <3>1. rest = clients
      BY <2>1, <2>3 DEF Tell
    <3>2. /\ callback' = "broadcast" /\ clients' = clients
          /\ rest' = clients \ {c}
          /\ Current'.from.address \in awaiting'
      BY <2>1, <2>3, <3>1 DEF Tell, Current
    <3>3. clients' \subseteq {c} \cup rest'
      BY <3>2
    <3>4. QED BY <3>2, <3>3
  <2>4. QED BY <2>2, <2>3
<1>5. CASE TellDone
  BY <1>5 DEF TellDone
<1>6. CASE AddClient
  <2>1. PICK c : clients \subseteq {c}
    BY <1>6 DEF AddClient
  <2>2. clients' \subseteq {c, Current.from}
    BY <1>6, <2>1 DEF AddClient
  <2>3. QED BY <1>6, <2>2 DEF AddClient
<1>7. CASE AckClient
  BY <1>7 DEF AckClient
<1>8. QED BY <1>1, <1>2, <1>3, <1>4, <1>5, <1>6, <1>7

(* The loop of run() changes neither the clients nor what awaits an ack.   *)
LEMMA AudienceLoop ==
  ASSUME AudienceInv, BeginPass \/ Visit \/ EndPass \/ UNCHANGED vars
  PROVE  AudienceInv'
<1>1. UNCHANGED <<callback, clients, awaiting, rest, handled>>
  BY DEF BeginPass, Visit, EndPass, Throw, vars
<1>2. QED
  BY <1>1 DEF AudienceInv, VisitedOnce, LoneWhenAdding, AtMostTwo, Current

(* A set within a pair has two elements at most.                           *)
LEMMA PairBound ==
  ASSUME NEW S, NEW c, NEW d, S \subseteq {c, d}
  PROVE  Cardinality(S) <= 2
<1>1. IsFiniteSet({c}) /\ Cardinality({c}) = 1
  BY FS_Singleton
<1>2. IsFiniteSet({c} \cup {d}) /\ Cardinality({c} \cup {d}) \in {1, 2}
  BY <1>1, FS_AddElement
<1>3. S \subseteq {c} \cup {d}
  OBVIOUS
<1>4. Cardinality(S) <= Cardinality({c} \cup {d}) /\ Cardinality(S) \in Nat
  BY <1>2, <1>3, FS_Subset, FS_CardinalityType
<1>5. QED BY <1>2, <1>4

(* The server never has more than two clients: the second visit of a       *)
(* broadcast ends it before the newcomer is added.                         *)
THEOREM TwoClients == Spec => []NeverMoreThanTwo
<1>1. AudienceInv /\ [Next]_vars => AudienceInv'
  BY AudienceCallback, AudienceLoop DEF Next
<1>2. AudienceInv => NeverMoreThanTwo
  BY PairBound DEF AudienceInv, AtMostTwo, NeverMoreThanTwo
<1>3. QED BY <1>1, <1>2, AudienceInit, PTL DEF Spec
===============================================================================
