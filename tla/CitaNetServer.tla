---------------------------- MODULE CitaNetServer ----------------------------
(***************************************************************************)
(* CitaNet/CitaNet/CitaNetServer.cs: a UDP server that keeps a dictionary  *)
(* of clients, tells them of newcomers and keeps what it told them in      *)
(* messagesAwaitingAck.  Two threads: the receive callback, of which one   *)
(* runs at a time, and the loop of run(), which enumerates                 *)
(* messagesAwaitingAck without a lock.  An exception that nobody catches   *)
(* ends the process, on either thread.                                     *)
(*                                                                         *)
(* The clients are not in the repository.  They may send anything at any   *)
(* time, and the network may delay, repeat, reorder and lose datagrams:    *)
(* the server may receive any request or ack from anybody at any time.     *)
(* An empty datagram, and one of another kind, changes nothing and is left *)
(* out; so is an ack of an id that no address has.                         *)
(***************************************************************************)
EXTENDS Naturals, FiniteSets, Sequences

CONSTANTS
  Endpoints,   \* records with the fields address and port
  RequestIDs,  \* the ids clients give to their requests
  Cut,         \* no id: the datagram ends before its fifth byte
  MaxHandled   \* bound: datagrams received

ASSUME EndpointAssumption ==
  /\ \A e \in Endpoints : DOMAIN e = {"address", "port"}
  /\ Cut \notin RequestIDs \cup {e.address : e \in Endpoints}
  /\ MaxHandled \in Nat

Addresses == {e.address : e \in Endpoints}

(* The message about a newcomer has the bytes of its address where the id  *)
(* of a message is read: its id is the address, whoever it is sent to.     *)
Datagram ==
  [kind : {"connect", "disconnect"}, from : Endpoints, id : RequestIDs \cup {Cut}]
    \cup [kind : {"ack"}, from : Endpoints, id : Addresses \cup {Cut}]

VARIABLES
  process,   \* running, or the exception that ended it
  callback,  \* receiveCallback: armed, broadcast, add, ack
  clients,   \* the endpoints in the dictionary, whose keys are the addresses
  awaiting,  \* the keys of messagesAwaitingAck
  rest,      \* clients that broadcastMessage has still to visit
  loop,      \* run(): pass (between two enumerations) or scan
  modified,  \* messagesAwaitingAck was changed since its enumeration began
  handled,   \* history: datagrams received
  told,      \* history: [about, to, nth], newcomer told to a client by the nth
  answers    \* history: acks sent

vars == <<process, callback, clients, awaiting, rest, loop, modified, handled, told, answers>>

(* Thrown by broadcastMessage and by the loop of run(), and by the others. *)
TableExceptions == {"duplicateKey", "notConnected", "collectionModified"}
Exceptions == TableExceptions \cup {"connectionReset", "tooShort"}

Init ==
  /\ process = "running"
  /\ callback = "armed"
  /\ clients = {}
  /\ awaiting = {}
  /\ rest = {}
  /\ loop = "pass"
  /\ modified = FALSE
  /\ handled = <<>>
  /\ told = {}
  /\ answers = <<>>

Known(a) == \E c \in clients : c.address = a

(* The datagram the callback is at work on.                                *)
Current == handled[Len(handled)]

SendAck(d) == answers' = Append(answers, [to |-> d.from, id |-> d.id])

(* ToInt32 of bytes 1 to 4, which throws when they are not all there, and  *)
(* sendAck.                                                                *)
Reply(d) ==
  IF d.id = Cut
  THEN process' = "tooShort" /\ UNCHANGED answers
  ELSE SendAck(d) /\ UNCHANGED process

Throw(exception) ==
  /\ process' = exception
  /\ UNCHANGED <<callback, clients, awaiting, rest, loop, modified>>

-------------------------------------------------------------------------------
(* EndReceive returns a datagram to the armed callback.                    *)
Receive(d) ==
  /\ process = "running" /\ callback = "armed" /\ Len(handled) < MaxHandled
  /\ handled' = Append(handled, d)

(* EndReceive throws when an earlier datagram has met a closed port, which *)
(* may happen with any client that was sent something and has left.        *)
ReceiveFails ==
  /\ process = "running" /\ callback = "armed" /\ answers # <<>>
  /\ Throw("connectionReset")
  /\ UNCHANGED <<handled, told, answers>>

(* Faulty: the ack of somebody who is not a client is ignored.             *)
ReceiveAckOfClients(d) ==
  /\ d.kind = "ack"
  /\ Receive(d)
  /\ d.id # Cut
  /\ awaiting' = IF d.from \in clients THEN awaiting \ {d.id} ELSE awaiting
  /\ modified' = (modified \/ d.id \in awaiting)
  /\ UNCHANGED <<process, callback, clients, rest, loop, told, answers>>

(* Removes what has the id of the ack, whoever sent the ack.               *)
ReceiveAck(d) ==
  /\ d.kind = "ack"
  /\ Receive(d)
  /\ IF d.id = Cut
     THEN Throw("tooShort")
     ELSE /\ awaiting' = awaiting \ {d.id}
          /\ modified' = (modified \/ d.id \in awaiting)
          /\ UNCHANGED <<process, callback, clients, rest, loop>>
  /\ UNCHANGED <<told, answers>>

(* Faulty: a client that is connected already is not answered.             *)
ConnectAgainUnanswered(d) ==
  /\ d.kind = "connect"
  /\ Known(d.from.address)
  /\ Receive(d)
  /\ UNCHANGED <<process, callback, clients, awaiting, rest, loop, modified, told, answers>>

ConnectAgain(d) ==
  /\ d.kind = "connect"
  /\ Known(d.from.address)
  /\ Receive(d)
  /\ Reply(d)
  /\ UNCHANGED <<callback, clients, awaiting, rest, loop, modified, told>>

(* Faulty: the newcomer is told, too.                                      *)
ConnectTellsAll(d) ==
  /\ d.kind = "connect"
  /\ ~Known(d.from.address)
  /\ Receive(d)
  /\ callback' = "broadcast"
  /\ rest' = clients \cup {d.from}
  /\ UNCHANGED <<process, clients, awaiting, loop, modified, told, answers>>

(* Faulty: a newcomer is a new endpoint and not a new address.             *)
ConnectByEndpoint(d) ==
  /\ d.kind = "connect" /\ d.from \notin clients
  /\ Receive(d)
  /\ callback' = "broadcast"
  /\ rest' = clients
  /\ UNCHANGED <<process, clients, awaiting, loop, modified, told, answers>>

(* A newcomer: broadcastMessage begins.                                    *)
Connect(d) ==
  /\ d.kind = "connect"
  /\ ~Known(d.from.address)
  /\ Receive(d)
  /\ callback' = "broadcast"
  /\ rest' = clients
  /\ UNCHANGED <<process, clients, awaiting, loop, modified, told, answers>>

(* Faulty: the message replaces the one that awaits an ack.                *)
TellAgain(c) ==
  /\ process = "running" /\ callback = "broadcast" /\ c \in rest
  /\ told' = told \cup {[about |-> Current.from.address, to |-> c, nth |-> Len(handled)]}
  /\ awaiting' = awaiting \cup {Current.from.address}
  /\ modified' = TRUE
  /\ rest' = rest \ {c}
  /\ UNCHANGED <<process, callback, clients, loop, handled, answers>>

(* The send to a client and messagesAwaitingAck.Add, which throws when     *)
(* the message, that is the newcomer's address, is awaiting an ack already.*)
Tell(c) ==
  /\ process = "running" /\ callback = "broadcast" /\ c \in rest
  /\ told' = told \cup {[about |-> Current.from.address, to |-> c, nth |-> Len(handled)]}
  /\ IF Current.from.address \in awaiting
     THEN Throw("duplicateKey")
     ELSE /\ awaiting' = awaiting \cup {Current.from.address}
          /\ modified' = TRUE
          /\ rest' = rest \ {c}
          /\ UNCHANGED <<process, callback, clients, loop>>
  /\ UNCHANGED <<handled, answers>>

TellDone ==
  /\ process = "running" /\ callback = "broadcast" /\ rest = {}
  /\ callback' = "add"
  /\ UNCHANGED <<process, clients, awaiting, rest, loop, modified, handled, told, answers>>

AddClient ==
  /\ process = "running" /\ callback = "add"
  /\ clients' = clients \cup {Current.from}
  /\ callback' = "ack"
  /\ UNCHANGED <<process, awaiting, rest, loop, modified, handled, told, answers>>

AckClient ==
  /\ process = "running" /\ callback = "ack"
  /\ Reply(Current)
  /\ callback' = IF process' = "running" THEN "armed" ELSE callback
  /\ UNCHANGED <<clients, awaiting, rest, loop, modified, handled, told>>

(* Faulty: the endpoint is removed and not the address.                    *)
DisconnectEndpoint(d) ==
  /\ d.kind = "disconnect"
  /\ Receive(d)
  /\ clients' = clients \ {d.from}
  /\ Reply(d)
  /\ UNCHANGED <<callback, awaiting, rest, loop, modified, told>>

(* Removes the client at the address, if there is one, whatever its port.  *)
Disconnect(d) ==
  /\ d.kind = "disconnect"
  /\ Receive(d)
  /\ clients' = {c \in clients : c.address # d.from.address}
  /\ Reply(d)
  /\ UNCHANGED <<callback, awaiting, rest, loop, modified, told>>

-------------------------------------------------------------------------------
(* foreach creates the enumerator of messagesAwaitingAck.Values.           *)
BeginPass ==
  /\ process = "running" /\ loop = "pass"
  /\ loop' = "scan"
  /\ modified' = FALSE
  /\ UNCHANGED <<process, callback, clients, awaiting, rest, handled, told, answers>>

(* MoveNext throws when the dictionary was changed, else visits a message. *)
(* timeOut is 0 at first and the elapsed time not negative, so the first   *)
(* visit sends the message to its endpoint, which is never set: SendAsync  *)
(* throws on a socket that is not connected.                               *)
Visit ==
  /\ process = "running" /\ loop = "scan"
  /\ modified \/ awaiting # {}
  /\ Throw(IF modified THEN "collectionModified" ELSE "notConnected")
  /\ UNCHANGED <<handled, told, answers>>

EndPass ==
  /\ process = "running" /\ loop = "scan" /\ ~modified /\ awaiting = {}
  /\ loop' = "pass"
  /\ UNCHANGED <<process, callback, clients, awaiting, rest, modified, handled, told, answers>>

Next ==
  \/ \E d \in Datagram : ReceiveAck(d)
  \/ \E d \in Datagram : ConnectAgain(d)
  \/ \E d \in Datagram : Connect(d)
  \/ \E d \in Datagram : Disconnect(d)
  \/ ReceiveFails
  \/ \E c \in Endpoints : Tell(c)
  \/ TellDone \/ AddClient \/ AckClient
  \/ BeginPass \/ Visit \/ EndPass

Spec == Init /\ [][Next]_vars
-------------------------------------------------------------------------------
(* Every variable holds a value the declarations of the code allow; an     *)
(* address is the key of one client at most.                               *)
TypeOK ==
  /\ process \in {"running"} \cup Exceptions
  /\ callback \in {"armed", "broadcast", "add", "ack"}
  /\ clients \subseteq Endpoints
  /\ \A c, d \in clients : c.address = d.address => c = d
  /\ awaiting \subseteq Addresses
  /\ rest \subseteq Endpoints
  /\ loop \in {"pass", "scan"}
  /\ modified \in BOOLEAN
  /\ handled \in Seq(Datagram)
  /\ told \subseteq [about : Addresses, to : Endpoints, nth : 1 .. Len(handled)]
  /\ answers \in Seq([to : Endpoints, id : RequestIDs])

Requested(kind, a, k) == handled[k].kind = kind /\ handled[k].from.address = a

(* e was the first to connect from its address, or the first after a       *)
(* disconnect from there, and none followed up to the k-th datagram.       *)
Registered(e, k) ==
  \E j \in 1 .. k :
    /\ handled[j].kind = "connect" /\ handled[j].from = e
    /\ \A m \in j + 1 .. k : ~Requested("disconnect", e.address, m)
    /\ \A m \in 1 .. j - 1 :
         Requested("connect", e.address, m)
           => \E n \in m + 1 .. j - 1 : Requested("disconnect", e.address, n)

Newcomer(k) ==
  /\ handled[k].kind = "connect"
  /\ \A e \in Endpoints : Registered(e, k - 1) => e.address # handled[k].from.address

Audience(k) == {e \in Endpoints : Newcomer(k) /\ Registered(e, k - 1)}

BetweenDatagrams == process = "running" /\ callback = "armed"

(* Between two datagrams the dictionary is what the requests received so   *)
(* far make of it, whatever their order and however often they came.       *)
RegistryFollowsRequests ==
  BetweenDatagrams => clients = {e \in Endpoints : Registered(e, Len(handled))}

(* Every newcomer was told to all that were registered before it came, and *)
(* to nobody else: not to itself, and not again when it connects again.    *)
EveryoneLearnsOfNewcomers ==
  BetweenDatagrams =>
    told = UNION {{[about |-> handled[k].from.address, to |-> e, nth |-> k] : e \in Audience(k)} :
                    k \in DOMAIN handled}

(* The requests among the first k datagrams: all but the acks.             *)
Requests(k) == {j \in 1 .. k : handled[j].kind # "ack"}

(* Every request was answered, in turn, with its own id: also the ones     *)
(* that changed nothing, so that a client whose ack was lost can try again.*)
(* The answer to a request stands where the number of requests up to it    *)
(* says, and there are no other answers.                                   *)
AnswersFollowRequests ==
  BetweenDatagrams =>
    /\ Len(answers) = Cardinality(Requests(Len(handled)))
    /\ \A k \in Requests(Len(handled)) :
         answers[Cardinality(Requests(k))] = [to |-> handled[k].from, id |-> handled[k].id]

(* What awaits an ack is exactly the newcomers that were told to somebody  *)
(* and not acknowledged since, by anybody.                                 *)
AwaitingIsUnacknowledged ==
  BetweenDatagrams =>
    awaiting = {t.about : t \in {u \in told :
      \A k \in u.nth + 1 .. Len(handled) :
        ~(handled[k].kind = "ack" /\ handled[k].id = u.about)}}

(* On a server that has never had a newcomer beside another client neither *)
(* broadcastMessage nor the loop of run() throws, whatever its one client, *)
(* or a sequence of them, sends: what else can end it is the reset of a    *)
(* client that has left, and a datagram too short to hold an id.           *)
LoneClientIsSafe ==
  process \in TableExceptions => \E k \in DOMAIN handled : Audience(k) # {}

(* The message about a newcomer has the same id for everybody it is sent   *)
(* to, and the second one cannot be awaited: there are never more than two *)
(* clients, and a third one ends the server.                               *)
NeverMoreThanTwo == Cardinality(clients) <= 2
===============================================================================
