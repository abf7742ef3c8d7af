# Verification of Networking-Examples

TLA+ models of the networking programs of this repository, TLC runs that check
them on small instances, and TLAPS proofs of what holds for every instance.
Paths below are relative to the repository (`src/`).

## 1. Inventory

The repository holds small networking programs that do not build on each other,
except that the Boids game loads UnityNetworkingDLL. Each talks to its peer
through Winsock (or .NET's `UdpClient`), which is external.

| Component | State | Operations | Hard behaviour |
|---|---|---|---|
| **ThreadedServer** `ThreadedServer/ThreadedServer/main.cpp` | `buf`, `tempBuf`, `host[MAX_HOSTS]`, `h`, `hMutex`, one thread per connection | `main` accepts; `receive` appends to `buf`; `send` takes `buf` every `UPDATE_INTERVAL` and sends it to all hosts | three kinds of threads; `buf` under a mutex with a 50 ms timeout, `host` and `h` under none; non-blocking sockets whose `recv <= 0` closes the connection; reuse of `SOCKET` values; `host` and `buf` without bounds checks |
| **ThreadedServer_Client** `ThreadedServer_Client/ThreadedServer_Client/main.cpp` | counter `c`, socket | sends the counter, polls for an update | it leaves its loop only when `send` returns 0 |
| **UDPServer** `UDPServer/UDPServer/server.cpp` | vector `clients` | registers on `'0'`, relays on `'1'` | lost datagrams, resets from clients that have left, errors in mid-loop, a client that joins twice |
| **UDPClient** `UDPClient/UDPClient/client.cpp` | `running`, `sock`, two threads | `main` sends lines, `receive` prints | both threads close the socket, `main` waits for the other to notice |
| **CitaNetServer** `CitaNet/CitaNet/*.cs` | dictionaries `clients` and `messagesAwaitingAck` | `receiveCallback` (Ack, Connect, Disconnect), `run` (resends) | the two threads share a dictionary without a lock; requests repeated, reordered, lost; uncaught exceptions end the process |
| **UnityNetworkingDLL** `UnityNetworkingDLL/UnityNetworkingDLL/*` | socket, `running`, `received`, `newReceived`, `hasError`, `senderAddr` | `initialize`, `send`, `hasReceived`, `getLastReceived`, `hasError`, `cleanUp`; receive thread | flags shared without a lock and read-then-cleared; initialisation that goes on after errors |
| **Boids networking** `Assignment 1/Boids/Assets/Scripts/` (`BoidNetworkManager.cs`, `UIController.cs`, the end of `BoidFlock.Update`), `CitaNet/CitaNetWrapper.cs` | `initialized`, `remoteFlock` | start button, retry in every frame, receive and parse in every frame, send every `NETWORK_DELAY` | retries with errors left over, a peer started anew, lost and reordered flocks |
| **Boids flocking** `BoidFlock.cs`, `Boid.cs` | positions and velocities | `Update` | floating-point only |
| **Midterm** `Midterm/midterm_server.cpp`, `Midterm/midterm_client.cpp` | two positions, velocity, `recordPOS`, `packetDelay` | receive thread, timer, display, keyboard | receive thread and GLUT thread share positions without a lock; dead reckoning between datagrams; the last movement may not be sent |
| **Blocking pair** `Blocking_Server`, `Blocking_Client` | one connection | the server sends a line and waits for an answer; the client receives once and closes | an empty line sends nothing and both wait; the server asks on after the client has closed; a second client waits unaccepted until the server ends |
| **Non-blocking pair** `NonBlockingServer`, `NonBlockingClient` | one connection | a welcome every second until an error; poll and print | the client goes on with a closed socket |
| Build files, Unity assets, project settings | | | no behaviour |

What makes each component correct:

* ThreadedServer: whatever the threads do, what `recv` returned reaches the
  updates once, in order per client, and each client sees one gapless piece of
  the common order, apart from the losses the code decides on; every connection
  is in the table; closing a connection loses nothing that `recv` had returned.
* UDP chat: everybody registered is sent every event as often as registered,
  what is printed is a part of one common order, an error ends the server or a
  client and never leaves one hanging.
* CitaNetServer: the dictionary, the announcements, the acks and the messages
  awaiting one are functions of the sequence of datagrams received.
* Boids session: thread and socket are created and released in turn whatever
  fails, and every retry finds neither; a server that stays up, and a client beside
  it, is initialised in the end; initialised peers show each other's flocks anew.
* Midterm: the position taken last is shown whole, whatever is lost, late or
  left over from an earlier peer; no error closes a socket while the programs of a
  fresh server and its client run; peers whose last positions are sent and not
  lost show each other where they are. The code makes exceptions of a coordinate
  moved by dead reckoning and of a movement taken for the connect message.
* Blocking and non-blocking pairs: server and client wait for each other only
  after empty lines, the server notices that its client has left, what is said is
  heard, and when the server is gone nobody is left waiting, except the polling
  client whose connection ended in order.

PROJECT.json lists, under `hazards`, what can go wrong at which line, with the
properties that would catch it, and a note where the code itself lets it happen, so
that the model permits it and the properties only say how far it goes.

## 2. Modules

| Module | What it is |
|---|---|
| `ThreadedLink` | external: TCP connections as the two threaded programs use them |
| `ThreadedServer`, `ThreadedClient` | the two programs, one action per step between which another thread can run |
| `ThreadedSystem` | their composition, fairness, properties |
| `UpdateQueue` | abstract specification of what the threads make of `buf`: a queue |
| `ThreadedProofs` | theorems about `ThreadedSystem` from the threads to the buffer, the refinement of `UpdateQueue` included |
| `ThreadedStreamProofs` | theorems about the table of hosts and what the clients are sent |
| `StreamLemmas` | what `FlattenSeq` computes, and what a piece of a sequence is; used by two proof modules |
| `MCThreaded` | instances |
| `ChatRoom` | abstract specification of a chat: one order, everybody hears a part of it |
| `UDPLoopback` | external: datagrams on one machine |
| `UDPServer`, `UDPClient`, `UDPChat` | the two programs and their composition, with the refinement `Room` of `ChatRoom` |
| `UDPProofs`, `MCUDPChat` | theorems, the refinement of `ChatRoom` included; instances |
| `CitaNetServer` | the server in an open environment, with its properties |
| `CitaNetProofs`, `MCCitaNet` | theorems, instance |
| `NetworkManager` | the DLL: receive thread and the operations of the wrapper |
| `BoidsGame` | the game thread that calls it |
| `BoidsSession` | two peers, fairness, properties |
| `BoidsProofs`, `MCBoids` | theorems, instances |
| `MidtermSync` | the two programs of Midterm with their properties |
| `MidtermProofs`, `MCMidterm` | theorems, instance |
| `PairLink` | external: TCP connections as the four programs of the pairs use them |
| `PairServers`, `PairClients` | the two servers, the two clients |
| `PairSystem` | one server of either kind with clients of either kind, fairness, properties |
| `PairProofs`, `MCPair` | theorems, instance |

Operators whose comment begins with *Faulty* are variants of an action as a
plausible bug would leave it. No specification uses them; each was put in the
place of the action to see that a property fails.

### ThreadedServer and its clients

The receive thread of a connection and the client at its other end have the same
name `c`. `mpc`, `spc` and `rpc[c]` are the places of the accepting, sending and
receiving threads; the other variables have the names of the code. `SenderLocks`,
`CopyBuffer`, `ClearBuffer`, `SenderUnlocks` are the statements of `send` under
the mutex and `SendToHost` one turn of its loop, which reads `h` anew. `Receive`
or `ReceiveFails`, `ReceiverLocks`, `AppendMessage`, `ReceiverUnlocks` are
`receive`. `Accept`, `StartReceiver` and `CountHost` keep the order of
`host[h] = client`, `CreateThread` and `h++`, between which the new thread already
runs. A timeout of `WaitForSingleObject` can happen whenever another thread owns
the mutex. A write past `host` or `buf` leads to `process = "undefined"`, and
nothing is claimed afterwards. The history variables `order`, `flushed`,
`appended`, `since`, `missed` and `printed` record what happened; no action reads
them.

Modelled: MSG_SIZE records arrive whole, some time after they were sent: `uplink` is
what the connection took and the server has not read, and since a record may still
be in flight, `recv` may find nothing at any time (`ReceiveFails` has no condition).
The connection is then closed and what is in flight is lost. A full window makes the
server's `send` fail and a full buffer the client's (`SendIsRefused`), as does the
closed connection; the client counts on, and a message is named by how many the
connection took before it. A client killed by its user may or may not take unread data
with it; a closed `SOCKET` value may be used again. `WAIT_ABANDONED` is left out:
`MutexDiscipline` shows that no thread ends as the owner. `Sleep` is left out,
since any delay is possible anyway. A client connects once.

`Queue` maps `order` to the `log` of `UpdateQueue`, `appended` to `next` and
`flushed` to `taken`. The `strcat` of a receive thread is `Put`. Of the two
`strcpy` calls of the send thread the second, which clears `buf`, is `TakeAll`:
that everything in `buf` was copied when it is cleared is what the mutex has to
achieve, since between the two calls other threads run.

### UDP chat

`spc` is the place of the server's loop: receiving, or in one of the two loops
over `clients`, of which every turn is an action. `log` is the sequence of
datagrams handled and `sentTo[p]` what was sent to an address. In a client,
`cpc` is the place of `main` and `rpc` that of the receive thread; both close the
same socket. A port whose client ended may be used again by another one: that is
how an address comes to be registered twice. The addresses are 127.0.0.1 in the
code, so datagrams are neither reordered nor duplicated, and lost only at a full
socket. `WSAGetLastError` is taken to be 0 after a success and to hold the error
after a failure. A text may be too long for the 1024 bytes of a buffer, which ends the
server or, since the server puts an address in front of it, a client's receive
thread; which texts are that long is left to choice.

`Room` maps `heard` to `printed` and `log` to `log`. A step of the server that
takes a datagram is `Speak`; a step of a receive thread that prints is `Hear`;
everything else stutters. That `Hear` may only take events in order, after the
participant joined and not its own texts, is what the server's loop and the
order of the sockets have to achieve.

### CitaNetServer

No CitaNet client is in the repository, so `Endpoints` may send anything at any
time and the network may do anything to it: `Receive` takes any datagram, an ack
from anybody and of any id an announcement can have. A datagram that ends before its
fifth byte has the id `Cut`; reading the id throws (`Reply`, `ReceiveAck`), which for
a newcomer comes after the others were told and it was added, and for a disconnect
after the client was removed. `callback` is the place of `receiveCallback`:
armed, in the broadcast (each client visited is a step), before `clients.Add`,
before the ack. `loop` is the place of `run`. A dictionary that is changed
makes `MoveNext` of its enumerator throw (`modified`), `Add` of a key that exists
throws, `SendAsync` without an endpoint throws on an unconnected client, and
`EndReceive` throws after a reset, `ToInt32` at a short datagram; on .NET an exception that nobody catches ends
the process, here `process # "running"`. The order in which `Dictionary.Values`
is enumerated is left open. The id of a message about a newcomer is four bytes of
its address, whoever it is sent to.

### UnityNetworkingDLL and the Boids session

`NetworkManager` is the global object of the DLL, one per peer. `thread` is the
place of `receiveThread`; between `recvfrom` and the two assignments that
publish a message lies the place `store`, so that the game thread can come in
between. `game` is the place of the game thread: one frame is `ReadNew`,
`ClearNew` (the two halves of `hasReceived()`), `Parse` when there was
something, and `SendFlock`. What `getLastReceived()` sees during an assignment is
the old or the new text or neither (`torn`). `hasError()` is one step: what could
fall between its halves would only be logged. The start button passes
`retry = true`, its only caller, so `retryInit` is the place `off` or not.
`initialize(...)` when already initialised cannot happen, since the button is
hidden. Datagrams may be lost and taken in any order; duplication is left out,
since a flock that is shown twice is the same as one that is shown once. An
address is whether its socket is still open; the one in `senderAddr` is lost with
the process that holds it (`ProcessEnds`). The process may end at any moment,
which includes the `throwError("..." + code)` lines, whose argument points
outside the literal.

### Midterm

One module holds both programs, since they share their shape: a receive thread
that polls, and a GLUT thread that runs the timer, the keyboard and the display.
A position is the number of ticks that moved the box; both programs start their
boxes at the same places, and the text "0" of the connect message reads as the
start of the client's. `shown[p]` is what `p` draws of the other one, coordinate
by coordinate: `ServerTakes` or `ClientTakes` stores the first float of a
datagram and `StoreY` the second, and a frame can be drawn, or reckoned, in
between. `recvfrom` and the first assignment are one step: before the assignment
nothing another thread reads has changed except `sockAddr`, which the step
includes. In the server, `frame` is the place of `DisplayCallbackFunction`: when
`recordPOS` was seen false, `AddX` and `AddY` add the velocity to whatever stands
there by then. What comes of it is `Reckoned`, whatever the velocity is.

The first datagram a server receives is taken for the connect message, whatever it
is. `peer` is whose address `sockAddr` holds: nobody's, that of the client that
runs, or that of one that has gone. A server that sends before it has received
anything sends to `INADDR_ANY`; that fails, and it exits (`ServerSendFails`). A
datagram to a port without a socket is answered by a reset, which the next
`recvfrom` of the sender returns; the receive thread then closes the socket and
ends (`ReceiveFails`), and the next movement ends the program. A mistyped address
leaves the client running without thread (`LaunchClientFails`). `WSAGetLastError`
is taken to be 0 after a success.

Left to choice: the keys held at a tick (opposite ones cancel out: the position is
sent all the same), whether `packetDelay` has run off, when `f` toggles dead
reckoning. Datagrams may be lost and overtake one another; they are not
duplicated, and those on their way to a socket do not outlive it. One client runs
at a time, but one after the other may use the same server. `sent`, `fate` and
`session` are history; no action reads them for its guard. `fate[p]` is what became of
the datagram that `p` sent last: it is `fresh` while it is underway and when it was
taken last, else `lost`, `overtaken`, or `swallowed` as the connect message.

### The blocking and the non-blocking pair

All four programs use port 8888, so either server may meet clients of either kind:
`server` is chosen initially, `Polling` is the set of clients that run
`NonBlockingClient`. A server accepts one client and overwrites the handle of its
listening socket, which therefore stays open: with a backlog of 1 a second client
connects and waits, a third is refused. `wire` counts pieces of text; a `recv` may
return fewer than were sent, and a full connection drops the polling server's
text (`WSAEWOULDBLOCK`, unread). `EnterLine` sends no piece for an empty line.
No client ever sends, so the blocking server's `recv` returns only when its client
has left. `PollFails` closes the socket and stays in the loop (`spins`), where
every further `recv` fails and changes nothing. The end of a server ends its
connections with `fin` or `reset`, which the choice of Winsock and what is
unread decide; a polling client takes the return of 0 after `fin` for no error and
polls on.

## 3. Properties and runs

| Run | Instance | Shows |
|---|---|---|
| `threaded` | 2 clients (2 and 1 messages), 2 hosts, 2 socket values, buffer of 2, window of 1 | `TypeOK`, `MutexDiscipline`, `BufferIsUnflushedTail`, `ClientOrder`, `StreamIsContiguous`, `HostsAreCurrent`, `CloseLosesOnlyUnread`, `ImplementsQueue` |
| `threaded_table` | 3 clients that may leave, 2 socket values, 2 hosts | `EveryConnectionHasASlot`, `HostsAreCurrent` with reused values and a full table |
| `threaded_live` | 2 clients, one may leave, fair | `AppendedIsFlushed`, `DepartedClientIsReaped` |
| `threaded_termination` | 1 client, fair | **violated**: `ClientSeesTermination` |
| `udp_chat` | 2 ports with 2 datagrams each, sockets of 2, fair | `TypeOK`, `EveryoneIsTold`, `ImplementsRoom`, `ArrivedIsHandled`, `LeavingClientEnds` |
| `udp_chat_newcomer` | the same | **violated**: `OnlyOthersAreTold` |
| `citanet` | 3 addresses, one with 2 ports, 2 request ids and too short datagrams, 4 datagrams | `TypeOK`, `RegistryFollowsRequests`, `EveryoneLearnsOfNewcomers`, `AnswersFollowRequests`, `AwaitingIsUnacknowledged`, `LoneClientIsSafe`, `NeverMoreThanTwo` |
| `boids` | server started twice, client once, 1 failure, both may end | `TypeOK`, `ThreadDiscipline` |
| `boids_retry` | each started once, the client may end, 1 failure, fair | `RetrySucceeds` |
| `boids_show` | client started twice and may end, fair | `FlocksAreShown` |
| `midterm` | two peers; one movement each and dead reckoning, or one each and two launches of each, or two movements each; fair | `TypeOK`, `LastPositionIsShown`, `SessionHolds`, `PeersAgree` |
| `pair` | either server, two blocking clients and a polling one, connections and lines of 2 pieces, fair | `TypeOK`, `MutualWaitOnlyOnEmptyLine`, `DepartureIsNoticed`, `SpokenIsHeard`, `NobodyIsLeftWaiting` |

Deadlock is not checked: all these systems stop in the bounded models when the
bounds are used up, when the server has exited or when its memory is undefined.

The bounds:

* Threaded: two clients give every pair of receive threads, and the accepting
  and sending threads a third and fourth. Two messages of one client make an
  order to break, two updates in a row and a window of 1 make a full window; a
  buffer of 2 is overrun by the third message. The table run has as many closed
  connections as it needs for a socket value to come back and for one connection
  too many. Symmetry permutes clients with equal bounds and socket values; it is
  used in runs of safety properties only.
* UDP: two ports with two datagrams each allow joining, leaving, joining again
  and a text before, between and after. Sockets of two datagrams become full.
* CitaNet: three addresses are one more than the server can hold; four datagrams
  allow for two connects with an announcement, an ack of it by anybody, and a
  disconnect or a connect from the other port before, between or after; or for
  connect, disconnect, connect from the other port and disconnect again. Two ids tell
  an answer with its own id from one with another's. Symmetry permutes the two
  addresses with one port, and the ids.
* Boids: two launches of a peer give a restart in the middle of everything; one
  failure gives a failed initialisation whose thread leaves an error behind. A
  socket holds one datagram: more would only delay flocks.
* Midterm: `Budgets` bounds the ticks that move a box and the launches of a
  process; the set in flight needs no bound of its own, since equal datagrams are
  one. Two movements give three datagrams to reorder; two launches of each give
  datagrams and resets of a peer that has left to one that has just begun, and a
  server that keeps the address of a client that is gone. Dead reckoning, which
  doubles the states, needs one movement to race with. The other two
  budgets have none, so that there both properties ask for the very position.
* What `LastPositionIsShown` and `PeersAgree` leave out is what the code gets wrong
  (hazards in PROJECT.json). A coordinate may be one that dead reckoning has moved,
  at the server only and only where `f` is used (`Guesses`). The code does not send
  again, so a last position may stay unknown: when its datagram is lost or overtaken,
  when `packetDelay` has not run off and it is never sent, and when the server takes
  it for the connect message (`swallowed`). In this last case `LastPositionIsShown`
  says that the start is shown instead.
* `SessionHolds` is about sockets that close under a program that goes on. That the
  server exits in `sendto`, when a key is pressed before it has heard of its client,
  is the end of a program like any other and ends the session; and a client that
  starts after one that left does not begin one, since the server may still send to
  the address of the former and be reset.
* Pairs: of two blocking clients one is served and one waits unaccepted; the
  polling one is either. Two pieces let a `recv` return a part and a connection be
  full.

### Fairness

* Threads are scheduled: weak fairness of every thread as a whole. A wait
  for `hMutex` or a retry may still time out or fail. Never assumed: that a user
  types a line, starts a program, or ends it.
* `threaded_live` needs nothing more; a thread that gave up the mutex after 50 ms
  is a permitted outcome of both properties, and `AppendedIsFlushed` says so.
* In `BoidsSession`, strong fairness of taking a datagram says that `recvfrom`
  does not return errors for ever while datagrams keep arriving, and strong
  fairness of `SendFlock` that the timer runs off again and again and the network
  does not lose every datagram. Without the second no protocol over UDP would
  show anything. `FlocksAreShown` asks each peer to parse a flock it has newly
  received, again and again (`ShowFlock` is a step, so an old flock that stays on
  the screen does not count). It allows a run that again and again loses a race of
  the two threads (`LoseRace`): the code does not exclude it.
* `RetrySucceeds` assumes that `bind` and `sendto` do not fail for ever
  (`MaxFailures`), and asks nothing of a client without a server: what it sends may
  come back as an error of every attempt, and the retries then never end.
* In `MidtermSync`, weak fairness of the two receive threads, which poll without a
  pause. Nobody need press a key, and the display need not be drawn.
* In `PairSystem`, weak fairness of `accept`, of `recv`, of the polling server's
  `send` and of every client. Nobody need enter a line or kill a program, so a
  blocking server may ask for ever, and `NobodyIsLeftWaiting` begins when the server is
  gone.

### Findings

* `ThreadedServer_Client/ThreadedServer_Client/main.cpp:75`: the loop ends when
  `send` returns 0, "other side terminated conn". It returns `SOCKET_ERROR` then,
  and the client never ends.
* `UDPServer/UDPServer/server.cpp:74`: "broadcast to all other clients that a new
  one has joined" leaves out the last entry of the vector, not the newcomer's
  address. A client that joins again from the same port hears of itself.

Also worth knowing, though no comment of the code says otherwise: a CitaNet
server ends as soon as a third client connects (`TwoClients`), and any
announcement to a client ends it unless the ack comes before the next pass of
`run`. Without an announcement `broadcastMessage` and `run` do not throw
(`LoneClientIsSafe`); a reset and a datagram of fewer than five bytes end the server at
any time. The threaded server closes the connection of any client it finds nothing to
read from, with what that client has in flight; `recv` must have returned a message for it
to be safe (`CloseLosesOnlyUnread`). In Boids, a failed `initialize()` must be cleaned
up before the next attempt, since it has started a thread all the same (the
mutant of `ThreadDiscipline`).

## 4. Proofs

Every safety invariant, the action property `CloseLosesOnlyUnread` and both
refinements are checked by TLAPS for all values of the constants that satisfy the
assumptions named in the modules. These say that sizes are naturals
(`ServerAssumption`, `ClientAssumption`, `MidtermAssumption`, `GameAssumption`), that
a window, a connection or a socket holds something (`WindowAssumption`,
`PairLinkAssumption`, `PeerAssumption`, `LoopbackAssumption`), that a line fits into
a connection (`MaxLineAssumption`), and that distinct things have distinct names.
No theorem bounds the number of clients, endpoints, ports or messages. Each
inductive invariant was also checked by TLC on the instance of its run.

### ThreadedServer and its clients

`ThreadedProofs`:

* `TypeOKCorrect`: `Spec => []TypeOK`. `TypeOK` alone is not inductive: the
  accepting thread stores at `h` and counts later, and `StartReceiver` needs
  `client` to be a connection and `h` to be below `MaxHosts`, which `PendingHost`
  adds (`TypeInv`).
* `HandOverCorrect`: a connection is queued once, accepted once, and gets one
  receive thread (`HandOver`, four facts about the queue and the accepting thread).
* `MutexCorrect`: `MutexDiscipline` is inductive as it stands: each of
  its equivalences is kept by the steps of its own thread because a thread that
  locks finds no owner.
* `BufferCorrect`: `BufferIsUnflushedTail` with `CopyIsFresh`: between
  `CopyBuffer` and `ClearBuffer`, `tempBuf` is still `buf`. This needs
  `MutexDiscipline`: a receive thread that appends owns the mutex, so
  the send thread is not there.
* `QueueCorrect`: `Spec => ImplementsQueue`, so the shared buffer with its mutex,
  timeouts and separate string calls implements `UpdateQueue`. Every step maps to
  `Put` (`AppendMessage`), to `TakeAll` (`ClearBuffer`) or to a stutter. `TakeAll`
  needs `BufferInvCorrect`, the invariant behind `BufferCorrect`: what `ClearBuffer`
  counts as flushed, the length of `tempBuf`, is all that was in `buf`.
* `OrderCorrect` and `CloseCorrect`, from `WayCorrect`: what a connection has taken
  and the server has not appended is underway in order, in the receive thread's
  `recBuf` and then in the connection (`UplinkInOrder`, `HandInOrder`,
  `CountInOrder`). So the next message appended is the connection's next one, and
  when the receive thread waits for a message, all but what is still in the
  connection was appended.

`ThreadedStreamProofs`:

* `SlotCorrect`: `Spec => []EveryConnectionHasASlot`, from `SlotInv`: a slot that
  holds a thread lies below `h`, or is `h` while its host is about to be counted; so
  the slot `StartReceiver` writes is free, and a connection accepted anew has no slot
  yet (`HandOver`).
* `ContiguousCorrect` and `HostsCorrect`: `StreamIsContiguous` and
  `HostsAreCurrent`, both from `StreamInv`, which is about every moment of the send
  loop and not only of its pauses. `End(c)` is how far `c` must have got: all that
  was taken from `buf` when the loop has passed its slot (`Served`), all but the update
  underway when it has not. A client whose connection is open, that is counted and
  not excepted has a stream that is a piece of the order ending at `End(c)` and
  beginning no later than when it was counted; one that is not counted yet has
  nothing. `SendToHost` moves exactly one client to the new end: the one in the slot,
  since any other with that socket value is excepted (`Recycled`), and `SlotInv`
  says that no client is in two slots. `CountHost` in the middle of the loop is
  harmless because its slot is never behind `i` (`LoopInv`).

### UDP chat

`UDPProofs`:

* `TypeCorrect`: `Spec => []TypeOK`. `TypeInv` adds that `packet` is an event while a
  loop sends it on, and that the socket of a port is open only in the loop of `main`.
* `ChatImplementsRoom`: `Spec => ImplementsRoom`. `ChatInv` says that neither the
  server's socket nor its log brings two datagrams of one port out of order
  (`Numbered`), that every entry of the vector has joined, the last one only in
  the event being announced (`EntriesJoined`), and that what waits in a port's socket
  is an event it may still hear after what it has printed and what waits before
  (`Delivery`). Taking a datagram is then `Speak`, printing one is `Hear`.
* `EveryoneTold`: `Spec => []EveryoneIsTold`. The loops go over the vector, the
  property over the log; `Tallied` connects them: a port has as many entries in
  the vector as joins in the log. `InLoop` says, of every turn, that a port was sent
  what was due before and the packet once for each of its entries already visited.

### CitaNetServer

`CitaNetProofs`, all about `Spec` with `TypeInv` (while the callback is at work, the
last datagram is the connect of an address that has no client, and only clients
remain to be visited):

* `TypeCorrect`; `RegistryCorrect`: `RegistryFollowsRequests`. Between datagrams
  `clients` is `Registered` of all of them, during a broadcast of all but the last
  (`RegistryAt`, `Done`). `Registered` looks for the first of several connects; that
  a repeated connect changes nothing needs the second half of `RegistryAt`, that
  every address from which a connect is open has a client.
* `NewcomersAnnounced`, `AwaitingCorrect`, `LoneClient`: from `NoticeInv`. Those still
  to be told are `rest`, and the table of messages awaiting an ack is what was
  told and not acknowledged since; so a change of the table takes a notice, and
  without one neither loop over the table throws. Too short datagrams may end the
  server in every operation, and none of the three says anything against it.
* `RequestsAnswered`: `AnswersFollowRequests`, by counting: `answers` is as long as
  there are requests, and the answer at the place of a request is its own.
* `TwoClients`: `NeverMoreThanTwo`. While a newcomer is being told to the clients, at
  most one of them has been visited, and then the message awaits an ack
  (`VisitedOnce`), so a second visit throws; hence at most one client is there
  when the newcomer is added.

### Boids session

`BoidsProofs`, with one lemma for each operation of the DLL:

* `TypeCorrect`: `Spec => []TypeOK`, inductive as it stands.
* `DisciplineCorrect`: `Spec => []ThreadDiscipline`. `DisciplineInv` adds what each
  place of the game thread owes: an attempt that is being checked has a good socket
  or an error, and the receive thread ends only when `cleanUp` waits for it. The
  property itself covers the retries: a peer that is about to initialize, whether at
  first or after a failure (`BeforeInitialize`), has neither thread nor socket.

### Midterm

`MidtermProofs`:

* `TypeCorrect`: `Spec => []TypeOK`, which includes that a position shown, stored or
  underway was one of the other's box, and that the moves stay within the budget.
* `SessionKept`: `Spec => []SessionHolds`. A reset answers a datagram that met a
  closed socket, so `SessionInv` follows the datagrams that could be answered: a
  closed program has nothing on its way to or from it, a server that knows nobody
  has sent nothing, and in a session only its client has sent to the server.
* `LastPositionShown`: `Spec => []LastPositionIsShown`. `ShownInv` also says what is
  held while only the first coordinate is stored, that a server that is not
  connected still shows the start, which is what it goes on showing when it swallows
  a movement, and that nothing is reckoned where `f` is not used.

### Pairs

`PairProofs`:

* `TypeCorrect`: `Spec => []TypeOK`, inductive as it stands.
* `WaitCorrect`: `Spec => []MutualWaitOnlyOnEmptyLine`. The invariant says that
  a server that is past `accept` serves a client that has been started
  (`ServedStarted`), has said nothing before that (`QuietBeforeAccept`), and that
  what was said to a blocking client that is there is still on the wire
  (`UnreadIsOnTheWire`), since such a client reads only to leave.

### Lemmas

`StreamLemmas` proves what the recursive `FlattenSeq` of the community modules
does: `FlattenAppend` (an update appended is joined at the end) and `FlattenHead` (the
first update stands at the front). The library's induction theorems take an operator
as a parameter, which the provers cannot instantiate, so `SetInduction` derives
induction over a set of naturals from the well-foundedness of `<`, and
`JoinExists` and `JoinUnique` use it to justify the recursion. `Piece` is "stands in
the order, behind so many elements", with the lemmas that turn it into the
`IsPrefix` and `IsSuffix` of the properties.

### Only model-checked

Liveness is out of the prover's reach and stays with TLC: `AppendedIsFlushed`,
`DepartedClientIsReaped`, `ArrivedIsHandled`, `LeavingClientEnds`, `RetrySucceeds`,
`FlocksAreShown`, `PeersAgree`, `DepartureIsNoticed`, `SpokenIsHeard`,
`NobodyIsLeftWaiting`, and so are the two properties that are violated.

## 5. Plan

Done: every program of the repository that communicates, in this order: the
threaded server, the UDP chat with its abstract room, CitaNet, the Boids session,
Midterm, the two pairs, and the abstract queue of the threaded server. Proved: every
safety property the runs check.

Next: safety facts that the liveness properties rest on and that no run states yet,
in particular of the pairs (what a server that has said something and a client
that has not read it look like) and of the Boids session (what a received flock says
of the peer that sent it).

## 6. Not modelled

* Boids flocking: movement of the fish is floating-point arithmetic of one thread
  and interacts with nothing but the sending of positions, which is modelled.
* Start-up errors that end a program before anything happens, in all programs.
* What text says and how numbers are written; a Midterm velocity and the
  uninitialised or infinite value it may have; the drawing.
* Build files, Unity assets and project settings: no behaviour.
