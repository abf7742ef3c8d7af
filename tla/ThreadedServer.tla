---------------------------- MODULE ThreadedServer ----------------------------
(***************************************************************************)
(* ThreadedServer/ThreadedServer/main.cpp: a TCP server with one thread    *)
(* that accepts, one receive thread per connection and one send thread.    *)
(* The receive threads append what they read to the shared buffer buf; the *)
(* send thread takes the buffer every UPDATE_INTERVAL and sends it to all  *)
(* hosts.  hMutex guards buf.  The table host and its counter h are shared *)
(* by the accepting thread and the send thread without any lock.           *)
(*                                                                         *)
(* Thread c of Clients is the receive thread of the connection of c.       *)
(* A thread takes a step only while the process runs.                      *)
(***************************************************************************)
EXTENDS ThreadedLink

CONSTANTS
  Handles,        \* SOCKET values Winsock hands out; a closed one is reused
  InvalidSocket,  \* INVALID_SOCKET
  MaxHosts,       \* MAX_HOSTS, the length of host and aThreads
  BufMessages,    \* messages that the MSG_SIZE bytes of buf hold
  Sender,         \* the send thread, as an owner of hMutex
  NoThread        \* no owner

ASSUME ServerAssumption ==
  /\ MaxHosts \in Nat
  /\ BufMessages \in Nat
  /\ InvalidSocket \notin Handles
  /\ Sender \notin Clients
  /\ NoThread \notin Clients \cup {Sender}

VARIABLES
  process,   \* running, exited (ExitProcess) or undefined (write past an array)
  mpc,       \* accepting thread: accept, start, count
  client,    \* connection returned by the last accept
  host, h,   \* table of sockets and its counter
  aThreads,  \* receive threads by table slot
  sock,      \* the SOCKET of each accepted connection
  owner,     \* owner of hMutex
  buf,       \* the shared buffer, a sequence of messages
  spc,       \* send thread: wait, copy, clear, release, send, exited
  tempBuf,   \* the update being sent
  i,         \* the loop counter of the send thread
  rpc,       \* receive threads: none, recv, wait, append, release, exited
  recBuf,    \* the message a receive thread has read
  order,     \* history: every message appended to buf, in order
  flushed,   \* history: how many of them the send thread took out of buf
  appended,  \* history: how many of each client's messages were appended
  since      \* history: flushed when each client's host was counted

hostVars == <<mpc, client, host, h, aThreads, sock>>
historyVars == <<order, flushed, appended, since>>
serverVars == <<process, hostVars, owner, buf, spc, tempBuf, i, rpc, recBuf, historyVars>>

Slots == 0 .. MaxHosts - 1
Sockets == Handles \cup {InvalidSocket}

ServerTypeOK ==
  /\ process \in {"running", "exited", "undefined"}
  /\ mpc \in {"accept", "start", "count"}
  /\ client \in Clients \cup {NoThread}
  /\ host \in [Slots -> Sockets]
  /\ h \in 0 .. MaxHosts
  /\ aThreads \in [Slots -> Clients \cup {NoThread}]
  /\ sock \in [Clients -> Sockets]
  /\ owner \in Clients \cup {Sender, NoThread}
  /\ buf \in Seq(Message) /\ Len(buf) <= BufMessages
  /\ spc \in {"wait", "copy", "clear", "release", "send", "exited"}
  /\ tempBuf \in Seq(Message) /\ Len(tempBuf) <= BufMessages
  /\ i \in 0 .. MaxHosts
  /\ rpc \in [Clients -> {"none", "recv", "wait", "append", "release", "exited"}]
  /\ recBuf \in [Clients -> Message]
  /\ order \in Seq(Message)
  /\ flushed \in Nat
  /\ appended \in [Clients -> Nat]
  /\ since \in [Clients -> Nat]

(* The state after listen() and the CreateThread of the send thread.       *)
ServerInit ==
  /\ process = "running"
  /\ mpc = "accept"
  /\ client = NoThread
  /\ host = [s \in Slots |-> InvalidSocket]
  /\ h = 0
  /\ aThreads = [s \in Slots |-> NoThread]
  /\ sock = [c \in Clients |-> InvalidSocket]
  /\ owner = NoThread
  /\ buf = <<>>
  /\ spc = "wait"
  /\ tempBuf = <<>>
  /\ i = 0
  /\ rpc = [c \in Clients |-> "none"]
  /\ recBuf = [c \in Clients |-> [from |-> c, n |-> 0]]
  /\ order = <<>>
  /\ flushed = 0
  /\ appended = [c \in Clients |-> 0]
  /\ since = [c \in Clients |-> 0]

-------------------------------------------------------------------------------
(***************************************************************************)
(* The accepting thread: main.                                             *)
(***************************************************************************)

(* A handle is free unless it names a connection that is open.             *)
FreeHandles == Handles \ {sock[c] : c \in {d \in Clients : conn[d] = "open"}}

(* accept() returns the oldest queued connection, and the code stores it   *)
(* in host[h] without a check of h or of the value.  accept() may fail     *)
(* when the client is gone by then: the slot is used all the same.         *)
Accept ==
  /\ process = "running" /\ mpc = "accept" /\ backlog # <<>> /\ h < MaxHosts
  /\ \E s \in FreeHandles \cup
              (IF peer[Head(backlog)] = "gone" THEN {InvalidSocket} ELSE {}) :
        /\ host' = [host EXCEPT ![h] = s]
        /\ sock' = [sock EXCEPT ![Head(backlog)] = s]
        /\ conn' = [conn EXCEPT ![Head(backlog)] =
                      IF s = InvalidSocket THEN "closed" ELSE "open"]
  /\ client' = Head(backlog)
  /\ backlog' = Tail(backlog)
  /\ mpc' = "start"
  /\ UNCHANGED <<h, aThreads, peer, uplink, downlink, missed, process, owner,
                 buf, spc, tempBuf, i, rpc, recBuf, historyVars>>

(* With MAX_HOSTS entries in use the same store writes past the array.     *)
AcceptPastTable ==
  /\ process = "running" /\ mpc = "accept" /\ backlog # <<>> /\ h = MaxHosts
  /\ process' = "undefined"
  /\ UNCHANGED <<linkVars, hostVars, owner, buf, spc, tempBuf, i, rpc, recBuf, historyVars>>

(* CreateThread of the receive thread: it runs before h counts its host.   *)
StartReceiver ==
  /\ process = "running" /\ mpc = "start"
  /\ aThreads' = [aThreads EXCEPT ![h] = client]
  /\ rpc' = [rpc EXCEPT ![client] = "recv"]
  /\ mpc' = "count"
  /\ UNCHANGED <<client, host, h, sock, linkVars, process, owner, buf, spc,
                 tempBuf, i, recBuf, historyVars>>

(* Faulty variant: the host is never counted.                              *)
CountHostForgotten ==
  /\ process = "running" /\ mpc = "count"
  /\ mpc' = "accept"
  /\ UNCHANGED <<client, host, h, aThreads, sock, linkVars, process, owner, buf,
                 spc, tempBuf, i, rpc, recBuf, historyVars>>

CountHost ==
  /\ process = "running" /\ mpc = "count"
  /\ h' = h + 1
  /\ since' = [since EXCEPT ![client] = flushed]
  /\ mpc' = "accept"
  /\ UNCHANGED <<client, host, aThreads, sock, linkVars, process, owner, buf,
                 spc, tempBuf, i, rpc, recBuf, order, flushed, appended>>

-------------------------------------------------------------------------------
(***************************************************************************)
(* hMutex.  WaitForSingleObject(hMutex, 50) takes a free mutex; it times   *)
(* out only while another thread owns it.  ReleaseMutex fails when the     *)
(* caller is not the owner, and then the code ends the process.            *)
(***************************************************************************)
Acquire(t) ==
  /\ owner = NoThread
  /\ owner' = t

TimeOut == owner # NoThread

Release(t) ==
  /\ owner' = IF owner = t THEN NoThread ELSE owner
  /\ process' = IF owner = t THEN process ELSE "exited"

-------------------------------------------------------------------------------
(***************************************************************************)
(* The receive thread of connection c.                                     *)
(***************************************************************************)
receiveUnchanged == <<hostVars, spc, tempBuf, i, flushed, since>>

Receive(c) ==
  /\ process = "running" /\ rpc[c] = "recv" /\ conn[c] = "open"
  /\ uplink[c] # <<>>
  /\ recBuf' = [recBuf EXCEPT ![c] = Head(uplink[c])]
  /\ uplink' = [uplink EXCEPT ![c] = Tail(@)]
  /\ rpc' = [rpc EXCEPT ![c] = "wait"]
  /\ UNCHANGED <<receiveUnchanged, backlog, peer, conn, downlink, missed,
                 process, owner, buf, order, appended>>

(* Faulty variant: a recv() that returns 0 is tried again.                 *)
ReceiveFailsOnErrorOnly(c) ==
  /\ process = "running" /\ rpc[c] = "recv" /\ conn[c] # "open"
  /\ rpc' = [rpc EXCEPT ![c] = "exited"]
  /\ UNCHANGED <<receiveUnchanged, linkVars, process, owner, buf, recBuf, order, appended>>

(* recv() <= 0: the socket is not valid, the client has closed it, or --   *)
(* the socket is non-blocking -- nothing has arrived at the moment, though *)
(* the client may have sent it: all of uplink can still be in flight.  The *)
(* code closes the socket in all these cases, and nobody reads it again.   *)
ReceiveFails(c) ==
  /\ process = "running" /\ rpc[c] = "recv"
  /\ conn' = [conn EXCEPT ![c] = "closed"]
  /\ rpc' = [rpc EXCEPT ![c] = "exited"]
  /\ UNCHANGED <<receiveUnchanged, backlog, peer, uplink, downlink, missed,
                 process, owner, buf, recBuf, order, appended>>

ReceiverLocks(c) ==
  /\ process = "running" /\ rpc[c] = "wait"
  /\ Acquire(c)
  /\ rpc' = [rpc EXCEPT ![c] = "append"]
  /\ UNCHANGED <<receiveUnchanged, linkVars, process, buf, recBuf, order, appended>>

(* Faulty variants of the timeout: the thread appends all the same; it goes *)
(* on with the next message; it closes the socket.                         *)
ReceiverTimesOutAndAppends(c) ==
  /\ process = "running" /\ rpc[c] = "wait" /\ TimeOut
  /\ rpc' = [rpc EXCEPT ![c] = "append"]
  /\ UNCHANGED <<receiveUnchanged, linkVars, process, owner, buf, recBuf, order, appended>>

ReceiverTimesOutAndGoesOn(c) ==
  /\ process = "running" /\ rpc[c] = "wait" /\ TimeOut
  /\ rpc' = [rpc EXCEPT ![c] = "recv"]
  /\ UNCHANGED <<receiveUnchanged, linkVars, process, owner, buf, recBuf, order, appended>>

ReceiverTimesOutAndCloses(c) ==
  /\ process = "running" /\ rpc[c] = "wait" /\ TimeOut
  /\ conn' = [conn EXCEPT ![c] = "closed"]
  /\ rpc' = [rpc EXCEPT ![c] = "exited"]
  /\ UNCHANGED <<receiveUnchanged, backlog, peer, uplink, downlink, missed,
                 process, owner, buf, recBuf, order, appended>>

(* WAIT_TIMEOUT: the thread returns; the message in recBuf is lost and the *)
(* socket stays open with nobody to read it.                               *)
ReceiverTimesOut(c) ==
  /\ process = "running" /\ rpc[c] = "wait" /\ TimeOut
  /\ rpc' = [rpc EXCEPT ![c] = "exited"]
  /\ UNCHANGED <<receiveUnchanged, linkVars, process, owner, buf, recBuf, order, appended>>

(* Faulty variant: the space for one message more is assumed.              *)
AppendMessageOffByOne(c) ==
  /\ process = "running" /\ rpc[c] = "append" /\ Len(buf) <= BufMessages
  /\ buf' = Append(buf, recBuf[c])
  /\ order' = Append(order, recBuf[c])
  /\ appended' = [appended EXCEPT ![c] = @ + 1]
  /\ rpc' = [rpc EXCEPT ![c] = "release"]
  /\ UNCHANGED <<receiveUnchanged, linkVars, process, owner, recBuf>>

(* strcat(buf, recBuf), without a check of the space left.                 *)
AppendMessage(c) ==
  /\ process = "running" /\ rpc[c] = "append" /\ Len(buf) < BufMessages
  /\ buf' = Append(buf, recBuf[c])
  /\ order' = Append(order, recBuf[c])
  /\ appended' = [appended EXCEPT ![c] = @ + 1]
  /\ rpc' = [rpc EXCEPT ![c] = "release"]
  /\ UNCHANGED <<receiveUnchanged, linkVars, process, owner, recBuf>>

AppendPastBuffer(c) ==
  /\ process = "running" /\ rpc[c] = "append" /\ Len(buf) >= BufMessages
  /\ process' = "undefined"
  /\ UNCHANGED <<receiveUnchanged, linkVars, owner, buf, rpc, recBuf, order, appended>>

ReceiverUnlocks(c) ==
  /\ process = "running" /\ rpc[c] = "release"
  /\ Release(c)
  /\ rpc' = [rpc EXCEPT ![c] = "recv"]
  /\ UNCHANGED <<receiveUnchanged, linkVars, buf, recBuf, order, appended>>

Receiver(c) ==
  \/ Receive(c) \/ ReceiveFails(c)
  \/ ReceiverLocks(c) \/ ReceiverTimesOut(c)
  \/ AppendMessage(c) \/ AppendPastBuffer(c) \/ ReceiverUnlocks(c)

-------------------------------------------------------------------------------
(***************************************************************************)
(* The send thread.                                                        *)
(***************************************************************************)
sendUnchanged == <<hostVars, rpc, recBuf, order, appended, since>>

SenderLocks ==
  /\ process = "running" /\ spc = "wait"
  /\ Acquire(Sender)
  /\ spc' = "copy"
  /\ UNCHANGED <<sendUnchanged, linkVars, process, buf, tempBuf, i, flushed>>

(* WAIT_TIMEOUT: the thread returns, and no update is ever sent again.     *)
SenderTimesOut ==
  /\ process = "running" /\ spc = "wait" /\ TimeOut
  /\ spc' = "exited"
  /\ UNCHANGED <<sendUnchanged, linkVars, process, owner, buf, tempBuf, i, flushed>>

(* Faulty variants: the mutex is released before buf is emptied; buf is    *)
(* emptied before it is copied.                                            *)
CopyBufferAndRelease ==
  /\ process = "running" /\ spc = "copy"
  /\ tempBuf' = buf
  /\ owner' = NoThread
  /\ spc' = "clear"
  /\ UNCHANGED <<sendUnchanged, linkVars, process, buf, i, flushed>>

CopyBufferTooLate ==
  /\ process = "running" /\ spc = "copy"
  /\ buf' = <<>>
  /\ tempBuf' = <<>>
  /\ spc' = "clear"
  /\ UNCHANGED <<sendUnchanged, linkVars, process, owner, i, flushed>>

CopyBuffer ==
  /\ process = "running" /\ spc = "copy"
  /\ tempBuf' = buf
  /\ spc' = "clear"
  /\ UNCHANGED <<sendUnchanged, linkVars, process, owner, buf, i, flushed>>

(* Faulty variant: buf is not emptied.                                     *)
ClearBufferForgotten ==
  /\ process = "running" /\ spc = "clear"
  /\ flushed' = flushed + Len(tempBuf)
  /\ spc' = "release"
  /\ UNCHANGED <<sendUnchanged, linkVars, process, owner, buf, tempBuf, i>>

ClearBuffer ==
  /\ process = "running" /\ spc = "clear"
  /\ buf' = <<>>
  /\ flushed' = flushed + Len(tempBuf)
  /\ spc' = "release"
  /\ UNCHANGED <<sendUnchanged, linkVars, process, owner, tempBuf, i>>

(* Faulty variant: the loop over the hosts starts at 1.                    *)
SenderUnlocksFromOne ==
  /\ process = "running" /\ spc = "release"
  /\ Release(Sender)
  /\ spc' = "send"
  /\ i' = 1
  /\ UNCHANGED <<sendUnchanged, linkVars, buf, tempBuf, flushed>>

SenderUnlocks ==
  /\ process = "running" /\ spc = "release"
  /\ Release(Sender)
  /\ spc' = "send"
  /\ UNCHANGED <<sendUnchanged, linkVars, buf, tempBuf, i, flushed>>

(* One turn of the loop over the hosts, which reads h anew every time.     *)
(* The table may name a socket that was closed since, and the value of a   *)
(* closed socket may name a later connection.                              *)
SendToHost ==
  /\ process = "running" /\ spc = "send" /\ i < h
  /\ SendUpdate({c \in Clients : conn[c] = "open" /\ sock[c] = host[i]}, tempBuf)
  /\ i' = i + 1
  /\ UNCHANGED <<sendUnchanged, process, owner, buf, spc, tempBuf, flushed>>

SendDone ==
  /\ process = "running" /\ spc = "send" /\ i >= h
  /\ i' = 0
  /\ tempBuf' = <<>>
  /\ spc' = "wait"
  /\ UNCHANGED <<sendUnchanged, linkVars, process, owner, buf, flushed>>

SendThread ==
  \/ SenderLocks \/ SenderTimesOut
  \/ CopyBuffer \/ ClearBuffer \/ SenderUnlocks
  \/ SendToHost \/ SendDone

MainThread == Accept \/ AcceptPastTable \/ StartReceiver \/ CountHost
===============================================================================
