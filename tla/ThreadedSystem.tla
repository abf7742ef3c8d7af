---------------------------- MODULE ThreadedSystem ----------------------------
(***************************************************************************)
(* ThreadedServer and its clients together.                                *)
(***************************************************************************)
EXTENDS ThreadedServer, ThreadedClient, SequencesExt

vars == <<linkVars, serverVars, clientVars>>

Init == LinkInit /\ ServerInit /\ ClientInit

(* Once the server process has ended, or its memory is undefined, nothing  *)
(* more is claimed about the system, and the model stops.                  *)
Next ==
  \/ Accept /\ UNCHANGED clientVars
  \/ AcceptPastTable /\ UNCHANGED clientVars
  \/ StartReceiver /\ UNCHANGED clientVars
  \/ CountHost /\ UNCHANGED clientVars
  \/ SenderLocks /\ UNCHANGED clientVars
  \/ SenderTimesOut /\ UNCHANGED clientVars
  \/ CopyBuffer /\ UNCHANGED clientVars
  \/ ClearBuffer /\ UNCHANGED clientVars
  \/ SenderUnlocks /\ UNCHANGED clientVars
  \/ SendToHost /\ UNCHANGED clientVars
  \/ SendDone /\ UNCHANGED clientVars
  \/ \E c \in Clients : Receive(c) /\ UNCHANGED clientVars
  \/ \E c \in Clients : ReceiveFails(c) /\ UNCHANGED clientVars
  \/ \E c \in Clients : ReceiverLocks(c) /\ UNCHANGED clientVars
  \/ \E c \in Clients : ReceiverTimesOut(c) /\ UNCHANGED clientVars
  \/ \E c \in Clients : AppendMessage(c) /\ UNCHANGED clientVars
  \/ \E c \in Clients : AppendPastBuffer(c) /\ UNCHANGED clientVars
  \/ \E c \in Clients : ReceiverUnlocks(c) /\ UNCHANGED clientVars
  \/ \E c \in Clients : process = "running" /\ ClientConnects(c) /\ UNCHANGED serverVars
  \/ \E c \in Clients : process = "running" /\ ClientSends(c) /\ UNCHANGED serverVars
  \/ \E c \in Clients : process = "running" /\ ClientReceives(c) /\ UNCHANGED serverVars
  \/ \E c \in Leavers : process = "running" /\ ClientIsKilled(c) /\ UNCHANGED serverVars

Spec == Init /\ [][Next]_vars

(* The scheduler runs every thread: each step of the server's threads and  *)
(* of the clients' loops ends, the wait for hMutex within 50 ms.  A client *)
(* need not be started or killed.                                          *)
Fairness ==
  /\ WF_vars(MainThread /\ UNCHANGED clientVars)
  /\ WF_vars(SendThread /\ UNCHANGED clientVars)
  /\ \A c \in Clients :
       /\ WF_vars(Receiver(c) /\ UNCHANGED clientVars)
       /\ WF_vars(process = "running" /\ ClientSends(c) /\ UNCHANGED serverVars)
       /\ WF_vars(process = "running" /\ ClientReceives(c) /\ UNCHANGED serverVars)

FairSpec == Spec /\ Fairness

-------------------------------------------------------------------------------
(* Every variable holds a value the declarations of the code allow.        *)
TypeOK == LinkTypeOK /\ ServerTypeOK /\ ClientTypeOK

(* hMutex is owned by a thread exactly while that thread is between        *)
(* WaitForSingleObject and ReleaseMutex, so that buf is never touched by   *)
(* two threads at once, ReleaseMutex never fails and never ends the        *)
(* process, and no thread ends as the owner (WAIT_ABANDONED cannot occur). *)
MutexDiscipline ==
  /\ owner = Sender <=> spc \in {"copy", "clear", "release"}
  /\ \A c \in Clients : owner = c <=> rpc[c] \in {"append", "release"}
  /\ process # "exited"

(* The buffer holds exactly the messages appended since the send thread    *)
(* took it last: a message is neither lost nor taken twice between the     *)
(* receive threads and the send thread.                                    *)
BufferIsUnflushedTail ==
  /\ Len(order) = flushed + Len(buf)
  /\ \A p \in 1 .. Len(buf) : buf[p] = order[flushed + p]

(* The shared buffer and its mutex implement a queue: every message read   *)
(* from a client is put into it once, with none of that client left out    *)
(* before it, and the send thread takes all that is there in one step,     *)
(* although it copies, empties and releases in three.                      *)
Queue == INSTANCE UpdateQueue WITH log <- order, next <- appended, taken <- flushed
ImplementsQueue == Queue!QueueSpec

(* The messages of one client are appended in the order in which its       *)
(* connection took them, with none missing in between and none twice,      *)
(* whatever the other threads do and however often a receive thread gives  *)
(* up.                                                                     *)
ClientOrder ==
  /\ \A p, q \in DOMAIN order :
       p < q /\ order[p].from = order[q].from => order[p].n < order[q].n
  /\ \A p \in DOMAIN order : order[p].n < appended[order[p].from]
  /\ \A c \in Clients : \A k \in 0 .. appended[c] - 1 :
       \E p \in DOMAIN order : order[p] = [from |-> c, n |-> k]

(* What the server has sent to c and not lost: printed, or still underway. *)
Stream(c) == printed[c] \o FlattenSeq(downlink[c])

(* The value of c's socket stands in the table for another connection too. *)
(* The table is never cleaned up, and Winsock reuses the value of a socket *)
(* that was closed: c is then sent every update more than once.            *)
Recycled(c) ==
  \E s \in Slots : host[s] = sock[c] /\ aThreads[s] \notin {c, NoThread}

(* What a client receives is a piece of the common order of all messages:  *)
(* no message twice, none left out in the middle, none out of order.       *)
(* Excepted are a client that was sent an update it had no room for, since *)
(* the result of send() is ignored, and one whose socket value is recycled.*)
StreamIsContiguous ==
  \A c \in Clients :
    c \in missed \/ Recycled(c) \/
      \E first \in 0 .. Len(order) : IsPrefix(Stream(c), SubSeq(order, first + 1, Len(order)))

(* Between two updates, every connected client (with the same exceptions)  *)
(* has been sent all messages taken from the buffer since it was counted   *)
(* in h, and nothing out of turn, although clients are accepted while the  *)
(* send loop reads h and host without a lock.                              *)
HostsAreCurrent ==
  spc = "wait" =>
    \A s \in 0 .. h - 1 :
      LET c == aThreads[s]
      IN  \/ conn[c] # "open" \/ c \in missed \/ Recycled(c)
          \/ /\ IsSuffix(Stream(c), SubSeq(order, 1, flushed))
             /\ Len(Stream(c)) >= flushed - since[c]

(* Every connection that has a receive thread has one slot of the table,   *)
(* of its own, which keeps its socket: the accepting thread never writes a *)
(* slot twice, although h is counted only after the thread was created.    *)
EveryConnectionHasASlot ==
  \A c \in Clients :
    rpc[c] # "none" =>
      \E s \in 0 .. (IF mpc = "count" THEN h ELSE h - 1) :
        /\ host[s] = sock[c]
        /\ \A t \in Slots : aThreads[t] = c <=> t = s

(* recv() on the non-blocking socket fails when nothing has arrived, and   *)
(* the server then closes the connection of a client that is still there.  *)
(* What the client has in flight is lost by that, and nothing else: every  *)
(* message that recv() had returned was appended before, none is left in   *)
(* the hands of the thread that ends.                                      *)
CloseLosesOnlyUnread ==
  [][\A c \in Clients :
       conn[c] = "open" /\ conn'[c] = "closed" /\ peer[c] = "up"
         => appended[c] + Len(uplink[c]) = count[c]]_vars

-------------------------------------------------------------------------------
(* A message that was appended is taken by the send thread, unless that    *)
(* thread has given up waiting for the mutex or the program has failed.    *)
AppendedIsFlushed ==
  \A p \in 1 .. SumFunction(MaxMessages) :
    Len(order) >= p ~> flushed >= p \/ spc = "exited" \/ process # "running"

(* The connection of a client that has left is closed, unless its receive  *)
(* thread has given up waiting for the mutex or the program has failed.    *)
DepartedClientIsReaped ==
  \A c \in Clients :
    peer[c] = "gone" /\ conn[c] = "open"
      ~> conn[c] = "closed" \/ rpc[c] = "exited" \/ process # "running"

(* The comment of the client's send() says that 0 means that the server    *)
(* has terminated the connection, upon which the client leaves its loop.   *)
ClientSeesTermination ==
  \A c \in Clients : conn[c] = "closed" ~> cpc[c] = "ended" \/ process # "running"
===============================================================================
