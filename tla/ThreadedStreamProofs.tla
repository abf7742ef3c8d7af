------------------------- MODULE ThreadedStreamProofs -------------------------
(***************************************************************************)
(* Theorems about the table of hosts of ThreadedServer and about what the  *)
(* clients are sent, on top of those of ThreadedProofs.                    *)
(***************************************************************************)
EXTENDS ThreadedProofs, StreamLemmas

USE DEF vars, linkVars, serverVars, hostVars, historyVars, clientVars,
        receiveUnchanged, sendUnchanged

-------------------------------------------------------------------------------
(***************************************************************************)
(* The table.  The slot of a connection is written before its thread is    *)
(* created and counted after it, so that a slot below h is never written   *)
(* again, and the slot h is that of the thread just created, or free.      *)
(***************************************************************************)
SlotIsFilled ==
  \A s \in Slots :
    aThreads[s] # NoThread =>
      /\ rpc[aThreads[s]] # "none"
      /\ host[s] = sock[aThreads[s]]
      /\ s >= h => s = h /\ mpc = "count"

SlotIsOwn ==
  \A s, t \in Slots : aThreads[s] = aThreads[t] /\ aThreads[s] # NoThread => s = t

ThreadHasSlot ==
  \A c \in Clients : rpc[c] # "none" => \E s \in Slots : aThreads[s] = c

CountedIsFilled ==
  /\ \A s \in 0 .. h - 1 : aThreads[s] \in Clients
  /\ mpc = "start" => host[h] = sock[client]
  /\ mpc = "count" => aThreads[h] = client

SlotInv == SlotIsFilled /\ SlotIsOwn /\ ThreadHasSlot /\ CountedIsFilled

tableVars == <<host, h, aThreads, sock, mpc, client>>

LEMMA TableTypes ==
  ASSUME TypeInv
  PROVE  /\ host \in [Slots -> Sockets] /\ sock \in [Clients -> Sockets]
         /\ aThreads \in [Slots -> Clients \cup {NoThread}] /\ NoThread \notin Clients
         /\ rpc \in [Clients -> {"none", "recv", "wait", "append", "release", "exited"}]
         /\ MaxHosts \in Nat /\ h \in 0 .. MaxHosts
         /\ mpc # "accept" => h \in Slots /\ client \in Clients
         /\ 0 .. h - 1 \subseteq Slots
BY ServerAssumption DEF TypeInv, TypeOK, ServerTypeOK, PendingHost, Slots

(* The table is empty at first.                                            *)
LEMMA SlotInit == Init => SlotInv
<1> SUFFICES ASSUME Init PROVE SlotInv
  OBVIOUS
<1>1. /\ aThreads = [s \in Slots |-> NoThread] /\ rpc = [c \in Clients |-> "none"]
      /\ h = 0 /\ mpc = "accept"
  BY DEF Init, ServerInit
<1>2. QED BY <1>1 DEF SlotInv, SlotIsFilled, SlotIsOwn, ThreadHasSlot, CountedIsFilled

(* The accepting thread writes a free slot, and counts it once.            *)
LEMMA SlotMain ==
  ASSUME TypeInv, HandOver, SlotInv, MainThread
  PROVE  SlotInv'
<1> USE TableTypes
<1>1. CASE Accept
  <2> DEFINE d == Head(backlog)
  <2>1. backlog \in Seq(Clients) /\ backlog # <<>>
    BY <1>1 DEF Accept, TypeInv, TypeOK, LinkTypeOK
  <2>2. d \in Clients /\ d = backlog[1] /\ 1 \in 1 .. Len(backlog)
    BY <2>1
  <2>3. rpc[d] = "none"
    BY <2>2 DEF HandOver, QueuedIsNew
  <2> HIDE DEF d
  <2>4. PICK v : host' = [host EXCEPT ![h] = v] /\ sock' = [sock EXCEPT ![d] = v]
    BY <1>1 DEF Accept, d
  <2>5. /\ client' = d /\ mpc = "accept" /\ mpc' = "start" /\ h < MaxHosts
        /\ UNCHANGED <<h, aThreads, rpc>>
    BY <1>1 DEF Accept, d
  <2>6. h \in Slots
    BY <2>5 DEF Slots
  <2>7. \A s \in Slots : aThreads[s] # NoThread => aThreads[s] # d /\ s # h
    BY <2>3, <2>5 DEF SlotInv, SlotIsFilled
  <2>8. SlotIsFilled'
    BY <2>2, <2>4, <2>5, <2>7 DEF SlotInv, SlotIsFilled
  <2>9. CountedIsFilled'
    BY <2>2, <2>4, <2>5, <2>6 DEF SlotInv, CountedIsFilled
  <2>10. QED BY <2>5, <2>8, <2>9 DEF SlotInv, SlotIsOwn, ThreadHasSlot
<1>2. CASE AcceptPastTable
  BY <1>2 DEF AcceptPastTable, SlotInv, SlotIsFilled, SlotIsOwn, ThreadHasSlot,
              CountedIsFilled
<1>3. CASE StartReceiver
  <2>1. /\ aThreads' = [aThreads EXCEPT ![h] = client]
        /\ rpc' = [rpc EXCEPT ![client] = "recv"]
        /\ mpc = "start" /\ mpc' = "count" /\ UNCHANGED <<host, h, sock, client>>
    BY <1>3 DEF StartReceiver
  <2>2. h \in Slots /\ client \in Clients /\ rpc[client] = "none"
    BY <2>1 DEF HandOver, AcceptedIsNew
  <2>3. \A s \in Slots : aThreads[s] # NoThread => aThreads[s] # client /\ s < h
    BY <2>1, <2>2 DEF SlotInv, SlotIsFilled, Slots
  <2>4. SlotIsFilled'
    BY <2>1, <2>2, <2>3 DEF SlotInv, SlotIsFilled, CountedIsFilled
  <2>5. SlotIsOwn'
    BY <2>1, <2>2, <2>3 DEF SlotInv, SlotIsOwn
  <2>6. ThreadHasSlot'
    <3>1. ASSUME NEW c \in Clients, rpc'[c] # "none"
          PROVE  \E s \in Slots : aThreads'[s] = c
      <4>1. CASE c = client
        BY <2>1, <2>2, <4>1
      <4>2. CASE c # client
        <5>1. PICK s \in Slots : aThreads[s] = c
          BY <2>1, <3>1, <4>2 DEF SlotInv, ThreadHasSlot
        <5>2. s # h
          BY <2>3, <5>1
        <5>3. QED BY <2>1, <5>1, <5>2
      <4>3. QED BY <4>1, <4>2
    <3>2. QED BY <3>1 DEF ThreadHasSlot
  <2>7. CountedIsFilled'
    BY <2>1, <2>2 DEF SlotInv, CountedIsFilled
  <2>8. QED BY <2>4, <2>5, <2>6, <2>7 DEF SlotInv
<1>4. CASE CountHost
  <2>1. /\ mpc = "count" /\ mpc' = "accept" /\ h' = h + 1
        /\ UNCHANGED <<client, host, aThreads, sock, rpc>>
    BY <1>4 DEF CountHost
  <2>2. h \in Nat /\ client \in Clients
    BY <2>1
  <2>3. SlotIsFilled'
    <3>1. \A s \in Slots : ~(s >= h + 1 /\ (s >= h => s = h))
      BY <2>2 DEF Slots
    <3>2. QED BY <2>1, <3>1 DEF SlotInv, SlotIsFilled
  <2>4. CountedIsFilled'
    <3>1. \A s \in 0 .. (h + 1) - 1 : s \in 0 .. h - 1 \/ s = h
      BY <2>2
    <3>2. QED BY <2>1, <2>2, <3>1 DEF SlotInv, CountedIsFilled
  <2>5. QED BY <2>1, <2>3, <2>4 DEF SlotInv, SlotIsOwn, ThreadHasSlot
<1>5. QED BY <1>1, <1>2, <1>3, <1>4 DEF MainThread

(* The table is that of the connections with a receive thread.             *)
THEOREM TableCorrect == Spec => []SlotInv
<1>1. ASSUME TypeInv, HandOver, SlotInv, Next PROVE SlotInv'
  <2>1. ASSUME MainThread PROVE SlotInv'
    BY <1>1, <2>1, SlotMain
  <2>2. ASSUME UNCHANGED tableVars,
               UNCHANGED rpc \/ \E c \in Clients, p \in {"recv", "wait", "append", "release", "exited"} :
                                  rpc[c] # "none" /\ rpc' = [rpc EXCEPT ![c] = p]
        PROVE  SlotInv'
    <3>1. \A c \in Clients : rpc'[c] = "none" <=> rpc[c] = "none"
      BY <1>1, <2>2, TableTypes
    <3>2. \A s \in Slots : aThreads[s] # NoThread => aThreads[s] \in Clients
      BY <1>1, TableTypes
    <3>3. SlotIsFilled'
      BY <1>1, <2>2, <3>1, <3>2 DEF SlotInv, SlotIsFilled, tableVars
    <3>4. QED BY <1>1, <2>2, <3>1, <3>3
              DEF SlotInv, SlotIsOwn, ThreadHasSlot, CountedIsFilled, tableVars
  <2>3. ASSUME SendThread PROVE SlotInv'
    <3>1. UNCHANGED <<tableVars, rpc>>
      BY <2>3 DEF SendThread, SenderLocks, SenderTimesOut, CopyBuffer, ClearBuffer,
                  SenderUnlocks, SendToHost, SendDone, tableVars
    <3>2. QED BY <2>2, <3>1
  <2>4. ASSUME NEW c \in Clients, Receiver(c) PROVE SlotInv'
    <3>1. UNCHANGED tableVars
      BY <2>4 DEF Receiver, Receive, ReceiveFails, ReceiverLocks, ReceiverTimesOut,
                  AppendMessage, AppendPastBuffer, ReceiverUnlocks, tableVars
    <3>2. UNCHANGED rpc \/ \E p \in {"recv", "wait", "append", "release", "exited"} :
                             rpc[c] # "none" /\ rpc' = [rpc EXCEPT ![c] = p]
      BY <2>4 DEF Receiver, Receive, ReceiveFails, ReceiverLocks, ReceiverTimesOut,
                  AppendMessage, AppendPastBuffer, ReceiverUnlocks
    <3>3. QED BY <2>2, <3>1, <3>2
  <2>5. ASSUME UNCHANGED serverVars PROVE SlotInv'
    BY <2>2, <2>5 DEF tableVars
  <2>6. QED BY <1>1, <2>1, <2>3, <2>4, <2>5, StepOfAThread
<1>2. ASSUME SlotInv, UNCHANGED vars PROVE SlotInv'
  BY <1>2 DEF SlotInv, SlotIsFilled, SlotIsOwn, ThreadHasSlot, CountedIsFilled
<1>3. TypeInv /\ HandOver /\ SlotInv /\ [Next]_vars => SlotInv'
  BY <1>1, <1>2
<1>4. QED BY <1>3, SlotInit, TypeCorrect, HandOverCorrect, PTL DEF Spec

(* Every connection that has a receive thread has one slot of the table,   *)
(* of its own, which keeps its socket, however accept() and CreateThread   *)
(* interleave with the threads that run already.                           *)
THEOREM SlotCorrect == Spec => []EveryConnectionHasASlot
<1>1. ASSUME TypeInv, SlotInv PROVE EveryConnectionHasASlot
  <2> SUFFICES ASSUME NEW c \in Clients, rpc[c] # "none"
               PROVE  \E s \in 0 .. (IF mpc = "count" THEN h ELSE h - 1) :
                        /\ host[s] = sock[c]
                        /\ \A t \in Slots : aThreads[t] = c <=> t = s
    BY DEF EveryConnectionHasASlot
  <2>1. PICK s \in Slots : aThreads[s] = c
    BY <1>1 DEF SlotInv, ThreadHasSlot
  <2>2. c # NoThread
    BY <1>1, TableTypes
  <2>3. host[s] = sock[c] /\ (s >= h => s = h /\ mpc = "count")
    BY <1>1, <2>1, <2>2 DEF SlotInv, SlotIsFilled
  <2>4. \A t \in Slots : aThreads[t] = c <=> t = s
    BY <1>1, <2>1, <2>2 DEF SlotInv, SlotIsOwn
  <2>5. s \in 0 .. (IF mpc = "count" THEN h ELSE h - 1)
    BY <1>1, <2>3, TableTypes DEF Slots
  <2>6. QED BY <2>3, <2>4, <2>5
<1>2. TypeInv /\ SlotInv => EveryConnectionHasASlot
  BY <1>1
<1>3. QED BY <1>2, TypeCorrect, TableCorrect, PTL

-------------------------------------------------------------------------------
(***************************************************************************)
(* The loop over the hosts.  What is being sent is the last piece taken    *)
(* from the buffer.                                                        *)
(***************************************************************************)
(* The messages of the update that is underway.                            *)
Due == IF spc \in {"release", "send"} THEN Len(tempBuf) ELSE 0

LoopInv ==
  /\ i <= h
  /\ spc # "send" => i = 0
  /\ Due <= flushed
  /\ spc \in {"release", "send"} => Piece(tempBuf, flushed - Due, order)

LEMMA LoopTypes ==
  ASSUME TypeInv
  PROVE  /\ i \in Nat /\ h \in Nat /\ flushed \in Nat
         /\ order \in Seq(Message) /\ Len(order) \in Nat
         /\ tempBuf \in Seq(Message) /\ Len(tempBuf) \in Nat /\ Due \in Nat
         /\ buf \in Seq(Message) /\ Len(buf) \in Nat
BY ServerAssumption DEF TypeInv, TypeOK, ServerTypeOK, Due

LEMMA LoopInit == Init => LoopInv
BY DEF Init, ServerInit, LoopInv, Due

LEMMA LoopSend ==
  ASSUME TypeInv, BufferInv, LoopInv, SendThread
  PROVE  LoopInv'
<1> USE LoopTypes
<1>1. CASE SenderLocks \/ SenderTimesOut \/ CopyBuffer
  BY <1>1 DEF SenderLocks, SenderTimesOut, CopyBuffer, LoopInv, Due
<1>2. CASE ClearBuffer
  <2>1. /\ spc = "clear" /\ spc' = "release" /\ flushed' = flushed + Len(tempBuf)
        /\ UNCHANGED <<tempBuf, i, h, order>>
    BY <1>2 DEF ClearBuffer
  <2>2. tempBuf = buf /\ Len(order) = flushed + Len(buf)
        /\ \A k \in 1 .. Len(buf) : buf[k] = order[flushed + k]
    BY <2>1 DEF BufferInv, BufferIsUnflushedTail, CopyIsFresh
  <2>3. Piece(tempBuf, flushed, order)
    BY <2>2 DEF Piece
  <2>4. Due' = Len(tempBuf) /\ flushed' - Due' = flushed
    BY <2>1 DEF Due
  <2>5. Due' <= flushed' /\ i <= h /\ i = 0
    BY <2>1, <2>4 DEF LoopInv
  <2>6. QED BY <2>1, <2>3, <2>4, <2>5 DEF LoopInv
<1>3. CASE SenderUnlocks
  BY <1>3 DEF SenderUnlocks, LoopInv, Due
<1>4. CASE SendToHost
  <2>1. /\ spc = "send" /\ i < h /\ i' = i + 1
        /\ UNCHANGED <<spc, tempBuf, flushed, h, order>>
    BY <1>4 DEF SendToHost
  <2>2. QED BY <2>1 DEF LoopInv, Due
<1>5. CASE SendDone
  BY <1>5 DEF SendDone, LoopInv, Due
<1>6. QED BY <1>1, <1>2, <1>3, <1>4, <1>5 DEF SendThread

(* The update underway stays the last piece taken from the buffer, and the *)
(* loop never leaves the hosts that are counted.                           *)
LEMMA LoopCorrect == Spec => []LoopInv
<1>1. ASSUME TypeInv, BufferInv, LoopInv, Next PROVE LoopInv'
  <2>1. ASSUME UNCHANGED <<i, spc, tempBuf, flushed>>, h' \in {h, h + 1},
               order' = order \/ \E m \in Message : order' = Append(order, m)
        PROVE  LoopInv'
    <3>1. /\ i' <= h' /\ (spc' # "send" => i' = 0)
          /\ Due' = Due /\ Due' <= flushed'
      BY <1>1, <2>1, LoopTypes DEF LoopInv, Due
    <3>2. ASSUME spc' \in {"release", "send"} PROVE Piece(tempBuf, flushed - Due, order')
      <4>1. Piece(tempBuf, flushed - Due, order) /\ flushed - Due \in Nat
        BY <1>1, <2>1, <3>2, LoopTypes DEF LoopInv
      <4>2. QED BY <1>1, <2>1, <4>1, LoopTypes, PieceGrows
    <3>3. QED BY <2>1, <3>1, <3>2 DEF LoopInv
  <2>2. ASSUME MainThread PROVE LoopInv'
    BY <2>1, <2>2 DEF MainThread, Accept, AcceptPastTable, StartReceiver, CountHost
  <2>3. ASSUME NEW c \in Clients, Receiver(c) PROVE LoopInv'
    <3>1. UNCHANGED <<i, spc, tempBuf, flushed, h>>
      BY <2>3 DEF Receiver, Receive, ReceiveFails, ReceiverLocks, ReceiverTimesOut,
                  AppendMessage, AppendPastBuffer, ReceiverUnlocks
    <3>2. recBuf[c] \in Message
      BY <1>1 DEF TypeInv, TypeOK, ServerTypeOK
    <3>3. order' = order \/ order' = Append(order, recBuf[c])
      BY <2>3 DEF Receiver, Receive, ReceiveFails, ReceiverLocks, ReceiverTimesOut,
                  AppendMessage, AppendPastBuffer, ReceiverUnlocks
    <3>4. QED BY <2>1, <3>1, <3>2, <3>3
  <2>4. ASSUME UNCHANGED serverVars PROVE LoopInv'
    BY <2>1, <2>4
  <2>5. QED BY <1>1, <2>2, <2>3, <2>4, LoopSend, StepOfAThread
<1>2. ASSUME LoopInv, UNCHANGED vars PROVE LoopInv'
  BY <1>2 DEF LoopInv, Due
<1>3. TypeInv /\ BufferInv /\ LoopInv /\ [Next]_vars => LoopInv'
  BY <1>1, <1>2
<1>4. QED BY <1>3, LoopInit, TypeCorrect, BufferInvCorrect, PTL DEF Spec

-------------------------------------------------------------------------------
(***************************************************************************)
(* What a client is sent.  A client that is counted, whose socket value is *)
(* its own and that had room for every update, has been sent all messages  *)
(* taken since it was counted, except those of the update underway when    *)
(* its slot is still ahead of the loop; a client not counted was sent      *)
(* nothing.  What was sent and is not lost stays a piece of the order when *)
(* the connection is closed.                                               *)
(***************************************************************************)
Counted(c) == \E s \in 0 .. h - 1 : aThreads[s] = c
Served(c) == \E s \in 0 .. i - 1 : aThreads[s] = c
End(c) == IF Served(c) THEN flushed ELSE flushed - Due

Excepted(c) == c \in missed \/ Recycled(c)

UpToDate(c) ==
  \E a \in 0 .. Len(order) :
    /\ Piece(Stream(c), a, order)
    /\ a + Len(Stream(c)) = End(c)
    /\ a <= since[c]

OpenStream(c) ==
  \/ Excepted(c)
  \/ ~Counted(c) /\ Stream(c) = <<>>
  \/ Counted(c) /\ UpToDate(c)

ClosedStream(c) ==
  \/ Excepted(c)
  \/ \E a \in 0 .. Len(order) : Piece(Stream(c), a, order)

ClientStream(c) ==
  /\ conn[c] = "none" => Stream(c) = <<>>
  /\ conn[c] = "open" => OpenStream(c)
  /\ conn[c] = "closed" => ClosedStream(c)

StreamInv == \A c \in Clients : ClientStream(c)

LEMMA StreamTypes ==
  ASSUME TypeInv, NEW c \in Clients
  PROVE  /\ printed[c] \in Seq(Message) /\ downlink[c] \in Seq(Seq(Message))
         /\ FlattenSeq(downlink[c]) \in Seq(Message)
         /\ Stream(c) \in Seq(Message) /\ Len(Stream(c)) \in Nat
         /\ since[c] \in Nat /\ conn[c] \in {"none", "open", "closed"}
         /\ missed \subseteq Clients
<1>1. /\ printed[c] \in Seq(Message) /\ downlink[c] \in Seq(Seq(Message))
      /\ since[c] \in Nat /\ conn[c] \in {"none", "open", "closed"} /\ missed \subseteq Clients
  BY DEF TypeInv, TypeOK, ServerTypeOK, LinkTypeOK, ClientTypeOK
<1>2. FlattenSeq(downlink[c]) \in Seq(Message)
  BY <1>1, FlattenType
<1>3. Stream(c) \in Seq(Message)
  BY <1>1, <1>2, ConcatProperties DEF Stream
<1>4. QED BY <1>1, <1>2, <1>3

LEMMA EndInOrder ==
  ASSUME TypeInv, BufferInv, LoopInv, NEW c \in Clients
  PROVE  End(c) \in 0 .. Len(order) /\ End(c) <= flushed
<1>1. Len(order) = flushed + Len(buf)
  BY DEF BufferInv, BufferIsUnflushedTail
<1>2. QED BY <1>1, LoopTypes DEF End, LoopInv

LEMMA EmptyStream ==
  ASSUME TypeInv, NEW c \in Clients, Stream(c) = <<>>
  PROVE  ClosedStream(c)
<1>1. Piece(<<>>, 0, order) /\ 0 \in 0 .. Len(order)
  BY LoopTypes, PieceOfNothing
<1>2. QED BY <1>1 DEF ClosedStream

(* A stream that is up to date is a piece of the order.                    *)
LEMMA OpenIsClosed ==
  ASSUME TypeInv, NEW c \in Clients, ClientStream(c)
  PROVE  ClosedStream(c)
<1>1. CASE Stream(c) = <<>>
  BY <1>1, EmptyStream
<1>2. CASE Excepted(c)
  BY <1>2 DEF ClosedStream
<1>3. CASE Counted(c) /\ UpToDate(c)
  BY <1>3 DEF ClosedStream, UpToDate
<1>4. QED BY <1>1, <1>2, <1>3, StreamTypes DEF ClientStream, OpenStream

(* A step that changes neither the stream nor what was due keeps it.       *)
LEMMA StreamFrame ==
  ASSUME TypeInv, NEW c \in Clients, ClientStream(c),
         conn'[c] = conn[c], Stream(c)' = Stream(c),
         Excepted(c) => Excepted(c)',
         order' = order \/ \E m \in Message : order' = Append(order, m),
         conn[c] = "open" =>
           /\ Counted(c)' <=> Counted(c)
           /\ Counted(c) => End(c)' = End(c) /\ since'[c] = since[c]
  PROVE  ClientStream(c)'
<1> DEFINE x == Stream(c)
           o == order'
<1>1. x \in Seq(Message)
  BY StreamTypes
<1>2. Len(o) \in Nat /\ Len(order) <= Len(o)
  BY LoopTypes
<1>3. o = order \/ \E m \in Message : o = Append(order, m)
  OBVIOUS
<1>4. Stream(c)' = x
  OBVIOUS
<1> HIDE DEF x, o
<1>5. ASSUME NEW a \in 0 .. Len(order), Piece(x, a, order)
      PROVE  Piece(x, a, o) /\ a \in 0 .. Len(o)
  <2>1. a \in Nat /\ a \in 0 .. Len(o)
    BY <1>2, LoopTypes
  <2>2. ASSUME NEW m \in Message, o = Append(order, m) PROVE Piece(x, a, o)
    BY <1>1, <1>5, <2>1, <2>2, LoopTypes, PieceGrows
  <2>3. QED BY <1>3, <1>5, <2>1, <2>2
<1>6. ClosedStream(c) => ClosedStream(c)'
  BY <1>4, <1>5 DEF ClosedStream, x, o
<1>7. OpenStream(c) /\ conn[c] = "open" => OpenStream(c)'
  BY <1>4, <1>5 DEF OpenStream, UpToDate, x, o
<1>8. QED BY <1>4, <1>6, <1>7 DEF ClientStream, x

(* Nothing is sent at first.                                               *)
LEMMA StreamInit == Init => StreamInv
<1> SUFFICES ASSUME Init, NEW c \in Clients PROVE ClientStream(c)
  BY DEF StreamInv
<1>1. printed[c] = <<>> /\ downlink[c] = <<>> /\ conn[c] = "none"
  BY DEF Init, LinkInit, ClientInit
<1>2. Stream(c) = <<>>
  BY <1>1, FlattenEmpty DEF Stream
<1>3. QED BY <1>1, <1>2 DEF ClientStream

(* The accepting thread sends nothing.  It excepts a client it accepts, at *)
(* once, when the value of its socket is used again.                       *)
LEMMA StreamMain ==
  ASSUME TypeInv, HandOver, BufferInv, LoopInv, SlotInv, MainThread, UNCHANGED clientVars,
         NEW c \in Clients, ClientStream(c)
  PROVE  ClientStream(c)'
<1> USE TableTypes
<1>1. order' = order /\ missed' = missed /\ printed' = printed /\ downlink' = downlink
      /\ UNCHANGED <<spc, tempBuf, i, flushed>>
  BY DEF MainThread, Accept, AcceptPastTable, StartReceiver, CountHost
<1>2. Stream(c)' = Stream(c)
  BY <1>1 DEF Stream
<1>3. Due' = Due
  BY <1>1 DEF Due
<1>4. \A s \in 0 .. i - 1 : s \in 0 .. h - 1
  BY LoopTypes DEF LoopInv
<1>5. CASE Accept
  <2> DEFINE d == Head(backlog)
  <2>1. backlog \in Seq(Clients) /\ backlog # <<>>
    BY <1>5 DEF Accept, TypeInv, TypeOK, LinkTypeOK
  <2>2. d \in Clients /\ d = backlog[1] /\ 1 \in 1 .. Len(backlog)
    BY <2>1
  <2>3. rpc[d] = "none" /\ conn[d] = "none"
    BY <2>2 DEF HandOver, QueuedIsNew
  <2> HIDE DEF d
  <2>4. PICK v : host' = [host EXCEPT ![h] = v] /\ sock' = [sock EXCEPT ![d] = v]
    BY <1>5 DEF Accept, d
  <2>5. PICK e \in {"open", "closed"} : conn' = [conn EXCEPT ![d] = e]
    BY <1>5 DEF Accept, d
  <2>6. mpc = "accept" /\ h < MaxHosts /\ UNCHANGED <<h, aThreads, since>>
    BY <1>5 DEF Accept
  <2>7. Counted(c)' = Counted(c) /\ End(c)' = End(c)
    BY <1>1, <1>3, <2>6 DEF Counted, Served, End
  <2>8. CASE c = d
    <3>1. Stream(c)' = <<>>
      BY <1>2, <2>3, <2>8 DEF ClientStream
    <3>2. \A s \in 0 .. h - 1 : aThreads[s] # c
      BY <2>3, <2>8 DEF SlotInv, CountedIsFilled, SlotIsFilled
    <3>3. ~Counted(c)'
      BY <2>7, <3>2 DEF Counted
    <3>4. OpenStream(c)'
      BY <3>1, <3>3 DEF OpenStream
    <3>5. Piece(<<>>, 0, order) /\ 0 \in 0 .. Len(order)
      BY LoopTypes, PieceOfNothing
    <3>6. ClosedStream(c)'
      BY <1>1, <3>1, <3>5 DEF ClosedStream
    <3>7. QED BY <3>1, <3>4, <3>6 DEF ClientStream
  <2>9. CASE c # d
    <3>1. conn'[c] = conn[c] /\ sock'[c] = sock[c]
      BY <2>4, <2>5, <2>9 DEF TypeInv, TypeOK, LinkTypeOK
    <3>2. \A s \in Slots : aThreads[s] # NoThread => s # h
      BY <2>6 DEF SlotInv, SlotIsFilled
    <3>3. Recycled(c) => Recycled(c)'
      BY <2>4, <2>6, <3>1, <3>2 DEF Recycled
    <3>4. Excepted(c) => Excepted(c)'
      BY <1>1, <3>3 DEF Excepted
    <3>5. QED BY <1>1, <1>2, <2>6, <2>7, <3>1, <3>4, StreamFrame
  <2>10. QED BY <2>8, <2>9
<1>6. CASE AcceptPastTable
  <2>1. UNCHANGED <<conn, host, h, aThreads, sock, since>>
    BY <1>6 DEF AcceptPastTable
  <2>2. Counted(c)' = Counted(c) /\ End(c)' = End(c)
    BY <1>1, <1>3, <2>1 DEF Counted, Served, End
  <2>3. Excepted(c) => Excepted(c)'
    BY <1>1, <2>1 DEF Excepted, Recycled
  <2>4. QED BY <1>1, <1>2, <2>1, <2>2, <2>3, StreamFrame
<1>7. CASE StartReceiver
  <2>1. /\ aThreads' = [aThreads EXCEPT ![h] = client] /\ mpc = "start"
        /\ UNCHANGED <<host, h, sock, conn, since>>
    BY <1>7 DEF StartReceiver
  <2>2. \A s \in 0 .. h - 1 : aThreads'[s] = aThreads[s]
    BY <2>1
  <2>3. Counted(c)' <=> Counted(c)
    BY <2>1, <2>2 DEF Counted
  <2>4. Served(c)' <=> Served(c)
    BY <1>1, <1>4, <2>2 DEF Served
  <2>5. End(c)' = End(c)
    BY <1>1, <1>3, <2>4 DEF End
  <2>6. \A s \in Slots : aThreads[s] # NoThread => aThreads'[s] = aThreads[s]
    BY <2>1 DEF SlotInv, SlotIsFilled
  <2>7. Excepted(c) => Excepted(c)'
    BY <1>1, <2>1, <2>6 DEF Excepted, Recycled
  <2>8. QED BY <1>1, <1>2, <2>1, <2>3, <2>5, <2>7, StreamFrame
<1>8. CASE CountHost
  <2>1. /\ h' = h + 1 /\ since' = [since EXCEPT ![client] = flushed] /\ mpc = "count"
        /\ UNCHANGED <<host, aThreads, sock, conn>>
    BY <1>8 DEF CountHost
  <2>2. client \in Clients /\ h \in Slots /\ aThreads[h] = client
    BY <2>1 DEF SlotInv, CountedIsFilled
  <2>3. \A s : s \in 0 .. h' - 1 <=> s \in 0 .. h - 1 \/ s = h
    BY <2>1
  <2>4. Counted(c)' <=> Counted(c) \/ c = client
    BY <2>1, <2>2, <2>3 DEF Counted
  <2>5. End(c)' = End(c)
    BY <1>1, <1>3, <2>1 DEF Served, End
  <2>6. Excepted(c) <=> Excepted(c)'
    BY <1>1, <2>1 DEF Excepted, Recycled
  <2>7. since \in [Clients -> Nat]
    BY DEF TypeInv, TypeOK, ServerTypeOK
  <2>8. CASE c = client /\ conn[c] = "open"
    <3>1. ~Counted(c)
      BY <2>2, <2>8 DEF Counted, SlotInv, SlotIsOwn, Slots
    <3>2. ASSUME ~Excepted(c) PROVE OpenStream(c)'
      <4>1. Stream(c) = <<>>
        BY <2>8, <3>1, <3>2 DEF ClientStream, OpenStream
      <4>2. End(c) \in 0 .. Len(order) /\ End(c) <= flushed
        BY EndInOrder
      <4>3. Piece(<<>>, End(c), order)
        BY <4>2, LoopTypes, PieceOfNothing
      <4>4. Len(<<>>) = 0 /\ End(c) + 0 = End(c)
        BY <4>2
      <4>5. since'[c] = flushed
        BY <2>1, <2>7, <2>8
      <4>6. UpToDate(c)'
        BY <1>1, <1>2, <2>5, <4>1, <4>2, <4>3, <4>4, <4>5 DEF UpToDate
      <4>7. QED BY <2>4, <2>8, <4>6 DEF OpenStream
    <3>3. QED BY <2>1, <2>6, <2>8, <3>2 DEF ClientStream, OpenStream
  <2>9. CASE c # client
    BY <1>1, <1>2, <2>1, <2>4, <2>5, <2>6, <2>7, <2>9, StreamFrame
  <2>10. CASE conn[c] # "open"
    BY <1>1, <1>2, <2>1, <2>6, <2>10, StreamFrame
  <2>11. QED BY <2>8, <2>9, <2>10
<1>9. QED BY <1>5, <1>6, <1>7, <1>8 DEF MainThread

(* One turn of the loop sends the update underway to the host of the slot, *)
(* and to another client only when the value of its socket is used again.  *)
LEMMA StreamToHost ==
  ASSUME TypeInv, BufferInv, LoopInv, SlotInv, SendToHost, UNCHANGED clientVars,
         NEW c \in Clients, ClientStream(c)
  PROVE  ClientStream(c)'
<1> DEFINE R == {d \in Clients : conn[d] = "open" /\ sock[d] = host[i]}
           room == {d \in R : peer[d] = "up" /\ Len(downlink[d]) < Window}
<1>1. /\ spc = "send" /\ i < h /\ i' = i + 1
      /\ UNCHANGED <<spc, tempBuf, flushed, host, h, aThreads, sock, since, order, printed, conn>>
  BY DEF SendToHost, SendUpdate
<1>2. /\ downlink' = [d \in Clients |-> IF d \in room THEN Append(downlink[d], tempBuf)
                                                     ELSE downlink[d]]
      /\ missed' = IF tempBuf = <<>> THEN missed ELSE missed \cup (R \ room)
  BY DEF SendToHost, SendUpdate
<1>3. c \in R <=> conn[c] = "open" /\ sock[c] = host[i]
  OBVIOUS
<1>4. c \in room => c \in R
  OBVIOUS
<1> HIDE DEF R, room
<1>5. Excepted(c) => Excepted(c)'
  BY <1>1, <1>2 DEF Excepted, Recycled
<1>6. Counted(c)' <=> Counted(c)
  BY <1>1 DEF Counted
<1>7. Due = Len(tempBuf) /\ Due' = Due /\ Due <= flushed
  BY <1>1 DEF Due, LoopInv
<1>8. \A s : s \in 0 .. i' - 1 <=> s \in 0 .. i - 1 \/ s = i
  BY <1>1, LoopTypes
<1>9. Served(c)' <=> Served(c) \/ aThreads[i] = c
  BY <1>1, <1>8 DEF Served
<1>10. i \in 0 .. h - 1 /\ i \in Slots /\ aThreads[i] \in Clients
  BY <1>1, LoopTypes, TableTypes DEF SlotInv, CountedIsFilled
<1>11. CASE c \notin R /\ (conn[c] = "open" => aThreads[i] # c)
  <2>1. downlink'[c] = downlink[c]
    BY <1>2, <1>4, <1>11
  <2>2. Stream(c)' = Stream(c)
    BY <1>1, <2>1 DEF Stream
  <2>3. conn[c] = "open" => End(c)' = End(c)
    BY <1>1, <1>7, <1>9, <1>11 DEF End
  <2>4. QED BY <1>1, <1>5, <1>6, <2>2, <2>3, StreamFrame
<1>12. CASE c \in R /\ aThreads[i] # c
  <2>1. host[i] = sock[c] /\ aThreads[i] \notin {c, NoThread} /\ conn'[c] = "open"
    BY <1>1, <1>3, <1>10, <1>12, TableTypes
  <2>2. Excepted(c)'
    BY <1>1, <1>10, <2>1 DEF Excepted, Recycled
  <2>3. QED BY <2>1, <2>2 DEF ClientStream, OpenStream
<1>13. CASE conn[c] = "open" /\ aThreads[i] = c
  <2>1. c \in R
    BY <1>3, <1>10, <1>13, TableTypes DEF SlotInv, SlotIsFilled
  <2>2. Counted(c) /\ Counted(c)'
    BY <1>6, <1>10, <1>13 DEF Counted
  <2>3. ~Served(c)
    <3>1. ASSUME NEW s \in 0 .. i - 1, aThreads[s] = c PROVE FALSE
      <4>1. s \in Slots /\ s # i
        BY <1>1, LoopTypes, TableTypes DEF Slots
      <4>2. QED BY <1>10, <1>13, <3>1, <4>1, TableTypes DEF SlotInv, SlotIsOwn
    <3>2. QED BY <3>1 DEF Served
  <2>4. End(c) = flushed - Len(tempBuf) /\ End(c)' = flushed
    BY <1>1, <1>7, <1>9, <1>13, <2>3 DEF End
  <2>5. ASSUME ~Excepted(c)' PROVE UpToDate(c)'
    <3>1. PICK a \in 0 .. Len(order) : /\ Piece(Stream(c), a, order)
                                       /\ a + Len(Stream(c)) = End(c)
                                       /\ a <= since[c]
      BY <1>5, <1>13, <2>2, <2>5 DEF ClientStream, OpenStream, UpToDate
    <3>2. Piece(tempBuf, flushed - Len(tempBuf), order)
      BY <1>1, <1>7 DEF LoopInv
    <3>3. CASE c \in room
      <4> DEFINE p == printed[c]
                 f == FlattenSeq(downlink[c])
                 y == tempBuf
      <4>1. p \in Seq(Message) /\ f \in Seq(Message) /\ y \in Seq(Message)
            /\ downlink[c] \in Seq(Seq(Message))
        BY StreamTypes, LoopTypes
      <4>2. downlink'[c] = Append(downlink[c], y)
        BY <1>2, <3>3
      <4>3. FlattenSeq(Append(downlink[c], y)) = f \o y
        BY <4>1, FlattenAppend
      <4>4. Stream(c)' = p \o (f \o y) /\ Stream(c) = p \o f
        BY <1>1, <4>2, <4>3 DEF Stream
      <4> HIDE DEF p, f, y
      <4>5. p \o (f \o y) = (p \o f) \o y
        BY SMTT(30), <4>1, Associative
      <4>6. Stream(c)' = Stream(c) \o y
        BY <4>4, <4>5
      <4> DEFINE x == Stream(c)
      <4>7. x \in Seq(Message) /\ Len(x) \in Nat
        BY StreamTypes
      <4>8. Piece(x, a, order) /\ a + Len(x) = flushed - Len(y) /\ a \in Nat
        BY <2>4, <3>1 DEF y
      <4>9. Piece(y, a + Len(x), order)
        BY <3>2, <4>8 DEF y
      <4>10. Stream(c)' = x \o y
        BY <4>6
      <4> HIDE DEF x
      <4>11. Piece(x \o y, a, order)
        BY <4>1, <4>7, <4>8, <4>9, LoopTypes, PiecesJoin
      <4>12. Len(x \o y) = Len(x) + Len(y) /\ Len(y) \in Nat
        BY <4>1, <4>7
      <4>13. a + Len(x \o y) = flushed
        <5>1. flushed \in Nat
          BY LoopTypes
        <5>2. a + (Len(x) + Len(y)) = (a + Len(x)) + Len(y)
          BY <4>7, <4>8, <4>12
        <5>3. QED BY <4>8, <4>12, <5>1, <5>2
      <4>14. QED BY <1>1, <2>4, <3>1, <4>10, <4>11, <4>13 DEF UpToDate
    <3>4. CASE c \notin room
      <4>1. tempBuf = <<>> /\ downlink'[c] = downlink[c]
        BY <1>2, <2>1, <2>5, <3>4 DEF Excepted
      <4>2. Stream(c)' = Stream(c)
        BY <1>1, <4>1 DEF Stream
      <4>3. End(c)' = End(c)
        BY <2>4, <4>1, LoopTypes
      <4>4. QED BY <1>1, <3>1, <4>2, <4>3 DEF UpToDate
    <3>5. QED BY <3>3, <3>4
  <2>6. QED BY <1>1, <1>13, <2>2, <2>5 DEF ClientStream, OpenStream
<1>14. QED BY <1>3, <1>11, <1>12, <1>13

(* The other steps of the send thread send nothing.                        *)
LEMMA StreamSend ==
  ASSUME TypeInv, BufferInv, LoopInv, SlotInv, SendThread, UNCHANGED clientVars,
         NEW c \in Clients, ClientStream(c)
  PROVE  ClientStream(c)'
<1>1. CASE SendToHost
  BY <1>1, StreamToHost
<1>2. CASE SenderLocks \/ SenderTimesOut \/ CopyBuffer \/ ClearBuffer \/ SenderUnlocks \/ SendDone
  <2>1. UNCHANGED <<conn, downlink, printed, missed, host, h, aThreads, sock, since, order>>
    BY <1>2 DEF SenderLocks, SenderTimesOut, CopyBuffer, ClearBuffer, SenderUnlocks, SendDone
  <2>2. Stream(c)' = Stream(c)
    BY <2>1 DEF Stream
  <2>3. (Excepted(c) => Excepted(c)') /\ (Counted(c)' <=> Counted(c))
    BY <2>1 DEF Excepted, Recycled, Counted
  <2>4. ASSUME Counted(c) PROVE End(c)' = End(c)
    <3>1. CASE SenderLocks \/ SenderTimesOut \/ CopyBuffer \/ SenderUnlocks
      <4>1. UNCHANGED <<i, flushed, aThreads>> /\ Due' = Due
        BY <3>1 DEF SenderLocks, SenderTimesOut, CopyBuffer, SenderUnlocks, Due
      <4>2. QED BY <4>1 DEF End, Served
    <3>2. CASE ClearBuffer
      <4>1. /\ i = 0 /\ i' = 0 /\ Due = 0 /\ Due' = Len(tempBuf)
            /\ flushed' = flushed + Len(tempBuf)
        BY <3>2 DEF ClearBuffer, LoopInv, Due
      <4>2. ~Served(c) /\ ~Served(c)'
        BY <4>1 DEF Served
      <4>3. QED BY <4>1, <4>2, LoopTypes DEF End
    <3>3. CASE SendDone
      <4>1. i >= h /\ Due' = 0 /\ flushed' = flushed
        BY <3>3 DEF SendDone, Due
      <4>2. Served(c)
        BY <2>4, <4>1, LoopTypes DEF Served, Counted
      <4>3. QED BY <4>1, <4>2, LoopTypes DEF End
    <3>4. QED BY <1>2, <3>1, <3>2, <3>3
  <2>5. QED BY <2>1, <2>2, <2>3, <2>4, StreamFrame
<1>3. QED BY <1>1, <1>2 DEF SendThread

(* A receive thread may close the connection: the stream ends where it is. *)
LEMMA StreamReceive ==
  ASSUME TypeInv, NEW d \in Clients, Receiver(d), UNCHANGED clientVars,
         NEW c \in Clients, ClientStream(c)
  PROVE  ClientStream(c)'
<1>1. UNCHANGED <<downlink, printed, missed, host, h, aThreads, sock, since, i, spc,
                  tempBuf, flushed>>
  BY DEF Receiver, Receive, ReceiveFails, ReceiverLocks, ReceiverTimesOut,
         AppendMessage, AppendPastBuffer, ReceiverUnlocks
<1>2. recBuf[d] \in Message
  BY DEF TypeInv, TypeOK, ServerTypeOK
<1>3. order' = order \/ \E m \in Message : order' = Append(order, m)
  BY <1>2 DEF Receiver, Receive, ReceiveFails, ReceiverLocks, ReceiverTimesOut,
              AppendMessage, AppendPastBuffer, ReceiverUnlocks
<1>4. Stream(c)' = Stream(c)
  BY <1>1 DEF Stream
<1>5. Excepted(c)' <=> Excepted(c)
  BY <1>1 DEF Excepted, Recycled
<1>6. (Counted(c)' <=> Counted(c)) /\ End(c)' = End(c)
  BY <1>1 DEF Counted, End, Served, Due
<1>7. CASE conn'[c] = conn[c]
  BY <1>1, <1>3, <1>4, <1>5, <1>6, <1>7, StreamFrame
<1>8. CASE conn'[c] # conn[c]
  <2>1. order' = order /\ conn' = [conn EXCEPT ![d] = "closed"]
    BY <1>8 DEF Receiver, Receive, ReceiveFails, ReceiverLocks, ReceiverTimesOut,
                AppendMessage, AppendPastBuffer, ReceiverUnlocks
  <2>2. conn'[c] = "closed"
    BY <1>8, <2>1 DEF TypeInv, TypeOK, LinkTypeOK
  <2>3. ClosedStream(c)
    BY OpenIsClosed
  <2>4. ClosedStream(c)'
    BY <1>4, <1>5, <2>1, <2>3 DEF ClosedStream
  <2>5. QED BY <2>2, <2>4 DEF ClientStream
<1>9. QED BY <1>7, <1>8

(* A client prints the front of its stream, or loses the rest of it when   *)
(* its connection is closed.                                               *)
LEMMA StreamClient ==
  ASSUME TypeInv, NEW d \in Clients, UNCHANGED serverVars,
         ClientConnects(d) \/ ClientSends(d) \/ ClientReceives(d) \/ ClientIsKilled(d),
         NEW c \in Clients, ClientStream(c)
  PROVE  ClientStream(c)'
<1>1. UNCHANGED <<conn, missed>>
  BY DEF ClientConnects, Connect, ClientSends, SendToServer, SendIsRefused, ClientReceives,
         ClientIsKilled, Disconnect
<1>2. Excepted(c)' <=> Excepted(c)
  BY <1>1 DEF Excepted, Recycled
<1>3. (Counted(c)' <=> Counted(c)) /\ End(c)' = End(c)
  BY DEF Counted, End, Served, Due
<1>4. CASE Stream(c)' = Stream(c)
  BY <1>1, <1>2, <1>3, <1>4, StreamFrame
<1>5. CASE UNCHANGED <<printed, downlink>>
  BY <1>4, <1>5 DEF Stream
<1>6. CASE ClientReceives(d)
  <2>1. CASE downlink[d] = <<>> \/ c # d
    <3>1. printed'[c] = printed[c] /\ downlink'[c] = downlink[c]
      BY <1>6, <2>1 DEF ClientReceives, TypeInv, TypeOK, LinkTypeOK, ClientTypeOK
    <3>2. QED BY <1>4, <3>1 DEF Stream
  <2>2. CASE downlink[c] # <<>> /\ c = d
    <3> DEFINE p == printed[c]
               l == downlink[c]
               u == Head(l)
               f == FlattenSeq(Tail(l))
    <3>1. p \in Seq(Message) /\ l \in Seq(Seq(Message)) /\ l # <<>>
      BY <2>2, StreamTypes
    <3>2. u \in Seq(Message) /\ Tail(l) \in Seq(Seq(Message))
      BY <3>1, HeadTailProperties
    <3>3. f \in Seq(Message)
      BY <3>2, FlattenType
    <3>4. FlattenSeq(l) = u \o f
      BY <3>1, FlattenHead
    <3>5. printed'[c] = p \o u /\ downlink'[c] = Tail(l)
      BY <1>6, <2>2 DEF ClientReceives, TypeInv, TypeOK, LinkTypeOK, ClientTypeOK
    <3>6. Stream(c)' = (p \o u) \o f /\ Stream(c) = p \o (u \o f)
      BY <3>4, <3>5 DEF Stream
    <3> HIDE DEF p, u, f
    <3>7. (p \o u) \o f = p \o (u \o f)
      BY SMTT(30), <3>1, <3>2, <3>3, Associative
    <3>8. QED BY <1>4, <3>6, <3>7
  <2>3. QED BY <2>1, <2>2
<1>7. CASE ClientSends(d)
  <2>1. printed' = printed
    BY <1>7 DEF ClientSends
  <2>2. CASE downlink'[c] = downlink[c]
    BY <1>4, <2>1, <2>2 DEF Stream
  <2>3. CASE downlink'[c] # downlink[c]
    <3>1. c = d /\ conn[c] = "closed" /\ downlink'[c] = <<>>
      BY <1>7, <2>3 DEF ClientSends, SendToServer, SendIsRefused, TypeInv, TypeOK, LinkTypeOK
    <3> DEFINE p == printed[c]
               f == FlattenSeq(downlink[c])
    <3>2. p \in Seq(Message) /\ f \in Seq(Message)
      BY StreamTypes
    <3>3. Stream(c) = p \o f /\ Stream(c)' = p \o <<>>
      BY <2>1, <3>1, FlattenEmpty DEF Stream
    <3> HIDE DEF p, f
    <3>4. Stream(c)' = p
      BY <3>2, <3>3, ConcatEmptySeq
    <3>5. ASSUME ~Excepted(c) PROVE \E a \in 0 .. Len(order) : Piece(p, a, order)
      <4>1. PICK a \in 0 .. Len(order) : Piece(Stream(c), a, order)
        BY <3>1, <3>5 DEF ClientStream, ClosedStream
      <4>2. a \in Nat
        BY LoopTypes
      <4>3. Piece(p \o f, a, order)
        BY <3>3, <4>1
      <4>4. Piece(p, a, order)
        BY <3>2, <4>2, <4>3, LoopTypes, PieceFront
      <4>5. QED BY <4>4
    <3>6. ClosedStream(c)'
      BY <1>2, <3>4, <3>5 DEF ClosedStream
    <3>7. QED BY <1>1, <3>1, <3>6 DEF ClientStream
  <2>4. QED BY <2>2, <2>3
<1>8. QED BY <1>5, <1>6, <1>7
          DEF ClientConnects, Connect, ClientIsKilled, Disconnect

(* What each client was sent is a piece of the order, up to date while its *)
(* connection is open.                                                     *)
THEOREM StreamCorrect == Spec => []StreamInv
<1>1. ASSUME TypeInv, HandOver, BufferInv, LoopInv, SlotInv, StreamInv, Next
      PROVE  StreamInv'
  <2> SUFFICES ASSUME NEW c \in Clients PROVE ClientStream(c)'
    BY DEF StreamInv
  <2>1. ClientStream(c)
    BY <1>1 DEF StreamInv
  <2>2. QED BY <1>1, <2>1, StepOfAThread, StreamMain, StreamSend, StreamReceive, StreamClient
<1>2. ASSUME TypeInv, StreamInv, UNCHANGED vars PROVE StreamInv'
  <2> SUFFICES ASSUME NEW c \in Clients PROVE ClientStream(c)'
    BY DEF StreamInv
  <2>1. ClientStream(c)
    BY <1>2 DEF StreamInv
  <2>2. Stream(c)' = Stream(c) /\ (Excepted(c) => Excepted(c)')
    BY <1>2 DEF Stream, Excepted, Recycled
  <2>3. (Counted(c)' <=> Counted(c)) /\ End(c)' = End(c)
    BY <1>2 DEF Counted, End, Served, Due
  <2>4. QED BY <1>2, <2>1, <2>2, <2>3, StreamFrame
<1>3. TypeInv /\ HandOver /\ BufferInv /\ LoopInv /\ SlotInv /\ StreamInv /\ [Next]_vars
        => StreamInv'
  BY <1>1, <1>2
<1>4. QED BY <1>3, StreamInit, TypeCorrect, HandOverCorrect, BufferInvCorrect, LoopCorrect,
             TableCorrect, PTL DEF Spec

(* What a client receives is a piece of the common order of all messages,  *)
(* unless it had no room for an update or its socket value is used again.  *)
THEOREM ContiguousCorrect == Spec => []StreamIsContiguous
<1>1. ASSUME TypeInv, StreamInv PROVE StreamIsContiguous
  <2> SUFFICES ASSUME NEW c \in Clients, ~Excepted(c)
               PROVE  \E first \in 0 .. Len(order) :
                        IsPrefix(Stream(c), SubSeq(order, first + 1, Len(order)))
    BY DEF StreamIsContiguous, Excepted
  <2>1. ClosedStream(c)
    BY <1>1, OpenIsClosed DEF StreamInv
  <2>2. PICK a \in 0 .. Len(order) : Piece(Stream(c), a, order)
    BY <2>1 DEF ClosedStream
  <2>3. Stream(c) \in Seq(Message) /\ order \in Seq(Message)
    BY <1>1, StreamTypes, LoopTypes
  <2>4. IsPrefix(Stream(c), SubSeq(order, a + 1, Len(order)))
    BY <2>2, <2>3, PieceIsPrefix
  <2>5. QED BY <2>4
<1>2. TypeInv /\ StreamInv => StreamIsContiguous
  BY <1>1
<1>3. QED BY <1>2, TypeCorrect, StreamCorrect, PTL

(* Between two updates every connected client was sent all that was taken  *)
(* from the buffer since it was counted, with the same exceptions.         *)
THEOREM HostsCorrect == Spec => []HostsAreCurrent
<1>1. ASSUME TypeInv, BufferInv, LoopInv, SlotInv, StreamInv PROVE HostsAreCurrent
  <2> SUFFICES ASSUME spc = "wait", NEW s \in 0 .. h - 1, NEW c, c = aThreads[s],
                      conn[c] = "open", ~Excepted(c)
               PROVE  /\ IsSuffix(Stream(c), SubSeq(order, 1, flushed))
                      /\ Len(Stream(c)) >= flushed - since[c]
    BY DEF HostsAreCurrent, Excepted
  <2>1. c \in Clients /\ Counted(c)
    BY <1>1 DEF SlotInv, CountedIsFilled, Counted
  <2>2. UpToDate(c)
    BY <1>1, <2>1 DEF StreamInv, ClientStream, OpenStream
  <2>3. PICK a \in 0 .. Len(order) : /\ Piece(Stream(c), a, order)
                                     /\ a + Len(Stream(c)) = End(c)
                                     /\ a <= since[c]
    BY <2>2 DEF UpToDate
  <2>4. End(c) = flushed
    BY <1>1, LoopTypes DEF LoopInv, End, Due
  <2>5. /\ Stream(c) \in Seq(Message) /\ Len(Stream(c)) \in Nat /\ since[c] \in Nat
        /\ order \in Seq(Message) /\ flushed \in 0 .. Len(order) /\ a \in Nat
    BY <1>1, <2>1, <2>4, StreamTypes, LoopTypes, EndInOrder
  <2>6. IsSuffix(Stream(c), SubSeq(order, 1, flushed))
    BY <2>3, <2>4, <2>5, PieceIsSuffix
  <2>7. Len(Stream(c)) >= flushed - since[c]
    BY <2>3, <2>4, <2>5
  <2>8. QED BY <2>6, <2>7
<1>2. TypeInv /\ BufferInv /\ LoopInv /\ SlotInv /\ StreamInv => HostsAreCurrent
  BY <1>1
<1>3. QED BY <1>2, TypeCorrect, BufferInvCorrect, LoopCorrect, TableCorrect, StreamCorrect, PTL
===============================================================================
