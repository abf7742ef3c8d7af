------------------------------ MODULE UpdateQueue ------------------------------
(***************************************************************************)
(* What the receive threads and the send thread of ThreadedServer make of  *)
(* buf, hMutex and the strcpy and strcat calls: a queue.  One step puts    *)
(* the next message of a client at the end of it, one step takes all that  *)
(* is in it as the update to send.                                         *)
(***************************************************************************)
EXTENDS Naturals, Sequences

CONSTANT Clients

VARIABLES
  log,    \* all messages ever put, in order
  next,   \* the number of the next message of each client
  taken   \* how many of them have been taken

queueVars == <<log, next, taken>>

QueueInit == log = <<>> /\ next = [c \in Clients |-> 0] /\ taken = 0

Put(c) ==
  /\ log' = Append(log, [from |-> c, n |-> next[c]])
  /\ next' = [next EXCEPT ![c] = @ + 1]
  /\ UNCHANGED taken

TakeAll == taken' = Len(log) /\ UNCHANGED <<log, next>>

QueueNext == (\E c \in Clients : Put(c)) \/ TakeAll

QueueSpec == QueueInit /\ [][QueueNext]_queueVars
===============================================================================
