----------------------------- MODULE BoidsSession -----------------------------
(***************************************************************************)
(* Two Boids peers that exchange their flocks.                             *)
(***************************************************************************)
EXTENDS BoidsGame

vars == <<netVars, gameVars>>

Init == NetInit /\ GameInit

Next ==
  \E p \in Peers :
    \/ Launch(p) \/ Quit(p) \/ IsKilled(p)
    \/ CallInitialize(p) \/ CallInitializeFails(p)
    \/ InitHasFailed(p) \/ InitHasSucceeded(p) \/ CleanUp(p) \/ CleanUpReturns(p)
    \/ QuitReturns(p) \/ ReadNew(p) \/ ClearNew(p) \/ Parse(p)
    \/ SendFlock(p) \/ SendFlockInVain(p)
    \/ ReceiveFirst(p) /\ UNCHANGED gameVars
    \/ Receive(p) /\ UNCHANGED gameVars
    \/ Store(p) /\ UNCHANGED gameVars
    \/ ReceiveFails(p) /\ UNCHANGED gameVars
    \/ StopReceiving(p) /\ UNCHANGED gameVars

Spec == Init /\ [][Next]_vars

(* The scheduler runs both threads of both peers, and recvfrom does not    *)
(* report errors for ever while a datagram waits.  The timer of the flock  *)
(* runs off again and again, and the network does not lose all datagrams.  *)
(* Nobody need start or end a program.                                     *)
Fairness ==
  \A p \in Peers :
    /\ WF_vars(GameThread(p))
    /\ WF_vars(ReceiveThread(p) /\ UNCHANGED gameVars)
    /\ SF_vars((ReceiveFirst(p) \/ Receive(p)) /\ UNCHANGED gameVars)
    /\ SF_vars(SendFlock(p))

FairSpec == Spec /\ Fairness

-------------------------------------------------------------------------------
(* Every variable holds a value the declarations of the code allow; once   *)
(* its thread has had a datagram, the server has an address to send to.    *)
TypeOK == NetTypeOK /\ GameTypeOK

(* What initialize() finds when it is called next, of this process or of   *)
(* one started later: by the button, or by Update() to try again.          *)
BeforeInitialize(p) ==
  game[p] \in {"off", "init"} \/ (game[p] = "frame" /\ ~initialized[p])

(* recThread is never assigned while it is joinable, nor joined when it is *)
(* not, both of which would end the process; no socket is left open when   *)
(* the next one is created; and a peer that says it is initialized has a   *)
(* usable socket and a thread that reads it.  This holds over all attempts *)
(* to initialize, and although initialize() goes on after an error: every  *)
(* attempt, the retries included, finds neither a thread nor a socket.     *)
ThreadDiscipline ==
  \A p \in Peers :
    /\ BeforeInitialize(p) => thread[p] = "none" /\ sock[p] = "none"
    /\ game[p] \in {"check", "clean", "join"} \/ initialized[p] => thread[p] # "none"
    /\ initialized[p] /\ game[p] # "join" => sock[p] = "good" /\ running[p]
    /\ thread[p] = "exited" => game[p] = "join"

(* A server that is running is initialized in the end, whether or not it   *)
(* has a client, and so is a client whose server is running: errors left   *)
(* over from one attempt do not spoil all that follow.  bind and sendto do *)
(* not fail for ever.  Of a client without a server nothing is said: what  *)
(* it sends may come back as an error of every attempt.                    *)
RetrySucceeds ==
  \A p \in Peers :
    <>[](game[p] # "off" /\ game[Server] # "off") => <>[]initialized[p]

(* The remote flock becomes a flock that was received since the last look. *)
ShowFlock(p) == Parse(p) /\ remoteFlock'[p] = "flock"

(* The game thread loses a race against the receive thread: a message that *)
(* falls between the two steps of hasReceived() is dropped, or received is *)
(* read while it is assigned.                                              *)
LoseRace(p) ==
  \/ ClearNew(p) /\ ~got[p] /\ newReceived[p]
  \/ Parse(p) /\ remoteFlock'[p] = "torn"

(* While both peers are initialized, each receives and shows a flock of    *)
(* the other anew, again and again, whichever was started first, however   *)
(* often one was started anew, and although the server swallows its first  *)
(* datagram.  Only losing the race of the two threads, which the code does *)
(* not exclude, again and again can keep it from that.                     *)
FlocksAreShown ==
  <>[](\A p \in Peers : initialized[p])
    => \A p \in Peers : []<><<ShowFlock(p)>>_vars \/ []<><<LoseRace(p)>>_vars
===============================================================================
