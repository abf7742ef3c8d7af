------------------------------- MODULE BoidsGame -------------------------------
(***************************************************************************)
(* The game thread of a Boids peer: UIController, BoidNetworkManager and   *)
(* the part of BoidFlock that sends.  It calls NetworkManager through      *)
(* CitaNetWrapper.  In every frame BoidNetworkManager.Update runs, and     *)
(* then BoidFlock.Update, once initialize has activated the flock.         *)
(*                                                                         *)
(* hasError() and hasReceived() read a flag and clear it in two steps.     *)
(* For hasReceived both are modelled.  For hasError they are one step: an  *)
(* error that is set between them is not logged, and logging is left out.  *)
(***************************************************************************)
EXTENDS NetworkManager

CONSTANTS
  MaxLaunches,   \* bound: how often the program is started, per peer
  MaxFailures,   \* bound: failures of bind, socket or the first sendto
  Leavers        \* peers whose program may end

ASSUME GameAssumption ==
  /\ MaxLaunches \in [Peers -> Nat]
  /\ MaxFailures \in Nat
  /\ Leavers \subseteq Peers

VARIABLES
  game,          \* off, frame, flock, init, check, clean, join, clear, parse
  initialized,
  got,           \* the result of hasReceived()
  remoteFlock,   \* what the remote flock shows: connect (nothing), flock, torn
  launches, failures

gameVars == <<game, initialized, got, remoteFlock, launches, failures>>

GameTypeOK ==
  /\ game \in [Peers -> {"off", "frame", "flock", "init", "check", "clean", "join", "clear", "parse"}]
  /\ initialized \in [Peers -> BOOLEAN]
  /\ got \in [Peers -> BOOLEAN]
  /\ remoteFlock \in [Peers -> Messages \cup {"torn"}]
  /\ launches \in [Peers -> Nat] /\ \A p \in Peers : launches[p] <= MaxLaunches[p]
  /\ failures \in 0 .. MaxFailures

GameInit ==
  /\ game = [p \in Peers |-> "off"]
  /\ initialized = [p \in Peers |-> FALSE]
  /\ got = [p \in Peers |-> FALSE]
  /\ remoteFlock = [p \in Peers |-> "connect"]
  /\ launches = [p \in Peers |-> 0]
  /\ failures = 0

GoTo(p, from, to) == game[p] = from /\ game' = [game EXCEPT ![p] = to]

(* The program is started and its start button is pressed, which calls     *)
(* initialize with retry and hides the button.  Nothing happens before.    *)
Launch(p) ==
  /\ launches[p] < MaxLaunches[p]
  /\ GoTo(p, "off", "init")
  /\ launches' = [launches EXCEPT ![p] = @ + 1]
  /\ UNCHANGED <<initialized, got, remoteFlock, failures, netVars>>

(* initialize() is called by the button, and by Update() to try again.     *)
CallInitialize(p) ==
  /\ game[p] = "init" \/ (game[p] = "frame" /\ ~initialized[p])
  /\ game' = [game EXCEPT ![p] = "check"]
  /\ Initialize(p, TRUE)
  /\ UNCHANGED <<initialized, got, remoteFlock, launches, failures>>

CallInitializeFails(p) ==
  /\ failures < MaxFailures
  /\ game[p] = "init" \/ (game[p] = "frame" /\ ~initialized[p])
  /\ game' = [game EXCEPT ![p] = "check"]
  /\ Initialize(p, FALSE)
  /\ failures' = failures + 1
  /\ UNCHANGED <<initialized, got, remoteFlock, launches>>

(* Faulty: an error is not cleared when it is read.                        *)
InitHasFailedStill(p) ==
  /\ hasError[p]
  /\ GoTo(p, "check", "clean")
  /\ UNCHANGED <<initialized, got, remoteFlock, launches, failures, netVars>>

(* Faulty: the next attempt is made without cleanUp().                     *)
InitHasFailedUncleaned(p) ==
  /\ hasError[p]
  /\ GoTo(p, "check", "frame")
  /\ hasError' = [hasError EXCEPT ![p] = FALSE]
  /\ UNCHANGED <<initialized, got, remoteFlock, launches, failures,
                 sock, thread, running, connected, sender, incoming, received,
                 newReceived, inbox, reset>>

(* hasError(), of this attempt or left over from the receive thread of an  *)
(* earlier one, leads to cleanUp().                                        *)
InitHasFailed(p) ==
  /\ hasError[p]
  /\ GoTo(p, "check", "clean")
  /\ hasError' = [hasError EXCEPT ![p] = FALSE]
  /\ UNCHANGED <<initialized, got, remoteFlock, launches, failures,
                 sock, thread, running, connected, sender, incoming, received,
                 newReceived, inbox, reset>>

InitHasSucceeded(p) ==
  /\ ~hasError[p]
  /\ GoTo(p, "check", "frame")
  /\ initialized' = [initialized EXCEPT ![p] = TRUE]
  /\ UNCHANGED <<got, remoteFlock, launches, failures, netVars>>

(* cleanUp(): running = false; then it waits for the thread.               *)
CleanUp(p) ==
  /\ GoTo(p, "clean", "join")
  /\ running' = [running EXCEPT ![p] = FALSE]
  /\ UNCHANGED <<initialized, got, remoteFlock, launches, failures,
                 sock, thread, connected, sender, incoming, received,
                 newReceived, hasError, inbox, reset>>

CleanUpReturns(p) ==
  /\ ~initialized[p]
  /\ GoTo(p, "join", "frame")
  /\ JoinAndClose(p)
  /\ UNCHANGED <<initialized, got, remoteFlock, launches, failures>>

EndProcess(p) ==
  /\ game' = [game EXCEPT ![p] = "off"]
  /\ initialized' = [initialized EXCEPT ![p] = FALSE]
  /\ got' = [got EXCEPT ![p] = FALSE]
  /\ remoteFlock' = [remoteFlock EXCEPT ![p] = "connect"]
  /\ ProcessEnds(p)
  /\ UNCHANGED <<launches, failures>>

(* OnApplicationQuit() cleans up once initialized, and the process ends.   *)
Quit(p) ==
  /\ p \in Leavers
  /\ initialized[p]
  /\ GoTo(p, "frame", "clean")
  /\ UNCHANGED <<initialized, got, remoteFlock, launches, failures, netVars>>

QuitReturns(p) ==
  /\ initialized[p]
  /\ game[p] = "join" /\ thread[p] = "exited"
  /\ EndProcess(p)

(* It is killed or crashes: throwError adds an error code to a string      *)
(* literal, which may end the process in any call that reports an error.   *)
IsKilled(p) ==
  /\ p \in Leavers /\ game[p] # "off"
  /\ EndProcess(p)

-------------------------------------------------------------------------------
(* hasReceived() reads newReceived ...                                     *)
ReadNew(p) ==
  /\ initialized[p]
  /\ GoTo(p, "frame", "clear")
  /\ got' = [got EXCEPT ![p] = newReceived[p]]
  /\ UNCHANGED <<initialized, remoteFlock, launches, failures, netVars>>

(* ... and clears it, also when it was set since.  Then checkErrors().     *)
ClearNew(p) ==
  /\ GoTo(p, "clear", IF got[p] THEN "parse" ELSE "flock")
  /\ newReceived' = [newReceived EXCEPT ![p] = FALSE]
  /\ hasError' = [hasError EXCEPT ![p] = FALSE]
  /\ got' = [got EXCEPT ![p] = FALSE]
  /\ UNCHANGED <<initialized, remoteFlock, launches, failures,
                 sock, thread, running, connected, sender, incoming, received, inbox, reset>>

(* parseReceivedMessage(): the remote flock becomes what is received; "0"  *)
(* has no boids and removes it.  A number that cannot be parsed throws and *)
(* leaves a part of it.                                                    *)
Parse(p) ==
  /\ GoTo(p, "parse", "flock")
  /\ \E m \in LastReceived(p) : remoteFlock' = [remoteFlock EXCEPT ![p] = m]
  /\ hasError' = [hasError EXCEPT ![p] = FALSE]
  /\ UNCHANGED <<initialized, got, launches, failures,
                 sock, thread, running, connected, sender, incoming, received,
                 newReceived, inbox, reset>>

(* BoidFlock.Update(): once NETWORK_DELAY has passed the flock is sent, if *)
(* the server knows a client; checkErrors() clears the error otherwise.    *)
SendFlock(p) ==
  /\ p = Server => sender # "none"
  /\ GoTo(p, "flock", "frame")
  /\ Deliver(p, "flock")
  /\ hasError' = [hasError EXCEPT ![p] = FALSE]
  /\ UNCHANGED <<initialized, got, remoteFlock, launches, failures,
                 sock, thread, running, connected, sender, incoming, received, newReceived>>

(* The flock is sent and lost, there is nobody to send it to, or           *)
(* NETWORK_DELAY has not passed.                                           *)
SendFlockInVain(p) ==
  /\ GoTo(p, "flock", "frame")
  /\ hasError' \in {hasError, [hasError EXCEPT ![p] = FALSE]}
  /\ UNCHANGED <<initialized, got, remoteFlock, launches, failures,
                 sock, thread, running, connected, sender, incoming, received,
                 newReceived, inbox, reset>>

GameThread(p) ==
  \/ CallInitialize(p) \/ CallInitializeFails(p)
  \/ InitHasFailed(p) \/ InitHasSucceeded(p) \/ CleanUp(p) \/ CleanUpReturns(p)
  \/ QuitReturns(p) \/ ReadNew(p) \/ ClearNew(p) \/ Parse(p)
  \/ SendFlock(p) \/ SendFlockInVain(p)
===============================================================================
