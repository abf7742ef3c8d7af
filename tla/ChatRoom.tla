------------------------------- MODULE ChatRoom -------------------------------
(***************************************************************************)
(* What the UDP chat promises to its participants: there is one order of   *)
(* all that is said in the room, and everybody hears a part of it, in that *)
(* order, from the time of joining on.  Nobody hears the own texts.        *)
(* Messages may be missed; a participant that has joined more than once    *)
(* may hear something more than once, the own joining too.                 *)
(***************************************************************************)
EXTENDS Naturals, Sequences

CONSTANTS
  Ports,     \* the participants
  Numbers    \* the numbers their messages have, naturals

(* The n-th message of who: it joins the room or says something.           *)
Event == [kind : {"join", "say"}, who : Ports, n : Numbers]

VARIABLES
  log,    \* all events, in the order of the room
  heard   \* what each participant heard

roomVars == <<log, heard>>

JoinedBefore(p, k) == \E j \in 1 .. k - 1 : log[j].kind = "join" /\ log[j].who = p

InOrder(p, k) ==
  heard[p] # <<>> => \E j \in 1 .. k : log[j] = heard[p][Len(heard[p])]

Speak(e) ==
  /\ \A j \in 1 .. Len(log) : log[j].who = e.who => log[j].n < e.n
  /\ log' = Append(log, e)
  /\ UNCHANGED heard

Hear(p) ==
  /\ \E k \in 1 .. Len(log) :
       /\ JoinedBefore(p, k)
       /\ InOrder(p, k)
       /\ log[k].kind = "say" => log[k].who # p
       /\ heard' = [heard EXCEPT ![p] = Append(@, log[k])]
  /\ UNCHANGED log

RoomInit == log = <<>> /\ heard = [p \in Ports |-> <<>>]

RoomNext == (\E e \in Event : Speak(e)) \/ (\E p \in Ports : Hear(p))

RoomSpec == RoomInit /\ [][RoomNext]_roomVars
===============================================================================
