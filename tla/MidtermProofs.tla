----------------------------- MODULE MidtermProofs -----------------------------
(***************************************************************************)
(* Theorems about MidtermSync, for every budget of moves, launches and     *)
(* dead reckoning.                                                         *)
(***************************************************************************)
EXTENDS MidtermSync, TLAPS

Positions(p) == 0 .. budget.moves[p]
Fates == {"fresh", "lost", "overtaken", "swallowed"}

USE MidtermAssumption
    DEF Peers, Other, vars, peerVars, threadVars, serverVars, netVars, Datagram, Both, AtBoth,
        Fates

LEMMA BudgetType ==
  ASSUME budget \in Budgets
  PROVE  budget.moves \in [Peers -> Nat] /\ budget.launches \in [Peers -> Nat]
OBVIOUS

-------------------------------------------------------------------------------
(***************************************************************************)
(* Types and bounds.                                                       *)
(***************************************************************************)

(* A send adds a position to the other's socket, or has an error.          *)
LEMMA SendType ==
  ASSUME TypeOK, NEW p \in Peers, NEW v \in Positions(p), Send(p, v)
  PROVE  /\ inbox' \in [Peers -> SUBSET Datagram]
         /\ reset' \in [Peers -> BOOLEAN] /\ fate' \in [Peers -> Fates]
         /\ sent' \in [Peers -> Nat \cup {Nothing}]
         /\ \A q \in Peers : \A m \in inbox'[Other(q)] : m.at \in Positions(q)
         /\ \A q \in Peers : sent'[q] \in Positions(q) \cup {Nothing}
<1> USE DEF TypeOK
<1>1. v \in Nat
  BY BudgetType DEF Positions
<1>2. \A q \in Peers : /\ sent[q] \in Positions(q) \cup {Nothing}
                       /\ \A m \in inbox[Other(q)] : m.at \in Positions(q)
  BY DEF WithinBudget, Positions
<1>3. CASE UNCHANGED <<inbox, sent, fate>>
  <2>1. reset' \in [Peers -> BOOLEAN]
    BY DEF Send
  <2>2. QED BY <1>2, <1>3, <2>1 DEF Positions
<1>4. CASE ~ UNCHANGED <<inbox, sent, fate>>
  <2>1. /\ inbox' = [inbox EXCEPT ![Other(p)] = @ \cup {[at |-> v, from |-> "here"]}]
        /\ sent' = [sent EXCEPT ![p] = v] /\ fate' = [fate EXCEPT ![p] = "fresh"]
        /\ reset' = reset
    BY <1>4 DEF Send
  <2>2. QED BY <1>1, <1>2, <2>1 DEF Positions
<1>5. QED BY <1>3, <1>4

LEMMA CloseSocketType ==
  ASSUME TypeOK, NEW p \in Peers, CloseSocket(p)
  PROVE  /\ inbox' \in [Peers -> SUBSET Datagram]
         /\ reset' \in [Peers -> BOOLEAN] /\ fate' \in [Peers -> Fates]
         /\ sent' = [q \in Peers |-> Nothing]
         /\ \A q \in Peers : \A m \in inbox'[q] : \E n \in inbox[q] : m.at = n.at
<1> USE DEF TypeOK
<1> DEFINE gone == {[m EXCEPT !.from = "gone"] : m \in inbox[Other(p)]}
<1>1. gone \in SUBSET Datagram /\ \A m \in gone : \E n \in inbox[Other(p)] : m.at = n.at
  <2> SUFFICES ASSUME NEW n \in inbox[Other(p)]
               PROVE  [n EXCEPT !.from = "gone"] \in Datagram /\ [n EXCEPT !.from = "gone"].at = n.at
    OBVIOUS
  <2>1. n \in Datagram
    OBVIOUS
  <2>2. QED BY <2>1
<1>2. inbox' = [inbox EXCEPT ![p] = {}, ![Other(p)] = gone]
  BY DEF CloseSocket
<1> HIDE DEF gone
<1>3. inbox' \in [Peers -> SUBSET Datagram]
  BY <1>1, <1>2
<1>4. ASSUME NEW q \in Peers, NEW m \in inbox'[q] PROVE \E n \in inbox[q] : m.at = n.at
  <2>1. inbox'[q] = (IF q = p THEN {} ELSE gone) /\ (q # p => q = Other(p))
    BY <1>2
  <2>2. QED BY <1>1, <2>1
<1>5. reset' \in [Peers -> BOOLEAN]
  <2> DEFINE answered == \E m \in inbox[p] : m.from = "here"
  <2>1. PICK r \in {FALSE, answered} : reset' = [reset EXCEPT ![p] = FALSE, ![Other(p)] = @ \/ r]
    BY DEF CloseSocket
  <2>2. r \in BOOLEAN
    BY <2>1
  <2> HIDE DEF answered
  <2>3. (reset[Other(p)] \/ r) \in BOOLEAN
    OBVIOUS
  <2>4. QED BY <2>1, <2>3
<1>6. sent' = [q \in Peers |-> Nothing] /\ fate' \in [Peers -> Fates]
  BY DEF CloseSocket
<1>7. QED BY <1>3, <1>4, <1>5, <1>6

(* A peer whose program or socket ends, forgets what it knew.              *)
LEMMA EndsType ==
  ASSUME TypeOK, EndServer \/ EndClient \/ \E p \in Peers : ReceiveFails(p)
  PROVE  TypeOK'
<1> USE DEF TypeOK
<1>1. PICK p \in Peers : CloseSocket(p)
  BY DEF EndServer, EndClient, ReceiveFails
<1>2. /\ inbox' \in [Peers -> SUBSET Datagram]
      /\ reset' \in [Peers -> BOOLEAN] /\ fate' \in [Peers -> Fates]
      /\ sent' = [q \in Peers |-> Nothing]
      /\ \A q \in Peers : \A m \in inbox'[q] : \E n \in inbox[q] : m.at = n.at
  BY <1>1, CloseSocketType
<1>3. UNCHANGED <<budget, launches>>
  BY DEF EndServer, EndClient, ReceiveFails
<1>4. ASSUME NEW q \in Peers
      PROVE  /\ own' \in [Peers -> Nat] /\ own'[q] \in {0, own[q]}
             /\ got' \in [Peers -> Nat] /\ got'[q] \in {0, got[q]}
             /\ shown' \in [Peers -> [x : Nat \cup {Reckoned}, y : Nat \cup {Reckoned}]]
             /\ shown'[q] \in {Both(0), shown[q]}
  BY DEF EndServer, EndClient, ReceiveFails
<1>5. ASSUME NEW q \in Peers PROVE WithinBudget(q)'
  <2>1. /\ launches[q] <= budget.launches[q] /\ own[q] \in 0 .. budget.moves[q]
        /\ \A m \in inbox[Other(q)] : m.at \in 0 .. budget.moves[q]
        /\ got[Other(q)] \in 0 .. budget.moves[q]
        /\ {shown[Other(q)].x, shown[Other(q)].y} \subseteq (0 .. budget.moves[q]) \cup {Reckoned}
    BY DEF WithinBudget
  <2>2. 0 \in 0 .. budget.moves[q]
    BY BudgetType
  <2>3. own'[q] \in 0 .. budget.moves[q] /\ got'[Other(q)] \in 0 .. budget.moves[q]
    BY <1>4, <2>1, <2>2
  <2>4. {shown'[Other(q)].x, shown'[Other(q)].y} \subseteq (0 .. budget.moves[q]) \cup {Reckoned}
    BY <1>4, <2>1, <2>2
  <2>5. \A m \in inbox'[Other(q)] : m.at \in 0 .. budget.moves[q]
    BY <1>2, <2>1
  <2>6. sent'[q] = Nothing
    BY <1>2
  <2>7. QED BY <1>3, <2>1, <2>3, <2>4, <2>5, <2>6 DEF WithinBudget
<1>6. /\ up' \in [Peers -> {"off", "open", "closed"}]
      /\ thread' \in [Peers -> {"loop", "store", "exited"}]
      /\ \A q \in Peers : up'[q] = "open" <=> thread'[q] # "exited"
      /\ connected' \in BOOLEAN /\ peer' \in {"none", "here", "gone"}
  <2>1. CASE EndServer
    BY <2>1 DEF EndServer
  <2>2. CASE EndClient
    BY <2>2 DEF EndClient
  <2>3. ASSUME NEW q \in Peers, ReceiveFails(q)
        PROVE  /\ up' = [up EXCEPT ![q] = "closed"] /\ thread' = [thread EXCEPT ![q] = "exited"]
               /\ connected' = connected /\ peer' \in {peer, "gone"}
    BY <2>3 DEF ReceiveFails
  <2>4. QED BY <2>1, <2>2, <2>3
<1>7. /\ deadReckoning' \in BOOLEAN /\ recordPOS' \in BOOLEAN
      /\ frame' \in {"idle", "addX", "addY"} /\ session' \in BOOLEAN
  BY DEF EndServer, EndClient, ReceiveFails
<1>8. QED BY <1>2, <1>3, <1>4, <1>5, <1>6, <1>7

(* A datagram is lost or read.                                             *)
LEMMA FewerType ==
  ASSUME TypeOK, NEW p \in Peers, NEW m \in inbox[p], inbox' = [inbox EXCEPT ![p] = @ \ {m}]
  PROVE  /\ inbox' \in [Peers -> SUBSET Datagram]
         /\ \A q \in Peers : \A n \in inbox'[Other(q)] : n.at \in Positions(q)
         /\ m.at \in Positions(Other(p)) /\ m.at \in Nat /\ m.from \in {"here", "gone"}
<1>1. inbox' \in [Peers -> SUBSET Datagram] /\ \A q \in Peers : inbox'[q] \subseteq inbox[q]
  BY DEF TypeOK
<1>2. \A q \in Peers : \A n \in inbox[Other(q)] : n.at \in Positions(q)
  BY DEF TypeOK, WithinBudget, Positions
<1>3. m \in Datagram
  BY DEF TypeOK
<1>4. QED BY <1>1, <1>2, <1>3

LEMMA TypeStep == TypeOK /\ [Next]_vars => TypeOK'
<1> SUFFICES ASSUME TypeOK, [Next]_vars PROVE TypeOK'
  OBVIOUS
<1> USE DEF TypeOK, WithinBudget
<1>1. CASE LaunchServer
  BY <1>1, BudgetType DEF LaunchServer
<1>2. CASE LaunchClient
  <2>1. 0 \in Positions(Client)
    BY BudgetType DEF Positions
  <2>2. /\ inbox' \in [Peers -> SUBSET Datagram]
        /\ reset' \in [Peers -> BOOLEAN] /\ fate' \in [Peers -> Fates]
        /\ sent' \in [Peers -> Nat \cup {Nothing}]
        /\ \A q \in Peers : \A m \in inbox'[Other(q)] : m.at \in Positions(q)
        /\ \A q \in Peers : sent'[q] \in Positions(q) \cup {Nothing}
    BY <1>2, <2>1, SendType DEF LaunchClient
  <2>3. session' \in BOOLEAN
    BY <1>2 DEF LaunchClient
  <2>4. QED BY <1>2, <2>2, <2>3, BudgetType DEF LaunchClient, Positions
<1>3. CASE LaunchClientFails
  BY <1>3, BudgetType DEF LaunchClientFails
<1>4. CASE QuitServer \/ QuitClient \/ ServerSendFails \/ ClientSendFails
  BY <1>4, EndsType DEF QuitServer, QuitClient, ServerSendFails, ClientSendFails
<1>5. ASSUME NEW p \in Peers, Lose(p) PROVE TypeOK'
  <2>1. PICK m \in inbox[p] :
          /\ inbox' = [inbox EXCEPT ![p] = @ \ {m}]
          /\ fate' = [fate EXCEPT ![Other(p)] = IF Latest(p, m) THEN "lost" ELSE @]
    BY <1>5 DEF Lose
  <2>2. /\ inbox' \in [Peers -> SUBSET Datagram]
        /\ \A q \in Peers : \A n \in inbox'[Other(q)] : n.at \in Positions(q)
    BY <2>1, FewerType
  <2>3. fate' \in [Peers -> Fates]
    BY <2>1
  <2>4. QED BY <1>5, <2>2, <2>3 DEF Lose, Positions
<1>6. CASE ServerConnects
  <2>1. PICK m \in inbox[Server] :
          /\ Read(Server, m) /\ connected' = TRUE /\ peer' = m.from
          /\ Take(Server, m, IF m.at = 0 THEN "fresh" ELSE "swallowed")
    BY <1>6 DEF ServerConnects
  <2>2. /\ inbox' \in [Peers -> SUBSET Datagram]
        /\ \A q \in Peers : \A n \in inbox'[Other(q)] : n.at \in Positions(q)
        /\ m.from \in {"here", "gone"}
    BY <2>1, FewerType DEF Read
  <2>3. fate' \in [Peers -> Fates]
    BY <2>1 DEF Take
  <2>4. QED BY <1>6, <2>1, <2>2, <2>3 DEF ServerConnects, Read, Positions
<1>7. ASSUME NEW p \in Peers, NEW m \in inbox[p], Read(p, m), StoreX(p, m),
             UNCHANGED <<recordPOS, connected, deadReckoning, frame>>,
             peer' \in {peer, m.from}
      PROVE  TypeOK'
  <2>1. /\ inbox' \in [Peers -> SUBSET Datagram]
        /\ \A q \in Peers : \A n \in inbox'[Other(q)] : n.at \in Positions(q)
        /\ m.at \in Positions(Other(p)) /\ m.at \in Nat /\ m.from \in {"here", "gone"}
    BY <1>7, FewerType DEF Read
  <2>2. fate' \in [Peers -> Fates]
    BY <1>7 DEF StoreX, Take
  <2>3. /\ shown' \in [Peers -> [x : Nat \cup {Reckoned}, y : Nat \cup {Reckoned}]]
        /\ \A q \in Peers : shown'[q].x \in {shown[q].x} \cup (IF q = p THEN {m.at} ELSE {})
                           /\ shown'[q].y = shown[q].y
    BY <1>7, <2>1 DEF StoreX
  <2>4. got' \in [Peers -> Nat] /\ \A q \in Peers : got'[q] = IF q = p THEN m.at ELSE got[q]
    BY <1>7, <2>1 DEF StoreX
  <2>5. ASSUME NEW q \in Peers PROVE WithinBudget(q)'
    BY <1>7, <2>1, <2>3, <2>4, <2>5 DEF Read, Positions
  <2>6. QED BY SMTT(30), <1>7, <2>1, <2>2, <2>3, <2>4, <2>5 DEF Read, StoreX
<1>8. CASE ServerTakes \/ ClientTakes
  BY <1>7, <1>8 DEF ServerTakes, ClientTakes
<1>9. ASSUME NEW p \in Peers, StoreY(p) PROVE TypeOK'
  <2>1. /\ shown' \in [Peers -> [x : Nat \cup {Reckoned}, y : Nat \cup {Reckoned}]]
        /\ \A q \in Peers : shown'[q].y \in {shown[q].y, got[q]} /\ shown'[q].x = shown[q].x
        /\ got' \in [Peers -> Nat] /\ \A q \in Peers : got'[q] \in {0, got[q]}
    BY <1>9 DEF StoreY
  <2>2. recordPOS' \in BOOLEAN
    BY <1>9 DEF StoreY
  <2>3. QED BY <1>9, <2>1, <2>2, BudgetType DEF StoreY
<1>10. ASSUME NEW p \in Peers, ReceiveFails(p) PROVE TypeOK'
  BY <1>10, EndsType
<1>11. ASSUME NEW p \in Peers, NEW step \in 0 .. 1,
              own' = [own EXCEPT ![p] = @ + step], own'[p] <= budget.moves[p],
              Send(p, own'[p]) \/ UNCHANGED netVars,
              UNCHANGED <<budget, up, launches, threadVars, connected, peer, frame, session>>,
              deadReckoning' \in BOOLEAN
       PROVE  TypeOK'
  <2>1. own' \in [Peers -> Nat] /\ \A q \in Peers : own'[q] \in Positions(q)
    BY <1>11, BudgetType DEF Positions
  <2>2. /\ inbox' \in [Peers -> SUBSET Datagram]
        /\ reset' \in [Peers -> BOOLEAN] /\ fate' \in [Peers -> Fates]
        /\ sent' \in [Peers -> Nat \cup {Nothing}]
        /\ \A q \in Peers : \A m \in inbox'[Other(q)] : m.at \in Positions(q)
        /\ \A q \in Peers : sent'[q] \in Positions(q) \cup {Nothing}
    <3>1. CASE Send(p, own'[p])
      BY <2>1, <3>1, SendType
    <3>2. CASE UNCHANGED netVars
      BY <3>2 DEF Positions
    <3>3. QED BY <1>11, <3>1, <3>2
  <2>3. QED BY <1>11, <2>1, <2>2 DEF Positions
<1>12. CASE ServerMoves
  BY <1>11, <1>12 DEF ServerMoves
<1>13. CASE ServerToggles
  BY <1>13 DEF ServerToggles
<1>14. CASE ClientMoves
  BY <1>11, <1>14 DEF ClientMoves
<1>15. CASE Display
  <2>1. CASE SkipReckoning \/ BeginReckoning
    BY <2>1 DEF SkipReckoning, BeginReckoning
  <2>2. CASE AddX \/ AddY
    <3>1. /\ shown' \in [Peers -> [x : Nat \cup {Reckoned}, y : Nat \cup {Reckoned}]]
          /\ \A q \in Peers : /\ shown'[q].x \in {shown[q].x, Reckoned}
                             /\ shown'[q].y \in {shown[q].y, Reckoned}
      BY <2>2 DEF AddX, AddY
    <3>2. QED BY <2>2, <3>1 DEF AddX, AddY
  <2>3. QED BY <1>15, <2>1, <2>2 DEF Display
<1>16. CASE UNCHANGED vars
  BY <1>16
<1>17. QED
  BY <1>1, <1>2, <1>3, <1>4, <1>5, <1>6, <1>8, <1>9, <1>10, <1>12, <1>13, <1>14, <1>15, <1>16
     DEF Next, ServerReceive, ClientReceive

(* No variable leaves its type, a receive thread runs exactly while its    *)
(* socket is open, and no position reaches a peer that the box of the      *)
(* other never had.                                                        *)
THEOREM TypeCorrect == Spec => []TypeOK
<1>1. Init => TypeOK
  <2> SUFFICES ASSUME Init PROVE TypeOK
    OBVIOUS
  <2>1. ASSUME NEW p \in Peers PROVE WithinBudget(p)
    BY BudgetType DEF Init, WithinBudget
  <2>2. QED BY <2>1 DEF Init, TypeOK
<1>2. QED BY <1>1, TypeStep, PTL DEF Spec

-------------------------------------------------------------------------------
(***************************************************************************)
(* A session is not broken by errors.                                      *)
(*                                                                         *)
(* A reset comes from a datagram that meets a closed socket, so the        *)
(* invariant follows the datagrams that could come back: an open peer's    *)
(* are marked "here", a server that knows nobody has sent nothing, and a   *)
(* program without its socket has nothing on its way to or from it.  In a  *)
(* session only the client of that session has sent to the server.         *)
(***************************************************************************)
NoneFrom(p) == \A m \in inbox[Other(p)] : m.from = "gone"

SessionInv ==
  /\ peer = "none" <=> ~connected
  /\ peer = "none" => ~reset[Server] /\ NoneFrom(Server)
  /\ \A p \in Peers : up[p] # "open" => inbox[p] = {} /\ ~reset[p] /\ NoneFrom(p)
  /\ session => /\ \A p \in Peers : up[p] = "open" /\ ~reset[p]
                /\ peer # "gone" /\ \A m \in inbox[Server] : m.from = "here"

LEMMA CloseSocketLeaves ==
  ASSUME TypeOK, NEW p \in Peers, CloseSocket(p)
  PROVE  /\ inbox'[p] = {} /\ \A m \in inbox'[Other(p)] : m.from = "gone"
         /\ reset'[p] = FALSE
         /\ reset'[Other(p)] => reset[Other(p)] \/ \E m \in inbox[p] : m.from = "here"
         /\ sent' = [q \in Peers |-> Nothing]
<1> USE DEF TypeOK
<1>1. inbox'[p] = {} /\ inbox'[Other(p)] = {[m EXCEPT !.from = "gone"] : m \in inbox[Other(p)]}
  BY DEF CloseSocket
<1>2. ASSUME NEW m \in inbox[Other(p)] PROVE [m EXCEPT !.from = "gone"].from = "gone"
  <2>1. m \in Datagram
    OBVIOUS
  <2>2. QED BY <2>1
<1>3. /\ reset'[p] = FALSE
      /\ reset'[Other(p)] => reset[Other(p)] \/ \E m \in inbox[p] : m.from = "here"
  <2> DEFINE answered == \E m \in inbox[p] : m.from = "here"
  <2>1. PICK r \in {FALSE, answered} : reset' = [reset EXCEPT ![p] = FALSE, ![Other(p)] = @ \/ r]
    BY DEF CloseSocket
  <2>2. r => answered
    BY <2>1
  <2> HIDE DEF answered
  <2>3. reset'[p] = FALSE /\ reset'[Other(p)] = (reset[Other(p)] \/ r)
    BY <2>1
  <2>4. reset'[Other(p)] => reset[Other(p)] \/ answered
    BY <2>2, <2>3
  <2>5. QED BY <2>3, <2>4 DEF answered
<1>4. QED BY <1>1, <1>2, <1>3 DEF CloseSocket

(* What a send changes, when it arrives and when it does not.              *)
LEMMA SendAlternatives ==
  ASSUME TypeOK, NEW p \in Peers, NEW v \in Nat, Send(p, v)
  PROVE  \/ /\ up'[Other(p)] = "open" /\ (p = Server => peer = "here")
            /\ inbox' = [inbox EXCEPT ![Other(p)] = @ \cup {[at |-> v, from |-> "here"]}]
            /\ sent' = [sent EXCEPT ![p] = v] /\ fate' = [fate EXCEPT ![p] = "fresh"]
            /\ reset' = reset
         \/ /\ up'[Other(p)] # "open" \/ (p = Server /\ peer # "here")
            /\ UNCHANGED <<inbox, sent, fate>>
            /\ reset' \in [Peers -> BOOLEAN] /\ reset'[Other(p)] = reset[Other(p)]
<1>1. CASE up'[Other(p)] = "open" /\ (p = Server => peer = "here")
  BY <1>1 DEF Send
<1>2. CASE ~(up'[Other(p)] = "open" /\ (p = Server => peer = "here"))
  <2>1. PICK r \in {reset[p], TRUE} : reset' = [reset EXCEPT ![p] = r]
    BY <1>2 DEF Send
  <2>2. r \in BOOLEAN
    BY DEF TypeOK
  <2>3. reset' \in [Peers -> BOOLEAN] /\ reset'[Other(p)] = reset[Other(p)]
    BY <2>1, <2>2 DEF TypeOK
  <2>4. QED BY <1>2, <2>3 DEF Send
<1>3. QED BY <1>1, <1>2

LEMMA SessionStep == TypeOK /\ SessionInv /\ [Next]_vars => SessionInv'
<1> SUFFICES ASSUME TypeOK, SessionInv, [Next]_vars PROVE SessionInv'
  OBVIOUS
<1> USE DEF TypeOK, SessionInv, NoneFrom
<1>1. CASE LaunchServer
  BY <1>1 DEF LaunchServer
<1>2. CASE LaunchClient
  BY <1>2, SendAlternatives DEF LaunchClient
<1>3. CASE LaunchClientFails
  BY <1>3 DEF LaunchClientFails
<1>4. ASSUME NEW p \in Peers, CloseSocket(p)
      PROVE  /\ inbox'[p] = {} /\ ~reset'[p] /\ NoneFrom(p)'
             /\ \A q \in Peers : inbox[q] = {} => inbox'[q] = {}
             /\ reset'[Other(p)] => reset[Other(p)] \/ ~NoneFrom(Other(p))
             /\ NoneFrom(Other(p))'
  <2>1. Other(Other(p)) = p /\ Other(p) \in Peers
    OBVIOUS
  <2>2. \A q \in Peers : \A m \in inbox'[q] : \E n \in inbox[q] : m.at = n.at
    BY <1>4, CloseSocketType
  <2>3. \A m \in inbox[p] : m.from \in {"here", "gone"}
    OBVIOUS
  <2>4. QED BY <1>4, <2>1, <2>2, <2>3, CloseSocketLeaves
<1>5. ASSUME EndServer PROVE SessionInv'
  <2>1. CloseSocket(Server)
    BY <1>5 DEF EndServer
  <2>2. QED BY <1>4, <1>5, <2>1 DEF EndServer
<1>6. ASSUME EndClient PROVE SessionInv'
  <2>1. CloseSocket(Client)
    BY <1>6 DEF EndClient
  <2>2. QED BY <1>4, <1>6, <2>1 DEF EndClient
<1>7. ASSUME NEW p \in Peers, ReceiveFails(p) PROVE SessionInv'
  <2>1. CloseSocket(p) /\ up' = [up EXCEPT ![p] = "closed"] /\ ~session
        /\ session' = session /\ connected' = connected
        /\ peer' = IF p = Client /\ peer = "here" THEN "gone" ELSE peer
    BY <1>7 DEF ReceiveFails
  <2>2. QED BY <1>4, <2>1
<1>8. CASE QuitServer \/ QuitClient \/ ServerSendFails \/ ClientSendFails
  BY <1>5, <1>6, <1>8 DEF QuitServer, QuitClient, ServerSendFails, ClientSendFails
<1>9. ASSUME NEW p \in Peers, NEW m \in inbox[p], inbox' = [inbox EXCEPT ![p] = @ \ {m}],
             UNCHANGED <<up, reset, session>>,
             \/ UNCHANGED <<peer, connected>>
             \/ p = Server /\ peer' = m.from /\ connected' = TRUE
      PROVE  SessionInv'
  <2>1. inbox' \in [Peers -> SUBSET Datagram] /\ \A q \in Peers : inbox'[q] \subseteq inbox[q]
    BY <1>9
  <2>2. m.from \in {"here", "gone"}
    OBVIOUS
  <2>3. QED BY <1>9, <2>1, <2>2
<1>10. ASSUME NEW p \in Peers, Lose(p) PROVE SessionInv'
  BY <1>9, <1>10 DEF Lose
<1>11. CASE ServerConnects \/ ServerTakes \/ ClientTakes
  BY <1>9, <1>11 DEF ServerConnects, ServerTakes, ClientTakes, Read
<1>12. ASSUME NEW p \in Peers, StoreY(p) PROVE SessionInv'
  BY <1>12 DEF StoreY
<1>13. ASSUME NEW p \in Peers, up[p] = "open", p = Server => peer # "none",
              own'[p] \in Nat, Send(p, own'[p]),
              UNCHANGED <<up, connected, peer, session>>
       PROVE  SessionInv'
  BY <1>13, SendAlternatives
<1>14. CASE ServerMoves
  <2>1. own'[Server] \in Nat
    BY <1>14 DEF ServerMoves
  <2>2. QED BY <1>13, <1>14, <2>1 DEF ServerMoves
<1>15. CASE ClientMoves
  <2>1. own'[Client] \in Nat
    BY <1>15 DEF ClientMoves
  <2>2. CASE Send(Client, own'[Client])
    BY <1>13, <1>15, <2>1, <2>2 DEF ClientMoves
  <2>3. CASE UNCHANGED netVars
    BY <1>15, <2>3 DEF ClientMoves
  <2>4. QED BY <1>15, <2>2, <2>3 DEF ClientMoves
<1>16. CASE ServerToggles \/ Display
  BY <1>16 DEF ServerToggles, Display, SkipReckoning, BeginReckoning, AddX, AddY
<1>17. CASE UNCHANGED vars
  BY <1>17
<1>18. QED
  BY <1>1, <1>2, <1>3, <1>7, <1>8, <1>10, <1>11, <1>12, <1>14, <1>15, <1>16, <1>17
     DEF Next, ServerReceive, ClientReceive

(* As long as neither leaves, a fresh server and the client that finds it  *)
(* so keep their sockets, whatever the network loses and whatever datagram *)
(* the server takes for the connect message.                               *)
THEOREM SessionKept == Spec => []SessionHolds
<1>1. Init => SessionInv
  BY DEF Init, SessionInv, NoneFrom
<1>2. Spec => []SessionInv
  BY <1>1, TypeCorrect, SessionStep, PTL DEF Spec
<1>3. SessionInv => SessionHolds
  BY DEF SessionInv, SessionHolds
<1>4. QED BY <1>2, <1>3, PTL

-------------------------------------------------------------------------------
(***************************************************************************)
(* What is shown.                                                          *)
(*                                                                         *)
(* LastPositionIsShown speaks of a thread that has stored a position; the  *)
(* invariant also says what it holds while it has stored only X, why the   *)
(* server shows the start when it has taken a datagram for the connect     *)
(* message (nothing is stored before), and that nothing is reckoned where  *)
(* the key 'f' is not used.                                                *)
(***************************************************************************)
Taken(p) ==
  LET q == Other(p) IN
  /\ sent[q] # Nothing /\ fate[q] \in {"fresh", "swallowed"}
  /\ [at |-> sent[q], from |-> "here"] \notin inbox[p]

Shows(p) ==
  LET q == Other(p)
      v == IF fate[q] = "swallowed" THEN 0 ELSE sent[q] IN
  /\ shown[p].x \in {v} \cup Guesses(p)
  /\ thread[p] = "store" => got[p] = v
  /\ thread[p] = "loop" => shown[p].y \in {v} \cup Guesses(p)

ShownInv ==
  /\ \A p \in Peers : sent[p] # Nothing => \A q \in Peers : up[q] = "open"
  /\ thread[Server] = "store" => connected
  /\ ~connected => {shown[Server].x, shown[Server].y} \subseteq {0} \cup Guesses(Server)
  /\ deadReckoning \/ frame # "idle" => budget.reckoning
  /\ \A p \in Peers : Taken(p) => Shows(p)

LEMMA ShownStep == TypeOK /\ SessionInv /\ ShownInv /\ [Next]_vars => ShownInv'
<1> SUFFICES ASSUME TypeOK, SessionInv, ShownInv, [Next]_vars PROVE ShownInv'
  OBVIOUS
<1> USE DEF TypeOK, ShownInv, Taken, Shows
<1>a. budget' = budget
  BY DEF Next, LaunchServer, LaunchClient, LaunchClientFails, QuitServer, QuitClient, Lose,
         ServerReceive, ClientReceive, ServerConnects, ServerTakes, ClientTakes, Read, StoreY,
         ReceiveFails, ServerMoves, ServerToggles, ServerSendFails, ClientMoves, ClientSendFails,
         EndServer, EndClient, Display, SkipReckoning, BeginReckoning, AddX, AddY
<1>b. \A p \in Peers : Guesses(p)' = Guesses(p)
  BY <1>a DEF Guesses
<1>1. CASE LaunchServer
  <2>1. \A p \in Peers : sent'[p] = Nothing
    BY <1>1 DEF LaunchServer
  <2>2. QED BY <1>a, <1>b, <1>1, <2>1 DEF LaunchServer
<1>2. CASE LaunchClient
  <2>1. \A p \in Peers : sent[p] = Nothing
    BY <1>2 DEF LaunchClient
  <2>2. \/ /\ up'[Server] = "open" /\ sent' = [sent EXCEPT ![Client] = 0]
           /\ inbox' = [inbox EXCEPT ![Server] = @ \cup {[at |-> 0, from |-> "here"]}]
        \/ sent' = sent
    BY <1>2, SendAlternatives DEF LaunchClient
  <2>3. QED BY <1>a, <1>b, <1>2, <2>1, <2>2 DEF LaunchClient
<1>3. CASE LaunchClientFails
  BY <1>a, <1>b, <1>3 DEF LaunchClientFails
<1>4. ASSUME EndServer \/ EndClient \/ \E p \in Peers : ReceiveFails(p)
      PROVE  ShownInv'
  <2>1. PICK p \in Peers : CloseSocket(p)
    BY <1>4 DEF EndServer, EndClient, ReceiveFails
  <2>2. \A q \in Peers : sent'[q] = Nothing
    BY <2>1, CloseSocketLeaves
  <2>3. thread'[Server] = "store" => connected'
    BY <1>4 DEF EndServer, EndClient, ReceiveFails
  <2>4. ~connected' => {shown'[Server].x, shown'[Server].y} \subseteq {0} \cup Guesses(Server)
    BY <1>4 DEF EndServer, EndClient, ReceiveFails
  <2>5. deadReckoning' \/ frame' # "idle" => budget'.reckoning
    BY <1>4 DEF EndServer, EndClient, ReceiveFails
  <2>6. QED BY <1>b, <2>2, <2>3, <2>4, <2>5
<1>5. CASE QuitServer \/ QuitClient \/ ServerSendFails \/ ClientSendFails
  BY <1>4, <1>5 DEF QuitServer, QuitClient, ServerSendFails, ClientSendFails
<1>6. ASSUME NEW p \in Peers, Lose(p) PROVE ShownInv'
  <2>1. PICK m \in inbox[p] :
          /\ inbox' = [inbox EXCEPT ![p] = @ \ {m}]
          /\ fate' = [fate EXCEPT ![Other(p)] = IF Latest(p, m) THEN "lost" ELSE @]
    BY <1>6 DEF Lose
  <2>2. ASSUME NEW q \in Peers, Taken(q)'
        PROVE  Taken(q) /\ fate'[Other(q)] = fate[Other(q)]
    BY <1>6, <2>1, <2>2 DEF Lose, Latest
  <2>3. QED BY <1>a, <1>b, <1>6, <2>2 DEF Lose
<1>7. ASSUME NEW p \in Peers, NEW m \in inbox[p], NEW use \in {"fresh", "swallowed"},
             Read(p, m), Take(p, m, use)
      PROVE  /\ \A q \in Peers : q # p /\ Taken(q)'
                                => Taken(q) /\ fate'[Other(q)] = fate[Other(q)]
             /\ Taken(p)' => m.at = sent[Other(p)] /\ fate'[Other(p)] = use
             /\ \A q \in Peers : sent'[q] # Nothing => \A r \in Peers : up'[r] = "open"
  BY <1>7 DEF Read, Take, Latest
<1>8. CASE ServerConnects
  <2>1. PICK m \in inbox[Server] :
          /\ Read(Server, m) /\ ~connected /\ connected' = TRUE
          /\ Take(Server, m, IF m.at = 0 THEN "fresh" ELSE "swallowed")
    BY <1>8 DEF ServerConnects
  <2> DEFINE use == IF m.at = 0 THEN "fresh" ELSE "swallowed"
  <2>2. use \in {"fresh", "swallowed"} /\ (use = "fresh" => m.at = 0)
    OBVIOUS
  <2>3. Take(Server, m, use)
    BY <2>1
  <2> HIDE DEF use
  <2>4. /\ \A q \in Peers : q # Server /\ Taken(q)'
                           => Taken(q) /\ fate'[Other(q)] = fate[Other(q)]
        /\ Taken(Server)' => m.at = sent[Client] /\ fate'[Client] = use
        /\ \A q \in Peers : sent'[q] # Nothing => \A r \in Peers : up'[r] = "open"
    BY <1>7, <2>1, <2>2, <2>3
  <2>5. Taken(Server)' => Shows(Server)'
    BY <1>b, <1>8, <2>1, <2>2, <2>4 DEF ServerConnects, Read
  <2>6. QED BY <1>a, <1>b, <1>8, <2>1, <2>4, <2>5 DEF ServerConnects, Read
<1>9. ASSUME NEW p \in Peers, NEW m \in inbox[p], Read(p, m), StoreX(p, m),
             UNCHANGED <<connected, deadReckoning, frame>>, p = Server => connected
      PROVE  ShownInv'
  <2>1. Take(p, m, "fresh")
    BY <1>9 DEF StoreX
  <2>2. /\ \A q \in Peers : q # p /\ Taken(q)'
                           => Taken(q) /\ fate'[Other(q)] = fate[Other(q)]
        /\ Taken(p)' => m.at = sent[Other(p)] /\ fate'[Other(p)] = "fresh"
        /\ \A q \in Peers : sent'[q] # Nothing => \A r \in Peers : up'[r] = "open"
    BY <1>7, <1>9, <2>1
  <2>3. sent' = sent /\ up' = up
    BY <1>9 DEF Read
  <2>4. /\ shown'[p].x = m.at /\ got'[p] = m.at /\ thread'[p] = "store"
        /\ shown'[Other(p)] = shown[Other(p)] /\ got'[Other(p)] = got[Other(p)]
        /\ thread'[Other(p)] = thread[Other(p)]
    BY <1>9 DEF StoreX
  <2>5. QED BY <1>a, <1>b, <1>9, <2>2, <2>3, <2>4
<1>10. CASE ServerTakes \/ ClientTakes
  BY <1>9, <1>10 DEF ServerTakes, ClientTakes
<1>11. ASSUME NEW p \in Peers, StoreY(p) PROVE ShownInv'
  <2>1. /\ shown'[p].x = shown[p].x /\ shown'[p].y = got[p] /\ thread'[p] = "loop"
        /\ shown'[Other(p)] = shown[Other(p)] /\ got'[Other(p)] = got[Other(p)]
        /\ thread'[Other(p)] = thread[Other(p)]
    BY <1>11 DEF StoreY
  <2>2. QED BY <1>a, <1>b, <1>11, <2>1 DEF StoreY
<1>12. ASSUME NEW p \in Peers, up[p] = "open", own'[p] \in Nat, Send(p, own'[p]),
              UNCHANGED <<up, shown, thread, got, connected, frame>>,
              deadReckoning' \/ frame # "idle" => budget.reckoning
       PROVE  ShownInv'
  <2>1. \A q \in Peers : Taken(q)' => /\ Taken(q) /\ sent'[Other(q)] = sent[Other(q)]
                                     /\ fate'[Other(q)] = fate[Other(q)]
    BY <1>12, SendAlternatives
  <2>2. \A q \in Peers : sent'[q] # Nothing => \A r \in Peers : up'[r] = "open"
    BY <1>12, SendAlternatives
  <2>3. QED BY <1>a, <1>b, <1>12, <2>1, <2>2
<1>13. CASE ServerMoves
  <2>1. own'[Server] \in Nat
    BY <1>13 DEF ServerMoves
  <2>2. QED BY <1>12, <1>13, <2>1 DEF ServerMoves
<1>14. CASE ClientMoves
  <2>1. own'[Client] \in Nat
    BY <1>14 DEF ClientMoves
  <2>2. deadReckoning' \/ frame # "idle" => budget.reckoning
    BY <1>14 DEF ClientMoves
  <2>3. CASE Send(Client, own'[Client])
    BY <1>12, <1>14, <2>1, <2>2, <2>3 DEF ClientMoves
  <2>4. CASE UNCHANGED netVars
    BY <1>a, <1>b, <1>14, <2>4 DEF ClientMoves
  <2>5. QED BY <1>14, <2>3, <2>4 DEF ClientMoves
<1>15. CASE ServerToggles \/ SkipReckoning \/ BeginReckoning
  BY <1>a, <1>b, <1>15 DEF ServerToggles, SkipReckoning, BeginReckoning
<1>16. CASE AddX \/ AddY
  <2>1. Guesses(Server) = {Reckoned} /\ budget.reckoning
    BY <1>16 DEF AddX, AddY, Guesses
  <2>2. /\ shown'[Server].x \in {shown[Server].x, Reckoned}
        /\ shown'[Server].y \in {shown[Server].y, Reckoned}
        /\ shown'[Client] = shown[Client]
        /\ UNCHANGED <<up, thread, got, connected, inbox, sent, fate>>
    BY <1>16 DEF AddX, AddY
  <2>3. QED BY <1>a, <1>b, <2>1, <2>2
<1>17. CASE UNCHANGED vars
  BY <1>a, <1>b, <1>17
<1>18. QED
  BY <1>1, <1>2, <1>3, <1>4, <1>5, <1>6, <1>8, <1>10, <1>11, <1>13, <1>14, <1>15, <1>16, <1>17
     DEF Next, ServerReceive, ClientReceive, Display

(* When the last position sent is also what was taken last, both           *)
(* coordinates shown are of it (of the start, when the server took it for  *)
(* the connect message), or were moved by dead reckoning, which only the   *)
(* server does, and only where the key 'f' is used: whatever is lost,      *)
(* overtaken, or left over from a program that has ended.                  *)
THEOREM LastPositionShown == Spec => []LastPositionIsShown
<1>1. Init => SessionInv /\ ShownInv
  BY DEF Init, SessionInv, NoneFrom, ShownInv, Taken, Shows
<1>2. Spec => [](TypeOK /\ ShownInv)
  BY <1>1, TypeCorrect, SessionStep, ShownStep, PTL DEF Spec
<1>3. TypeOK /\ ShownInv => LastPositionIsShown
  BY DEF TypeOK, ShownInv, Taken, Shows, LastPositionIsShown
<1>4. QED BY <1>2, <1>3, PTL
===============================================================================
