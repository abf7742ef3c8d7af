------------------------------- MODULE PairProofs -------------------------------
(***************************************************************************)
(* Theorems about PairSystem, for every number of clients of either kind,  *)
(* every capacity of a connection and every length of a line.              *)
(***************************************************************************)
EXTENDS PairSystem, TLAPS

USE DEF vars, linkVars, serverVars, clientVars
USE PairLinkAssumption, MaxLineAssumption, PollingAssumption

(* Both programs start with values of their types.                         *)
LEMMA TypeInit == Init => TypeOK
<1>1. LinkInit => LinkTypeOK
  BY DEF LinkInit, LinkTypeOK
<1>2. ServerInit => ServerTypeOK
  BY DEF ServerInit, ServerTypeOK
<1>3. LinkInit /\ ClientInit => ClientTypeOK
  BY DEF LinkInit, ClientInit, ClientTypeOK
<1>4. QED BY <1>1, <1>2, <1>3 DEF Init, TypeOK

(* The steps of the servers keep the types.                                *)
LEMMA TypeServer ==
  ASSUME TypeOK, UNCHANGED clientVars,
         \/ Accept \/ EnterLine \/ Receive \/ SendWelcome \/ SendFails \/ ServerIsKilled
  PROVE  TypeOK'
<1> USE DEF TypeOK, LinkTypeOK, ServerTypeOK, ClientTypeOK
<1>1. CASE Accept
  <2>1. Head(backlog) \in Clients /\ Tail(backlog) \in Seq(Clients) /\ Len(Tail(backlog)) <= 1
    BY <1>1 DEF Accept
  <2>2. QED BY <1>1, <2>1 DEF Accept
<1>2. CASE EnterLine
  <2>1. PICK n \in 0 .. MaxLine :
          Put(n) /\ spoken' = (spoken \/ (n > 0 /\ conn[served] = "open"))
    BY <1>2 DEF EnterLine
  <2>2. wire' \in 0 .. Capacity /\ UNCHANGED <<listening, backlog, served, conn>>
    BY <2>1 DEF Put, Capped
  <2>3. spoken' \in BOOLEAN
    BY <2>1
  <2>4. server = "blocking" /\ spc' = "recv" /\ UNCHANGED server
    BY <1>2 DEF EnterLine
  <2>5. QED BY <2>2, <2>3, <2>4
<1>3. CASE Receive
  BY <1>3 DEF Receive
<1>4. CASE SendWelcome
  <2>1. wire' \in 0 .. Capacity /\ UNCHANGED <<listening, backlog, served, conn>>
    BY <1>4 DEF SendWelcome, Put, Capped
  <2>2. QED BY <1>4, <2>1 DEF SendWelcome
<1>5. CASE SendFails \/ ServerIsKilled
  <2>1. ServerSideEnds /\ UNCHANGED <<server, spoken>> /\ spc' \in {"ended", "off"}
    BY <1>5 DEF SendFails, ServerIsKilled
  <2>2. PICK how \in {"fin", "reset"} :
          /\ conn' = [c \in Clients |-> IF conn[c] = "open" THEN how ELSE conn[c]]
          /\ wire' = IF how = "reset" THEN 0 ELSE wire
    BY <2>1 DEF ServerSideEnds
  <2>3. conn' \in [Clients -> {"none", "open", "left", "fin", "reset"}] /\ wire' \in 0 .. Capacity
    BY <2>2
  <2>4. \A c \in Clients : cpc'[c] = "waits" <=> conn'[c] \in {"open", "fin", "reset"}
    BY <2>2
  <2>5. listening' \in BOOLEAN /\ backlog' = <<>> /\ served' = served
    BY <2>1 DEF ServerSideEnds
  <2>6. LinkTypeOK'
    BY <2>3, <2>5
  <2>7. ServerTypeOK' /\ ClientTypeOK'
    BY <2>1, <2>4
  <2>8. QED BY <2>6, <2>7
<1>6. QED BY <1>1, <1>2, <1>3, <1>4, <1>5

(* The steps of a client keep the types.                                   *)
LEMMA TypeClient ==
  ASSUME TypeOK, NEW c \in Clients, UNCHANGED serverVars,
         \/ Connect(c) \/ ConnectFails(c) \/ PrintOnce(c) \/ PrintNothing(c)
         \/ PollPrints(c) \/ PollFails(c) \/ ClientIsKilled(c)
  PROVE  TypeOK'
<1> USE DEF TypeOK, LinkTypeOK, ServerTypeOK, ClientTypeOK
<1>1. CASE Connect(c)
  BY <1>1 DEF Connect
<1>2. CASE ConnectFails(c)
  BY <1>2 DEF ConnectFails
<1>3. CASE PollPrints(c)
  BY <1>3 DEF PollPrints, Get
<1>4. CASE PrintOnce(c) \/ PrintNothing(c) \/ PollFails(c) \/ ClientIsKilled(c)
  <2>1. /\ Leave(c) /\ heard' \subseteq Clients
        /\ \E s \in {"spins", "done"} : cpc' = [cpc EXCEPT ![c] = s]
    BY <1>4 DEF PrintOnce, PrintNothing, PollFails, ClientIsKilled
  <2>2. /\ conn' \in [Clients -> {"none", "open", "left", "fin", "reset"}]
        /\ wire' \in 0 .. Capacity /\ UNCHANGED <<listening, backlog, served>>
    BY <2>1 DEF Leave
  <2>3. \A d \in Clients : cpc'[d] = "waits" <=> conn'[d] \in {"open", "fin", "reset"}
    BY <2>1 DEF Leave
  <2>4. cpc' \in [Clients -> {"off", "waits", "spins", "done"}]
    BY <2>1
  <2>5. QED BY <2>1, <2>2, <2>3, <2>4
<1>5. QED BY <1>1, <1>2, <1>3, <1>4

(* Every step is one of the server or of a client.                         *)
LEMMA StepOfAProgram ==
  ASSUME Next
  PROVE  \/ /\ UNCHANGED clientVars
            /\ Accept \/ EnterLine \/ Receive \/ SendWelcome \/ SendFails \/ ServerIsKilled
         \/ \E c \in Clients :
              /\ UNCHANGED serverVars
              /\ \/ Connect(c) \/ ConnectFails(c) \/ PrintOnce(c) \/ PrintNothing(c)
                 \/ PollPrints(c) \/ PollFails(c) \/ ClientIsKilled(c)
BY DEF Next

(* The types of all variables hold, and a client waits as long as its      *)
(* connection lasts.                                                       *)
THEOREM TypeCorrect == Spec => []TypeOK
<1>1. ASSUME TypeOK, [Next]_vars PROVE TypeOK'
  <2>1. CASE Next
    BY <1>1, <2>1, StepOfAProgram, TypeServer, TypeClient
  <2>2. CASE UNCHANGED vars
    BY <1>1, <2>2 DEF TypeOK, LinkTypeOK, ServerTypeOK, ClientTypeOK
  <2>3. QED BY <1>1, <2>1, <2>2
<1>2. QED BY <1>1, TypeInit, PTL DEF Spec

-------------------------------------------------------------------------------
(***************************************************************************)
(* The mutual wait.  A blocking client that is served and still there has  *)
(* not read anything: what was spoken to it is on the wire.                *)
(***************************************************************************)
ServedStarted ==
  /\ served \in Clients => cpc[served] # "off"
  /\ backlog # <<>> => cpc[Head(backlog)] # "off"
  /\ spc \in {"input", "recv", "send"} => served \in Clients

QuietBeforeAccept == spc = "accept" => ~spoken

UnreadIsOnTheWire ==
  served \in Clients \ Polling /\ conn[served] = "open" /\ wire = 0 => ~spoken

WaitInv == ServedStarted /\ QuietBeforeAccept /\ UnreadIsOnTheWire

(* Nobody is served and nothing is spoken.                                 *)
LEMMA WaitInit == Init => WaitInv
BY DEF Init, LinkInit, ServerInit, ClientInit, WaitInv, ServedStarted, QuietBeforeAccept,
       UnreadIsOnTheWire

(* The server puts on the wire what it speaks.                             *)
LEMMA WaitServer ==
  ASSUME TypeOK, WaitInv, UNCHANGED clientVars,
         \/ Accept \/ EnterLine \/ Receive \/ SendWelcome \/ SendFails \/ ServerIsKilled
  PROVE  WaitInv'
<1> USE DEF TypeOK, LinkTypeOK, ServerTypeOK, ClientTypeOK, WaitInv, ServedStarted,
            QuietBeforeAccept, UnreadIsOnTheWire
<1>1. CASE Accept
  <2>1. Head(backlog) \in Clients /\ Tail(backlog) = <<>>
    BY <1>1 DEF Accept
  <2>2. QED BY <1>1, <2>1 DEF Accept
<1>2. CASE EnterLine
  <2>1. PICK n \in 0 .. MaxLine :
          Put(n) /\ spoken' = (spoken \/ (n > 0 /\ conn[served] = "open"))
    BY <1>2 DEF EnterLine
  <2>2. /\ served' = served /\ backlog' = backlog /\ conn' = conn /\ spc' = "recv"
        /\ served \in Clients
    BY <1>2, <2>1 DEF EnterLine, Put
  <2>3. conn[served] = "open" /\ wire' = 0 => wire = 0 /\ n = 0
    BY <2>1 DEF Put, Capped
  <2>4. UnreadIsOnTheWire'
    BY <2>1, <2>2, <2>3
  <2>5. QED BY <2>2, <2>4
<1>3. CASE Receive
  BY <1>3 DEF Receive
<1>4. CASE SendWelcome
  <2>1. conn[served] = "open" => wire' > 0
    BY <1>4 DEF SendWelcome, Put, Capped
  <2>2. QED BY <1>4, <2>1 DEF SendWelcome, Put
<1>5. CASE SendFails \/ ServerIsKilled
  <2>1. \A c \in Clients : conn'[c] # "open"
    BY <1>5 DEF SendFails, ServerIsKilled, ServerSideEnds
  <2>2. QED BY <1>5, <2>1 DEF SendFails, ServerIsKilled, ServerSideEnds
<1>6. QED BY <1>1, <1>2, <1>3, <1>4, <1>5

(* A blocking client takes from the wire only to leave.                    *)
LEMMA WaitClient ==
  ASSUME TypeOK, WaitInv, NEW c \in Clients, UNCHANGED serverVars,
         \/ Connect(c) \/ ConnectFails(c) \/ PrintOnce(c) \/ PrintNothing(c)
         \/ PollPrints(c) \/ PollFails(c) \/ ClientIsKilled(c)
  PROVE  WaitInv'
<1> USE DEF TypeOK, LinkTypeOK, ServerTypeOK, ClientTypeOK, WaitInv, ServedStarted,
            QuietBeforeAccept, UnreadIsOnTheWire
<1>1. CASE Connect(c)
  BY <1>1 DEF Connect
<1>2. CASE ConnectFails(c)
  BY <1>2 DEF ConnectFails
<1>3. CASE PollPrints(c)
  BY <1>3 DEF PollPrints, Get
<1>4. CASE PrintOnce(c) \/ PrintNothing(c) \/ PollFails(c) \/ ClientIsKilled(c)
  <2>1. Leave(c) /\ \E s \in {"spins", "done"} : cpc' = [cpc EXCEPT ![c] = s]
    BY <1>4 DEF PrintOnce, PrintNothing, PollFails, ClientIsKilled
  <2>2. UNCHANGED <<served, backlog>> /\ conn'[c] # "open"
    BY <2>1 DEF Leave
  <2>3. served # c => wire' = wire /\ \A d \in Clients : d # c => conn'[d] = conn[d]
    BY <2>1 DEF Leave
  <2>4. ServedStarted'
    BY <2>1, <2>2
  <2>5. QED BY <2>2, <2>3, <2>4
<1>5. QED BY <1>1, <1>2, <1>3, <1>4

(* The blocking server and a blocking client wait for each other with      *)
(* nothing on its way only if every line entered so far was empty.         *)
THEOREM WaitCorrect == Spec => []MutualWaitOnlyOnEmptyLine
<1>1. ASSUME TypeOK, WaitInv, [Next]_vars PROVE WaitInv'
  <2>1. CASE Next
    BY <1>1, <2>1, StepOfAProgram, WaitServer, WaitClient
  <2>2. CASE UNCHANGED vars
    BY <1>1, <2>2 DEF WaitInv, ServedStarted, QuietBeforeAccept, UnreadIsOnTheWire
  <2>3. QED BY <1>1, <2>1, <2>2
<1>2. WaitInv => MutualWaitOnlyOnEmptyLine
  BY DEF WaitInv, ServedStarted, UnreadIsOnTheWire, MutualWaitOnlyOnEmptyLine
<1>3. QED BY <1>1, <1>2, WaitInit, TypeCorrect, PTL DEF Spec
===============================================================================
