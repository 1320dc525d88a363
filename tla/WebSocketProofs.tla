-------------------------- MODULE WebSocketProofs --------------------------
(***************************************************************************)
(* A websocket, for every number of messages, window, chunk and limit of   *)
(* slots: its slot is counted, both sides are paced, what is delivered is  *)
(* in order, and its end leaves nothing behind.                            *)
(*                                                                         *)
(* None of it is inductive alone.  The invariants are laid on each other:  *)
(* the lease and the slot go together (SlotInv); nothing of a websocket    *)
(* goes before the answer to the upgrade, and the close is the last        *)
(* message to the worker, which it gets once (LifeInv).  So no message is  *)
(* dropped as long as the lease lasts, by which the count of the server is *)
(* true (ClientPaced).  In either direction the messages lie in a row, in  *)
(* which each queue begins where the one before it ends (UpInv, DownInv).  *)
(***************************************************************************)
EXTENDS WebSocket, QueueProofs

WireMessage == [type : Types, part : Nat]

FlagsOK ==
    /\ leased \in BOOLEAN
    /\ opened \in BOOLEAN /\ closing \in BOOLEAN /\ paused \in BOOLEAN
    /\ running \in BOOLEAN /\ ws \in BOOLEAN /\ stream \in BOOLEAN /\ aborted \in BOOLEAN
    /\ receiving \in BOOLEAN

DataOK ==
    /\ phase \in {"resolving", "acquiring", "serving", "answered"}
    /\ slots \in Int /\ others \in Int
    /\ slot \in {"none", "held", "released"}
    /\ client \in {"there", "silent", "gone"}
    /\ said \in Nat
    /\ incoming \in Seq(Nat) /\ outgoing \in Seq(Nat) /\ got \in Seq(Nat)
    /\ socket \in {"open", "closed"}
    /\ unacked \in Int
    /\ toWorker \in Seq(WireMessage) /\ toServer \in Seq(WireMessage)
    /\ process \in {"up", "gone", "closed"}
    /\ answer \in {"none", "accepted", "refused"}
    /\ waiting \in Seq(Nat) /\ inbox \in Seq(Nat) /\ handling \in Nat
    /\ started \in Seq(Nat) /\ pushed \in Nat /\ settled \in Seq(Nat)
    /\ closedSeen \in Nat

TypeOK == FlagsOK /\ DataOK

-----------------------------------------------------------------------------
(* The slot                                                                *)

SlotInv ==
    /\ SlotsCounted
    /\ leased => phase = "serving"

-----------------------------------------------------------------------------
(* The life of the context                                                 *)

Unstarted == ~running /\ answer = "none"

(* nothing goes before the request, and it is the first message            *)
RequestFirst ==
    /\ phase # "serving" => Unstarted /\ toWorker = <<>> /\ outgoing = <<>> /\ got = <<>>
    /\ Unstarted =>
          /\ toServer = <<>> /\ inbox = <<>> /\ handling = 0 /\ pushed = 0
          /\ waiting = <<>> /\ ~ws /\ ~stream /\ ~aborted /\ ~receiving /\ closedSeen = 0
    /\ OnlyFirst(toWorker, "request")
    /\ Has(toWorker, "request") <=> Unstarted /\ phase = "serving"

(* nothing of a websocket goes before the answer to the upgrade            *)
AnswerFirst ==
    /\ Has(toServer, "response") => answer = "accepted"
    /\ Has(toServer, "refusal") => answer = "refused"
    /\ opened => answer = "accepted"
    /\ ~opened =>
          /\ ~Has(toWorker, "message") /\ inbox = <<>> /\ handling = 0 /\ ~Has(toServer, "wsAck")
          /\ ~receiving /\ unacked = 0 /\ ~paused /\ said = 0 /\ incoming = <<>>
    /\ answer # "accepted" => pushed = 0 /\ waiting = <<>>
    /\ answer = "refused" => ~ws /\ ~stream

(* The close is the last message to the worker, and the only one.          *)
ToldOnce ==
    /\ leased => closedSeen = 0 /\ ~Has(toWorker, "close")
    /\ closedSeen # 0 \/ Has(toWorker, "close") => socket = "closed"
    /\ OnlyLast(toWorker, "close")
    /\ closedSeen # 0 =>
          /\ closedSeen = 1 /\ toWorker = <<>>
          /\ ~ws /\ ~stream /\ ~receiving /\ waiting = <<>>
          /\ aborted \/ answer = "refused"
    /\ aborted => closedSeen # 0
    /\ ~Unstarted /\ answer # "refused" /\ closedSeen = 0 => ws
    /\ phase = "serving" /\ ~leased /\ process = "up" =>
          Has(toWorker, "close") \/ closedSeen # 0 \/ answer = "refused"

LifeInv == RequestFirst /\ AnswerFirst /\ ToldOnce

-----------------------------------------------------------------------------
(* The pace of the client                                                  *)

(* the messages of the client have numbers, which no close frame has       *)
NumberedInv ==
    /\ \A i \in 1..Len(toWorker) : toWorker[i].type = "message" => toWorker[i].part # 0
    /\ \A i \in 1..Len(inbox) : inbox[i] # 0

(* what the server has not got an acknowledgement of                       *)
Busy == IF handling = 0 THEN 0 ELSE 1
Load == Count(toWorker, "message") + Len(inbox) + Busy + Count(toServer, "wsAck")

Paced ==
    /\ unacked = Load
    /\ unacked < Window + Together
    /\ socket = "open" /\ ~closing => (paused <=> unacked >= Window)

PaceInv ==
    /\ NumberedInv
    /\ leased /\ process = "up" => Paced

-----------------------------------------------------------------------------
(* The order in both directions                                            *)

(* What the client said lies between it and the worker in its order: it    *)
(* was started, waits in the chain, is on its way up to the one of this    *)
(* number, or was not read yet.                                            *)
Unread(high) ==
    /\ \A i \in 1..Len(incoming) :
          IF incoming[i] = CloseFrame
          THEN i = Len(incoming)
          ELSE incoming[i] = high + i /\ incoming[i] <= said
    /\ ~Contains(incoming, CloseFrame) => said = high + Len(incoming)

UpTo(high) ==
    /\ high <= said
    /\ Consecutive(toWorker, "message", Len(started) + Len(inbox) + 1, high)
    /\ socket = "open" /\ ~closing => Unread(high)

UpInv ==
    /\ \A i \in 1..Len(started) : started[i] = i
    /\ said <= Messages
    /\ process = "up" /\ closedSeen = 0 =>
          /\ \A i \in 1..Len(inbox) : inbox[i] = Len(started) + i
          /\ \E high \in Nat : UpTo(high)

(* What the worker pushed lies between it and the client in its order, up  *)
(* to the close.                                                           *)
Unsent ==
    \A i \in 1..Len(outgoing) :
        IF outgoing[i] = CloseFrame
        THEN closing /\ i = Len(outgoing)
        ELSE outgoing[i] = Len(got) + i /\ outgoing[i] <= pushed

DownInv ==
    /\ \A i \in 1..Len(got) : got[i] = i
    /\ pushed <= Pushes
    /\ socket = "open" => Unsent
    /\ socket = "open" /\ ~closing /\ leased =>
          Consecutive(toServer, "send", Len(got) + Len(outgoing) + 1, pushed)

(* the promises settle in the order of the messages                        *)
SettledInv ==
    /\ \A i \in 1..Len(settled) : settled[i] = i
    /\ \A i \in 1..Len(waiting) : waiting[i] = Len(settled) + i
    /\ ~aborted => Len(settled) + Len(waiting) = pushed
    /\ Len(settled) + Count(toWorker, "ack") <= Len(got)

-----------------------------------------------------------------------------
(* Types                                                                   *)

LEMMA TypeInitially == Init => TypeOK
  <1>1. Init => FlagsOK BY DEF Init, FlagsOK
  <1>2. Init => DataOK BY DEF Init, DataOK
  <1> QED BY <1>1, <1>2 DEF TypeOK

LEMMA MessagesTyped ==
    /\ \A type \in Types : Msg(type) \in WireMessage /\ Msg(type).type = type
    /\ \A type \in Types, n \in Nat :
          /\ Numbered(type, n) \in WireMessage
          /\ Numbered(type, n).type = type /\ Numbered(type, n).part = n
    /\ \A m \in WireMessage : m.type \in Types /\ m.part \in Nat
  BY DEF Msg, Numbered, WireMessage

(* the messages of a chunk                                                 *)
Chunk(n) == [i \in 1..n |-> Numbered("message", incoming[i])]

LEMMA ChunkTyped ==
    ASSUME TypeOK, NEW n \in 0..Len(incoming)
    PROVE  /\ Chunk(n) \in Seq(WireMessage) /\ Len(Chunk(n)) = n
           /\ \A i \in 1..n : Chunk(n)[i].type = "message" /\ Chunk(n)[i].part = incoming[i]
           /\ SubSeq(incoming, n + 1, Len(incoming)) \in Seq(Nat)
           /\ Len(SubSeq(incoming, n + 1, Len(incoming))) = Len(incoming) - n
           /\ \A i \in 1..(Len(incoming) - n) : SubSeq(incoming, n + 1, Len(incoming))[i] = incoming[n + i]
  <1>1. Len(incoming) \in Nat /\ n \in Nat /\ \A i \in 1..Len(incoming) : incoming[i] \in Nat
    BY DEF TypeOK, FlagsOK, DataOK
  <1>2. \A i \in 1..n : i \in 1..Len(incoming) BY <1>1
  <1>3. \A i \in 1..n : Numbered("message", incoming[i]) \in WireMessage
    BY <1>1, <1>2, MessagesTyped DEF Types
  <1>4. Chunk(n) \in Seq(WireMessage) /\ Len(Chunk(n)) = n BY <1>1, <1>3 DEF Chunk
  <1>5. \A i \in 1..n : Chunk(n)[i].type = "message" /\ Chunk(n)[i].part = incoming[i]
    BY DEF Chunk, Numbered
  <1>6. SubSeq(incoming, n + 1, Len(incoming)) \in Seq(Nat)
    BY <1>1 DEF TypeOK, FlagsOK, DataOK
  <1>7. /\ Len(SubSeq(incoming, n + 1, Len(incoming))) = Len(incoming) - n
        /\ \A i \in 1..(Len(incoming) - n) : SubSeq(incoming, n + 1, Len(incoming))[i] = incoming[n + i]
    BY <1>1
  <1> QED BY <1>4, <1>5, <1>6, <1>7

LEMMA SentTyped ==
    ASSUME TypeOK, NEW type \in Types
    PROVE  Send(type) \in Seq(WireMessage)
  BY MessagesTyped, QueueAppended DEF TypeOK, FlagsOK, DataOK, Send

(* the steps of the server                                                 *)
LEMMA ServerTyped ==
    ASSUME TypeOK, ServerStep \/ GoingAway
    PROVE  TypeOK'
  <1>1. \A queue \in Seq(WireMessage) : queue # <<>> =>
           Tail(queue) \in Seq(WireMessage) /\ Head(queue) \in WireMessage
    BY QueueTaken
  <1>2. \A queue \in Seq(Nat) : queue # <<>> => Tail(queue) \in Seq(Nat) /\ Head(queue) \in Nat
    BY QueueTaken
  <1>3. \A queue \in Seq(Nat), n \in Nat : Append(queue, n) \in Seq(Nat) BY QueueAppended
  <1>4. CloseFrame \in Nat BY DEF CloseFrame
  <1>5. ASSUME StartClose PROVE closing' \in BOOLEAN /\ paused' \in BOOLEAN /\ outgoing' \in Seq(Nat)
    BY <1>3, <1>4, <1>5 DEF StartClose, TypeOK, FlagsOK, DataOK
  <1>6. ASSUME Cleanup PROVE leased' \in BOOLEAN /\ slot' \in {"none", "held", "released"} /\ slots' \in Int
    <2>1. leased' \in BOOLEAN BY <1>6 DEF Cleanup
    <2>2. slot' \in {"none", "held", "released"} /\ slots' \in Int
      BY <1>6 DEF Cleanup, ReleaseSlot, TypeOK, DataOK
    <2> QED BY <2>1, <2>2
  <1>7. \A type : Serves(type) => toServer' \in Seq(WireMessage) /\ Head(toServer) \in WireMessage
    BY <1>1 DEF Serves, TypeOK, FlagsOK, DataOK
  <1>8. CASE Receive
    <2>1. PICK n \in 1..Together :
             /\ n <= Len(incoming)
             /\ incoming' = SubSeq(incoming, n + 1, Len(incoming))
             /\ unacked' = unacked + n
             /\ toWorker' = IF process = "closed" THEN toWorker ELSE toWorker \o Chunk(n)
      BY <1>8 DEF Receive, Chunk
    <2>2. n \in 0..Len(incoming) /\ n \in Int BY <2>1, SizesAssumption DEF TypeOK, FlagsOK, DataOK
    <2>3. incoming' \in Seq(Nat) /\ Chunk(n) \in Seq(WireMessage) BY <2>1, <2>2, ChunkTyped
    <2>4. toWorker' \in Seq(WireMessage) BY <2>1, <2>3, QueueJoined DEF TypeOK, FlagsOK, DataOK
    <2>5. unacked' \in Int BY <2>1, <2>2 DEF TypeOK, FlagsOK, DataOK
    <2>6. paused' \in BOOLEAN BY <1>8, SizesAssumption DEF Receive
    <2> QED
      BY <1>8, <2>3, <2>4, <2>5, <2>6
      DEF Receive, TypeOK, FlagsOK, DataOK, NotServed, slotVars, sessionVars, contextVars, messageVars
  <1>9. CASE ReceiveClose
    BY <1>2, <1>5, <1>9
    DEF ReceiveClose, TypeOK, FlagsOK, DataOK, NotServed, slotVars, sessionVars, contextVars, messageVars
  <1>10. CASE ReceiveIgnored
    BY <1>2, <1>10
    DEF ReceiveIgnored, TypeOK, FlagsOK, DataOK, NotServed, slotVars, connectionVars, sessionVars, contextVars, messageVars
  <1>11. CASE StartsClose
    BY <1>5, <1>11
    DEF StartsClose, TypeOK, FlagsOK, DataOK, NotServed, slotVars, sessionVars, contextVars, messageVars
  <1>12. CASE SocketClosed
    <2>1. Send("close") \in Seq(WireMessage) BY SentTyped DEF Types
    <2> QED
      BY <1>6, <1>12, <2>1 DEF SocketClosed, TypeOK, FlagsOK, DataOK, sessionVars, contextVars, messageVars
  <1>13. CASE Dropped
    BY <1>7, <1>13
    DEF Dropped, Serves, TypeOK, FlagsOK, DataOK, connectionVars, sessionVars, contextVars, messageVars
  <1>14. CASE Accepted
    BY <1>7, <1>14 DEF Accepted, Serves, TypeOK, FlagsOK, DataOK, sessionVars, contextVars, messageVars
  <1>15. CASE Refused
    BY <1>6, <1>7, <1>15
    DEF Refused, Serves, TypeOK, FlagsOK, DataOK, connectionVars, sessionVars, contextVars, messageVars
  <1>16. CASE Taken
    <2>1. unacked' \in Int /\ paused' \in BOOLEAN BY <1>16, SizesAssumption DEF Taken, TypeOK, FlagsOK, DataOK
    <2> QED BY <1>7, <1>16, <2>1 DEF Taken, Serves, TypeOK, FlagsOK, DataOK, sessionVars, contextVars, messageVars
  <1>17. CASE PassOn
    <2>1. Head(toServer).part \in Nat BY <1>7, <1>17, MessagesTyped DEF PassOn
    <2>2. closing' \in BOOLEAN /\ paused' \in BOOLEAN /\ outgoing' \in Seq(Nat)
      BY <1>3, <1>5, <1>17, <2>1 DEF PassOn, TypeOK, FlagsOK, DataOK
    <2> QED BY <1>7, <1>17, <2>2 DEF PassOn, Serves, TypeOK, FlagsOK, DataOK, sessionVars, contextVars, messageVars
  <1>18. CASE ClosedByWorker
    BY <1>5, <1>7, <1>18
    DEF ClosedByWorker, Serves, TypeOK, FlagsOK, DataOK, sessionVars, contextVars, messageVars
  <1>19. CASE Exited
    <2>1. FlagsOK'
      BY <1>6, <1>19 DEF Exited, TypeOK, FlagsOK, sessionVars, contextVars, messageVars
    <2>2. socket' \in {"open", "closed"} /\ incoming' \in Seq(Nat) /\ outgoing' \in Seq(Nat)
      <3>1. <<>> \in Seq(Nat) OBVIOUS
      <3>2. socket \in {"open", "closed"} /\ incoming \in Seq(Nat) /\ outgoing \in Seq(Nat)
        BY DEF TypeOK, DataOK
      <3>3. \/ socket' = "closed" /\ incoming' = <<>> /\ outgoing' = <<>>
            \/ socket' = socket /\ incoming' = incoming /\ outgoing' = outgoing
        BY <1>19 DEF Exited
      <3> QED BY <3>1, <3>2, <3>3, Zenon
    <2>3. slot' \in {"none", "held", "released"} /\ slots' \in Int
      BY <1>6, <1>19 DEF Exited, TypeOK, DataOK
    <2>4. UNCHANGED <<phase, others, client, said, got, unacked, toWorker, toServer, sessionVars>>
          /\ process' = "closed"
      BY <1>19 DEF Exited
    <2>5. DataOK'
      BY <2>2, <2>3, <2>4 DEF TypeOK, DataOK, sessionVars, contextVars, messageVars
    <2> QED BY <2>1, <2>5 DEF TypeOK
  <1> QED
    BY <1>8, <1>9, <1>10, <1>11, <1>12, <1>13, <1>14, <1>15, <1>16, <1>17, <1>18, <1>19
    DEF ServerStep, GoingAway, Idle, CloseTimeout, NoticeGone

(* the slot, the client and the end of the process                         *)
LEMMA OthersTyped ==
    ASSUME TypeOK,
           \/ OthersCome \/ OthersGo \/ Resolved \/ NoWorker \/ Acquired
           \/ ClientSays \/ ClientTakes \/ ClientSilent \/ ClientLeaves \/ Exit
    PROVE  TypeOK'
  <1>1. ASSUME OthersCome \/ OthersGo \/ Resolved \/ NoWorker PROVE TypeOK'
    <2>1. FlagsOK'
      BY <1>1
      DEF OthersCome, OthersGo, Resolved, NoWorker, TypeOK, FlagsOK, connectionVars, sessionVars,
          contextVars, messageVars
    <2>2. slots' \in Int /\ others' \in Int
      BY <1>1
      DEF OthersCome, OthersGo, Resolved, NoWorker, ReleaseSlot, TypeOK, DataOK, slotVars
    <2>3. phase' \in {"resolving", "acquiring", "serving", "answered"}
          /\ slot' \in {"none", "held", "released"}
      BY <1>1
      DEF OthersCome, OthersGo, Resolved, NoWorker, ReleaseSlot, TypeOK, DataOK, slotVars
    <2>4. UNCHANGED <<clientVars, connectionVars, toWorker, toServer, process, sessionVars>>
      BY <1>1 DEF OthersCome, OthersGo, Resolved, NoWorker
    <2>5. DataOK'
      BY <2>2, <2>3, <2>4
      DEF TypeOK, DataOK, clientVars, connectionVars, sessionVars, contextVars, messageVars
    <2> QED BY <2>1, <2>5 DEF TypeOK
  <1>2. CASE Acquired
    <2>1. <<Msg("request")>> \in Seq(WireMessage) BY MessagesTyped DEF Types
    <2> QED
      BY <1>2, <2>1
      DEF Acquired, TypeOK, FlagsOK, DataOK, slotVars, clientVars, connectionVars, sessionVars, contextVars, messageVars
  <1>3. CASE ClientSays
    <2>1. said' \in Nat /\ incoming' \in Seq(Nat)
      <3>1. CASE said' = said + 1 /\ incoming' = Append(incoming, said')
        <4>1. said' \in Nat BY <3>1 DEF TypeOK, DataOK
        <4>2. incoming' \in Seq(Nat) BY <3>1, <4>1, QueueAppended DEF TypeOK, DataOK
        <4> QED BY <4>1, <4>2
      <3>2. CASE said' = said /\ incoming' = Append(incoming, CloseFrame)
        BY <3>2, QueueAppended DEF TypeOK, DataOK, CloseFrame
      <3> QED BY <1>3, <3>1, <3>2 DEF ClientSays
    <2> QED
      BY <1>3, <2>1
      DEF ClientSays, NotClient, TypeOK, FlagsOK, DataOK, slotVars, connectionVars, sessionVars, contextVars, messageVars
  <1>4. CASE ClientTakes
    <2>1. outgoing' \in Seq(Nat) /\ Head(outgoing) \in Nat
      BY <1>4, QueueTaken DEF ClientTakes, TypeOK, FlagsOK, DataOK
    <2>2. Send("ack") \in Seq(WireMessage) BY SentTyped DEF Types
    <2>3. got' \in Seq(Nat) /\ toWorker' \in Seq(WireMessage)
      <3>1. Append(got, Head(outgoing)) \in Seq(Nat) BY <2>1, QueueAppended DEF TypeOK, DataOK
      <3> QED BY <1>4, <2>2, <3>1 DEF ClientTakes, TypeOK, DataOK
    <2> QED
      BY <1>4, <2>1, <2>3
      DEF ClientTakes, NotClient, TypeOK, FlagsOK, DataOK, slotVars, connectionVars, sessionVars, contextVars, messageVars
  <1>5. CASE ClientSilent
    BY <1>5
    DEF ClientSilent, NotClient, TypeOK, FlagsOK, DataOK, slotVars, connectionVars, sessionVars, contextVars, messageVars
  <1>6. CASE ClientLeaves
    BY <1>6
    DEF ClientLeaves, ReleaseSlot, TypeOK, FlagsOK, DataOK, sessionVars, contextVars, messageVars
  <1>7. CASE Exit
    BY <1>7
    DEF Exit, NotWorker, TypeOK, FlagsOK, DataOK, slotVars, clientVars, connectionVars, sessionVars, contextVars,
        messageVars
  <1> QED BY <1>1, <1>2, <1>3, <1>4, <1>5, <1>6, <1>7

(* the steps of the worker                                                 *)
WorkerStep ==
    \/ SessionStep \/ HandleDone \/ AcceptUpgrade \/ RefuseUpgrade \/ FunctionReturns
    \/ Push \/ PushClose

LEMMA WorkerTyped == ASSUME TypeOK, WorkerStep PROVE TypeOK'
  <1> USE DEF NotWorker, slotVars, clientVars, connectionVars, contextVars, messageVars
  <1>1. \A type : Gets(type) => toWorker' \in Seq(WireMessage) /\ Head(toWorker) \in WireMessage
    BY QueueTaken DEF Gets, TypeOK, FlagsOK, DataOK
  <1>2. \A queue \in Seq(Nat) : queue # <<>> => Tail(queue) \in Seq(Nat) /\ Head(queue) \in Nat
    BY QueueTaken
  <1>3. \A queue \in Seq(Nat), n \in Nat : Append(queue, n) \in Seq(Nat) BY QueueAppended
  <1>4. \A type \in Types : Append(toServer, Msg(type)) \in Seq(WireMessage)
    BY MessagesTyped, QueueAppended DEF TypeOK, FlagsOK, DataOK
  <1>5. Append(toServer, Numbered("send", pushed + 1)) \in Seq(WireMessage)
    BY MessagesTyped, QueueAppended DEF TypeOK, FlagsOK, DataOK, Types
  <1>6. CASE Started BY <1>1, <1>6 DEF Started, Gets, TypeOK, FlagsOK, DataOK
  <1>7. CASE Message
    <2>1. inbox' \in Seq(Nat) BY <1>1, <1>3, <1>7, MessagesTyped DEF Message, TypeOK, FlagsOK, DataOK
    <2> QED BY <1>1, <1>7, <2>1 DEF Message, Gets, TypeOK, FlagsOK, DataOK
  <1>8. CASE Acknowledged
    <2>1. waiting' \in Seq(Nat) /\ settled' \in Seq(Nat)
      BY <1>2, <1>3, <1>8 DEF Acknowledged, TypeOK, FlagsOK, DataOK
    <2> QED BY <1>1, <1>8, <2>1 DEF Acknowledged, Gets, TypeOK, FlagsOK, DataOK
  <1>9. CASE Close
    <2>1. FlagsOK'
      BY <1>9 DEF Close, CloseWsConnection, Gets, TypeOK, FlagsOK
    <2>2. closedSeen' \in Nat BY <1>9 DEF Close, TypeOK, DataOK
    <2>3. waiting' = <<>> \/ waiting' = waiting BY <1>9 DEF Close, CloseWsConnection
    <2>4. waiting' \in Seq(Nat)
      <3>1. <<>> \in Seq(Nat) /\ waiting \in Seq(Nat) BY DEF TypeOK, DataOK
      <3> QED BY <2>3, <3>1, Zenon
    <2>5. DataOK' BY <1>1, <1>9, <2>2, <2>4 DEF Close, Gets, TypeOK, DataOK
    <2> QED BY <2>1, <2>5 DEF TypeOK
  <1>10. CASE HandleNext
    <2>1. inbox' \in Seq(Nat) /\ handling' \in Nat /\ started' \in Seq(Nat)
      BY <1>2, <1>3, <1>10 DEF HandleNext, TypeOK, FlagsOK, DataOK
    <2> QED BY <1>10, <2>1 DEF HandleNext, Works, TypeOK, FlagsOK, DataOK
  <1>11. CASE HandleDone BY <1>4, <1>11 DEF HandleDone, Works, TypeOK, FlagsOK, DataOK, Types
  <1>12. CASE AcceptUpgrade
    <2>1. FlagsOK' BY <1>12 DEF AcceptUpgrade, Works, TypeOK, FlagsOK
    <2>2. DataOK' BY <1>4, <1>12 DEF AcceptUpgrade, Works, TypeOK, DataOK, Types
    <2> QED BY <2>1, <2>2 DEF TypeOK
  <1>13. CASE RefuseUpgrade
    <2>1. FlagsOK' BY <1>13 DEF RefuseUpgrade, Works, TypeOK, FlagsOK
    <2>2. DataOK' BY <1>4, <1>13 DEF RefuseUpgrade, Works, TypeOK, DataOK, Types
    <2> QED BY <2>1, <2>2 DEF TypeOK
  <1>14. CASE FunctionReturns
    <2>1. FlagsOK' BY <1>14 DEF FunctionReturns, Works, TypeOK, FlagsOK
    <2>2. DataOK' BY <1>14 DEF FunctionReturns, Works, TypeOK, DataOK
    <2> QED BY <2>1, <2>2 DEF TypeOK
  <1>15. CASE Push
    <2>1. waiting' \in Seq(Nat) /\ pushed' \in Nat /\ toServer' \in Seq(WireMessage)
      BY <1>3, <1>5, <1>15 DEF Push, TypeOK, FlagsOK, DataOK
    <2> QED BY <1>15, <2>1 DEF Push, Works, TypeOK, FlagsOK, DataOK
  <1>16. CASE PushClose BY <1>4, <1>16 DEF PushClose, Works, TypeOK, FlagsOK, DataOK, Types
  <1> QED
    BY <1>6, <1>7, <1>8, <1>9, <1>10, <1>11, <1>12, <1>13, <1>14, <1>15, <1>16
    DEF WorkerStep, SessionStep

LEMMA TypeStep == TypeOK /\ [Next]_vars => TypeOK'
  <1> SUFFICES ASSUME TypeOK, [Next]_vars PROVE TypeOK' OBVIOUS
  <1>1. CASE UNCHANGED vars
    BY <1>1
    DEF vars, TypeOK, FlagsOK, DataOK, slotVars, clientVars, connectionVars, sessionVars, contextVars, messageVars
  <1>2. CASE Next BY <1>2, ServerTyped, OthersTyped, WorkerTyped DEF Next, WorkerStep
  <1> QED BY <1>1, <1>2

(* Every variable of a websocket keeps its type, for any sizes: the queues *)
(* of both directions, of the connection and of the context hold what      *)
(* their readers expect.                                                   *)
THEOREM TypeCorrect == Spec => []TypeOK
  BY TypeInitially, TypeStep, PTL DEF Spec

-----------------------------------------------------------------------------
(* The slot                                                                *)

SlotPart == <<phase, slots, others, slot, leased>>

(* what a step can do to the slot                                          *)
SlotStep ==
    \/ UNCHANGED SlotPart
    \/ /\ slots' - slots = others' - others
       /\ UNCHANGED <<phase, slot, leased>>
    \/ Resolved
    \/ Acquired
    \/ /\ phase = "acquiring" /\ phase' = "answered"
       /\ ReleaseSlot
       /\ UNCHANGED <<others, leased>>
    \/ leased /\ Cleanup /\ UNCHANGED <<phase, others>>

LEMMA SlotSteps == ASSUME TypeOK, [Next]_vars PROVE SlotStep
  <1> USE DEF SlotStep, SlotPart, slotVars
  <1>1. CASE UNCHANGED vars BY <1>1 DEF vars
  <1>2. CASE OthersCome
    <2>1. slots' - slots = others' - others BY <1>2 DEF OthersCome, TypeOK, DataOK
    <2> QED BY <1>2, <2>1 DEF OthersCome
  <1>3. CASE OthersGo
    <2>1. slots' - slots = others' - others BY <1>3 DEF OthersGo, TypeOK, DataOK
    <2> QED BY <1>3, <2>1 DEF OthersGo
  <1>4. CASE NoWorker BY <1>4 DEF NoWorker
  <1>5. CASE SocketClosed BY <1>5 DEF SocketClosed
  <1>6. CASE GoingAway \/ Receive \/ ReceiveClose \/ ReceiveIgnored \/ Idle
    BY <1>6
    DEF GoingAway, Receive, ReceiveClose, ReceiveIgnored, Idle, StartsClose, NotServed
  <1>7. CASE Dropped \/ Accepted \/ Refused \/ Taken \/ PassOn \/ ClosedByWorker
    BY <1>7 DEF Dropped, Accepted, Refused, Taken, PassOn, ClosedByWorker, Serves
  <1>8. CASE Exited BY <1>8 DEF Exited
  <1>9. CASE ClientSays \/ ClientTakes \/ ClientSilent
    BY <1>9 DEF ClientSays, ClientTakes, ClientSilent, NotClient
  <1>10. CASE ClientLeaves BY <1>10 DEF ClientLeaves
  <1>11. CASE WorkerStep \/ Exit
    BY <1>11
    DEF WorkerStep, SessionStep, Started, Message, Acknowledged, Close, HandleNext, HandleDone,
        AcceptUpgrade, RefuseUpgrade, FunctionReturns, Push, PushClose, Gets, Works, NotWorker, Exit
  <1> QED
    BY <1>1, <1>2, <1>3, <1>4, <1>5, <1>6, <1>7, <1>8, <1>9, <1>10, <1>11
    DEF Next, ServerStep, CloseTimeout, NoticeGone, WorkerStep

LEMMA SlotKept == ASSUME TypeOK, SlotInv, [Next]_vars PROVE SlotInv'
  <1>1. SlotStep BY SlotSteps
  <1>2. slots' = others' + (IF slot' = "held" THEN 1 ELSE 0)
    <2>1. /\ slots \in Int /\ others \in Int /\ slots' \in Int /\ others' \in Int
          /\ slot = "held" => slots = others + 1
          /\ slot # "held" => slots = others
      BY TypeStep DEF SlotInv, SlotsCounted, TypeOK, DataOK
    <2>2. slot # "held" \/ phase # "resolving" BY DEF SlotInv, SlotsCounted
    <2>3. \/ slots' = slots /\ others' = others /\ slot' = slot
          \/ slots' - slots = others' - others /\ slot' = slot
          \/ slots' = slots + 1 /\ others' = others /\ slot' = "held" /\ slot # "held"
          \/ slot = "held" /\ slots' = slots - 1 /\ others' = others /\ slot' = "released"
      BY <1>1, <2>2
      DEF SlotStep, SlotPart, Resolved, Acquired, ReleaseSlot, Cleanup, slotVars
    <2>4. /\ \A s, o \in Int : s - slots = o - others /\ slots = others => s = o
          /\ \A s, o \in Int : s - slots = o - others /\ slots = others + 1 => s = o + 1
          /\ \A s \in Int : s = s + 0
      BY <2>1
    <2>5. slot' = "held" => slots' = others' + 1 BY <2>1, <2>3, <2>4
    <2>6. slot' # "held" => slots' = others' BY <2>1, <2>3, <2>4
    <2> QED BY <2>1, <2>4, <2>5, <2>6
  <1>3. slot' = "held" <=> (phase' = "acquiring" \/ leased')
    BY <1>1
    DEF SlotStep, SlotPart, SlotInv, SlotsCounted, Resolved, Acquired, ReleaseSlot, Cleanup, slotVars,
        TypeOK, FlagsOK
  <1>4. leased' => phase' = "serving"
    BY <1>1 DEF SlotStep, SlotPart, SlotInv, Resolved, Acquired, Cleanup, SlotsCounted
  <1> QED BY <1>2, <1>3, <1>4 DEF SlotInv, SlotsCounted

LEMMA SlotInvariant == Spec => [](TypeOK /\ SlotInv)
  <1>1. Init => SlotInv
    <2> SUFFICES ASSUME Init PROVE SlotInv OBVIOUS
    <2>1. slots = others + (IF slot = "held" THEN 1 ELSE 0) BY DEF Init
    <2>2. /\ slot = "held" <=> (phase = "acquiring" \/ leased)
          /\ leased => phase = "serving"
      BY DEF Init
    <2> QED BY <2>1, <2>2 DEF SlotInv, SlotsCounted
  <1>2. TypeOK /\ SlotInv /\ [Next]_vars => (TypeOK /\ SlotInv)' BY TypeStep, SlotKept
  <1> QED BY <1>1, <1>2, TypeInitially, PTL DEF Spec

(* The slots of a file are those of its connections, for any limit and any *)
(* number of them: one is held while a connection waits for a worker or    *)
(* has one, and is given back once, whichever of the answers, closes and   *)
(* exits ends it, in whichever order they come.                            *)
THEOREM SlotsAreCounted == Spec => []SlotsCounted
  <1>1. SlotInv => SlotsCounted BY DEF SlotInv
  <1> QED BY <1>1, SlotInvariant, PTL

-----------------------------------------------------------------------------
(* The life of the context                                                 *)

(* what a message leaves of its queue, behind it and in front of it        *)
LEMMA ServerGets ==
    ASSUME TypeOK, NEW type, Serves(type)
    PROVE  /\ Has(toServer, type) /\ toServer # <<>>
           /\ \A other : Has(toServer', other) => Has(toServer, other)
  BY HasTaken DEF Serves, TypeOK, DataOK

LEMMA ServerSent ==
    ASSUME TypeOK, NEW type \in Types, NEW n \in Nat, toServer' = Append(toServer, Numbered(type, n))
    PROVE  \A other : Has(toServer', other) <=> Has(toServer, other) \/ other = type
  <1>1. Numbered(type, n) \in WireMessage /\ Numbered(type, n).type = type BY MessagesTyped
  <1> QED BY <1>1, HasAppended DEF TypeOK, DataOK

LEMMA WorkerGets ==
    ASSUME TypeOK, NEW type, Gets(type)
    PROVE  /\ Has(toWorker, type) /\ toWorker # <<>>
           /\ \A other : Has(toWorker', other) => Has(toWorker, other)
           /\ \A other : other # type /\ Has(toWorker, other) => Has(toWorker', other)
           /\ \A other : OnlyFirst(toWorker, other) =>
                 /\ ~Has(toWorker', other) /\ OnlyFirst(toWorker', other)
                 /\ Has(toWorker, other) => other = type
           /\ \A other : OnlyLast(toWorker, other) => OnlyLast(toWorker', other)
           /\ OnlyLast(toWorker, type) => toWorker' = <<>>
  <1>1. toWorker \in Seq(WireMessage) /\ toWorker # <<>> /\ toWorker' = Tail(toWorker)
        /\ Head(toWorker).type = type
    BY DEF Gets, TypeOK, DataOK
  <1> QED BY <1>1, HasTaken, EndsTaken

LEMMA WorkerSent ==
    ASSUME TypeOK, NEW type \in Types, NEW n \in Nat, toWorker' = Append(toWorker, Numbered(type, n))
    PROVE  /\ \A other : Has(toWorker', other) <=> Has(toWorker, other) \/ other = type
           /\ \A other : OnlyFirst(toWorker, other) /\ other # type => OnlyFirst(toWorker', other)
           /\ \A other : ~Has(toWorker, other) => OnlyLast(toWorker', other)
  <1>1. Numbered(type, n) \in WireMessage /\ Numbered(type, n).type = type BY MessagesTyped
  <1>2. toWorker \in Seq(WireMessage) BY DEF TypeOK, DataOK
  <1> QED BY <1>1, <1>2, HasAppended, EndsAppended

LEMMA NothingIn == \A type : ~Has(<<>>, type) /\ OnlyFirst(<<>>, type) /\ OnlyLast(<<>>, type)
  BY DEF Has, OnlyFirst, OnlyLast

(* a message without a number                                              *)
LEMMA Plain == \A type : Msg(type) = Numbered(type, 0)
  BY DEF Msg, Numbered

LEMMA LifeInitially == Init => LifeInv
  <1> SUFFICES ASSUME Init PROVE LifeInv OBVIOUS
  <1>1. RequestFirst BY NothingIn, Zenon DEF Init, RequestFirst, Unstarted
  <1>2. AnswerFirst BY NothingIn, Zenon DEF Init, AnswerFirst
  <1>3. ToldOnce BY NothingIn, Zenon DEF Init, ToldOnce, Unstarted
  <1> QED BY <1>1, <1>2, <1>3 DEF LifeInv

(* what neither the queues nor the context take part in                    *)
LEMMA LifeQuiet ==
    ASSUME LifeInv,
           UNCHANGED <<toWorker, toServer, sessionVars, leased, opened, unacked, said, incoming>>,
           UNCHANGED <<outgoing, got>> \/ (phase = "serving" /\ phase' = phase),
           phase' = phase \/ (phase # "serving" /\ phase' # "serving"),
           process' = process \/ process' # "up",
           socket' = socket \/ socket' = "closed", paused' => paused
    PROVE  LifeInv'
  <1> USE DEF sessionVars, contextVars, messageVars
  <1>1. RequestFirst' BY Zenon DEF LifeInv, RequestFirst, Unstarted
  <1>2. AnswerFirst' BY Zenon DEF LifeInv, AnswerFirst
  <1>3. ToldOnce' BY Zenon DEF LifeInv, ToldOnce, Unstarted
  <1> QED BY <1>1, <1>2, <1>3 DEF LifeInv

(* the steps of the server                                                 *)
LEMMA LifeServer ==
    ASSUME TypeOK, SlotInv, LifeInv, ServerStep \/ GoingAway
    PROVE  LifeInv'
  <1> USE DEF slotVars, clientVars, connectionVars, sessionVars, contextVars, messageVars, NotServed
  <1>1. CASE Receive
    <2>1. PICK n \in 1..Together :
             /\ n <= Len(incoming)
             /\ toWorker' = IF process = "closed" THEN toWorker ELSE toWorker \o Chunk(n)
      BY <1>1 DEF Receive, Chunk
    <2>2. n \in 0..Len(incoming) BY <2>1, SizesAssumption DEF TypeOK, DataOK
    <2>3. Chunk(n) \in Seq(WireMessage) /\ \A other : Has(Chunk(n), other) => other = "message"
      BY <2>2, ChunkTyped DEF Has
    <2>4. toWorker \in Seq(WireMessage) BY DEF TypeOK, DataOK
    <2>5. /\ \A other : other # "message" => (Has(toWorker', other) <=> Has(toWorker, other))
          /\ \A other : OnlyFirst(toWorker, other) /\ other # "message" => OnlyFirst(toWorker', other)
          /\ \A other : OnlyLast(toWorker, other) /\ ~Has(toWorker', other) => OnlyLast(toWorker', other)
      BY <2>1, <2>3, <2>4, HasJoined, EndsJoined
    <2>6. leased /\ opened /\ opened' /\ closedSeen = 0 BY <1>1 DEF Receive, Connected, LifeInv, ToldOnce
    <2>7. phase = "serving" BY <2>6 DEF SlotInv
    <2>8. UNCHANGED <<phase, outgoing, got, leased, process, socket, opened, toServer, sessionVars>> BY <1>1 DEF Receive
    <2>9. RequestFirst' BY <2>5, <2>7, <2>8, Zenon DEF LifeInv, RequestFirst, Unstarted
    <2>10. AnswerFirst' BY <2>6, <2>8, Zenon DEF LifeInv, AnswerFirst
    <2>11. ToldOnce' BY <2>5, <2>6, <2>8, Zenon DEF LifeInv, ToldOnce, Unstarted
    <2> QED BY <2>9, <2>10, <2>11 DEF LifeInv
  <1>2. CASE ReceiveClose \/ ReceiveIgnored
    <2>1. incoming # <<>> BY <1>2 DEF ReceiveClose, ReceiveIgnored
    <2>2. opened BY <2>1 DEF LifeInv, AnswerFirst
    <2>3. opened' = opened BY <1>2 DEF ReceiveClose, ReceiveIgnored
    <2>4. UNCHANGED <<phase, leased, process, socket, toWorker, toServer, sessionVars>>
          /\ phase = "serving"
      BY <1>2, <2>2 DEF ReceiveClose, ReceiveIgnored, LifeInv, RequestFirst, AnswerFirst, Unstarted
    <2>5. RequestFirst' BY <2>4, Zenon DEF LifeInv, RequestFirst, Unstarted
    <2>6. AnswerFirst' BY <2>2, <2>3, <2>4, Zenon DEF LifeInv, AnswerFirst
    <2>7. ToldOnce' BY <2>4, Zenon DEF LifeInv, ToldOnce, Unstarted
    <2> QED BY <2>5, <2>6, <2>7 DEF LifeInv
  <1>3. CASE StartsClose
    BY <1>3, LifeQuiet DEF StartsClose, StartClose, Connected, SlotInv
  <1>4. CASE SocketClosed
    <2>1. CASE leased
      <3>1. phase = "serving" BY <2>1 DEF SlotInv
      <3>2. toWorker' = IF process = "closed" THEN toWorker ELSE Append(toWorker, Numbered("close", 0))
        BY <1>4, <2>1, Plain DEF SocketClosed, Send
      <3>3. closedSeen = 0 /\ ~Has(toWorker, "close") BY <2>1 DEF LifeInv, ToldOnce
      <3>4. /\ \A other : other # "close" => (Has(toWorker', other) <=> Has(toWorker, other))
            /\ OnlyFirst(toWorker, "request") => OnlyFirst(toWorker', "request")
            /\ OnlyLast(toWorker', "close")
            /\ process = "up" => Has(toWorker', "close")
        BY <3>2, <3>3, WorkerSent DEF Types, LifeInv, ToldOnce
      <3>5. /\ UNCHANGED <<phase, process, opened, unacked, paused, said, toServer, sessionVars>>
            /\ ~leased' /\ socket' = "closed" /\ incoming' = <<>> /\ outgoing' = <<>> /\ got' = got
        BY <1>4, <2>1 DEF SocketClosed, Cleanup
      <3>6. RequestFirst' BY <3>1, <3>4, <3>5, Zenon DEF LifeInv, RequestFirst, Unstarted
      <3>7. AnswerFirst' BY <3>4, <3>5, Zenon DEF LifeInv, AnswerFirst
      <3>8. ToldOnce' BY <3>3, <3>4, <3>5, Zenon DEF LifeInv, ToldOnce, Unstarted
      <3> QED BY <3>6, <3>7, <3>8 DEF LifeInv
    <2>2. CASE ~leased
      <3>1. /\ UNCHANGED <<phase, leased, process, opened, unacked, paused, said, toWorker, toServer, sessionVars>>
            /\ socket' = "closed" /\ incoming' = <<>> /\ outgoing' = <<>> /\ got' = got
        BY <1>4, <2>2 DEF SocketClosed
      <3>2. RequestFirst' BY <3>1, Zenon DEF LifeInv, RequestFirst, Unstarted
      <3>3. AnswerFirst' BY <3>1, Zenon DEF LifeInv, AnswerFirst
      <3>4. ToldOnce' BY <3>1, Zenon DEF LifeInv, ToldOnce, Unstarted
      <3> QED BY <3>2, <3>3, <3>4 DEF LifeInv
    <2> QED BY <2>1, <2>2
  <1>5. ASSUME NEW type, Serves(type)
        PROVE  /\ ~Unstarted /\ Has(toServer, type)
               /\ \A other : Has(toServer', other) => Has(toServer, other)
    <2>1. Has(toServer, type) /\ toServer # <<>> /\ \A other : Has(toServer', other) => Has(toServer, other)
      BY <1>5, ServerGets
    <2> QED BY <2>1 DEF LifeInv, RequestFirst
  <1>6. ASSUME NEW type, Serves(type), leased' => leased, leased => leased' \/ answer = "refused",
               opened' => opened \/ answer = "accepted", opened => opened',
               opened \/ (unacked' = unacked /\ paused' = paused),
               socket' = socket, toWorker' = toWorker
        PROVE  LifeInv'
    <2> phase = "serving" BY <1>5, <1>6 DEF LifeInv, RequestFirst
    <2>1. ~Unstarted /\ \A other : Has(toServer', other) => Has(toServer, other) BY <1>5, <1>6
    <2>2. UNCHANGED <<phase, process, incoming, said, toWorker, socket, sessionVars>> BY <1>6 DEF Serves
    <2>3. RequestFirst' BY <2>1, <2>2, Zenon DEF LifeInv, RequestFirst, Unstarted
    <2>4. AnswerFirst'
      <3>1. ~opened' => ~opened /\ unacked' = unacked /\ paused' = paused BY <1>6
      <3>2. opened' => answer = "accepted" BY <1>6 DEF LifeInv, AnswerFirst
      <3>3. /\ Has(toServer', "response") => Has(toServer, "response")
            /\ Has(toServer', "refusal") => Has(toServer, "refusal")
            /\ Has(toServer', "wsAck") => Has(toServer, "wsAck")
        BY <2>1
      <3>4. CASE opened' BY <2>2, <3>2, <3>3, <3>4, Zenon DEF LifeInv, AnswerFirst
      <3>5. CASE ~opened'
        <4>1. unacked' = 0 BY <3>1, <3>5 DEF LifeInv, AnswerFirst
        <4>2. ~paused' BY <3>1, <3>5 DEF LifeInv, AnswerFirst
        <4> QED BY <2>2, <3>1, <3>3, <3>5, <4>1, <4>2, Zenon DEF LifeInv, AnswerFirst
      <3> QED BY <3>4, <3>5
    <2>5. ToldOnce' BY <1>6, <2>1, <2>2, Zenon DEF LifeInv, ToldOnce, Unstarted
    <2> QED BY <2>3, <2>4, <2>5 DEF LifeInv
  <1>7. CASE Dropped BY <1>6, <1>7 DEF Dropped
  <1>8. CASE Accepted
    <2>1. answer = "accepted" BY <1>5, <1>8 DEF Accepted, LifeInv, AnswerFirst
    <2> QED BY <1>6, <1>8, <2>1 DEF Accepted
  <1>9. CASE Refused
    <2>1. answer = "refused" BY <1>5, <1>9 DEF Refused, LifeInv, AnswerFirst
    <2> QED BY <1>6, <1>9, <2>1 DEF Refused, Cleanup
  <1>10. CASE Taken
    <2>1. opened BY <1>5, <1>10 DEF Taken, LifeInv, AnswerFirst
    <2> QED BY <1>6, <1>10, <2>1 DEF Taken
  <1>11. CASE PassOn \/ ClosedByWorker
    <2>1. PICK type : Serves(type) BY <1>11 DEF PassOn, ClosedByWorker
    <2>2. ~opened => ~paused BY DEF LifeInv, AnswerFirst
    <2>3. /\ UNCHANGED <<leased, opened, unacked, socket, toWorker>>
          /\ paused' = paused \/ paused' = FALSE
      BY <1>11 DEF PassOn, ClosedByWorker, StartClose
    <2>4. opened \/ paused' = paused BY <2>2, <2>3 DEF TypeOK, FlagsOK
    <2> QED BY <1>6, <2>1, <2>3, <2>4
  <1>12. CASE Exited
    <2>1. /\ UNCHANGED <<phase, opened, unacked, paused, said, toWorker, toServer, sessionVars>>
          /\ process' = "closed"
          /\ leased' => leased
          /\ socket' = socket \/ socket' = "closed"
          /\ incoming' = incoming \/ incoming' = <<>>
          /\ got' = got /\ (outgoing' = outgoing \/ outgoing' = <<>>)
      BY <1>12 DEF Exited, Cleanup
    <2>2. RequestFirst' BY <2>1, Zenon DEF LifeInv, RequestFirst, Unstarted
    <2>3. AnswerFirst' BY <2>1, Zenon DEF LifeInv, AnswerFirst
    <2>4. ToldOnce' BY <2>1, Zenon DEF LifeInv, ToldOnce, Unstarted
    <2> QED BY <2>2, <2>3, <2>4 DEF LifeInv
  <1> QED
    BY <1>1, <1>2, <1>3, <1>4, <1>7, <1>8, <1>9, <1>10, <1>11, <1>12
    DEF ServerStep, GoingAway, Idle, CloseTimeout, NoticeGone

(* the slot, the client and the end of the process                         *)
LEMMA LifeOthers ==
    ASSUME TypeOK, SlotInv, LifeInv,
           \/ OthersCome \/ OthersGo \/ Resolved \/ NoWorker \/ Acquired
           \/ ClientSays \/ ClientTakes \/ ClientSilent \/ ClientLeaves \/ Exit
    PROVE  LifeInv'
  <1> USE DEF slotVars, clientVars, connectionVars, sessionVars, contextVars, messageVars
  <1>1. CASE OthersCome \/ OthersGo \/ Resolved \/ NoWorker
    BY <1>1, LifeQuiet DEF OthersCome, OthersGo, Resolved, NoWorker
  <1>2. CASE Acquired
    <2>1. toWorker' = Append(toWorker, Numbered("request", 0))
      BY <1>2, Plain DEF Acquired, LifeInv, RequestFirst
    <2>2. toWorker = <<>> /\ Unstarted /\ phase' = "serving" BY <1>2 DEF Acquired, LifeInv, RequestFirst
    <2>3. /\ \A other : Has(toWorker', other) <=> other = "request"
          /\ OnlyFirst(toWorker', "request") /\ OnlyLast(toWorker', "close")
      <3>1. \A other : Has(toWorker', other) <=> other = "request"
        BY <2>1, <2>2, WorkerSent, NothingIn DEF Types
      <3>2. toWorker' = <<Msg("request")>> BY <1>2 DEF Acquired
      <3>3. Len(toWorker') = 1 BY <3>2
      <3> QED BY <3>1, <3>3 DEF OnlyFirst, OnlyLast
    <2>4. leased' /\ UNCHANGED <<clientVars, connectionVars, toServer, process, sessionVars>>
      BY <1>2 DEF Acquired
    <2>5. RequestFirst' BY <2>2, <2>3, <2>4, Zenon DEF LifeInv, RequestFirst, Unstarted
    <2>6. AnswerFirst' BY <2>3, <2>4, Zenon DEF LifeInv, AnswerFirst
    <2>7. ToldOnce' BY <2>2, <2>3, <2>4, Zenon DEF LifeInv, RequestFirst, ToldOnce, Unstarted
    <2> QED BY <2>5, <2>6, <2>7 DEF LifeInv
  <1>3. CASE ClientSays
    <2>1. opened /\ UNCHANGED <<phase, outgoing, got, leased, connectionVars, toWorker, toServer, process, sessionVars>>
      BY <1>3 DEF ClientSays, NotClient
    <2>2. RequestFirst' BY <2>1, Zenon DEF LifeInv, RequestFirst, Unstarted
    <2>3. AnswerFirst' BY <2>1, Zenon DEF LifeInv, AnswerFirst
    <2>4. ToldOnce' BY <2>1, Zenon DEF LifeInv, ToldOnce, Unstarted
    <2> QED BY <2>2, <2>3, <2>4 DEF LifeInv
  <1>4. CASE ClientTakes
    <2> phase = "serving" BY <1>4 DEF ClientTakes, LifeInv, RequestFirst
    <2>1. CASE toWorker' = toWorker
      BY <1>4, <2>1, LifeQuiet DEF ClientTakes, NotClient
    <2>2. CASE toWorker' = Append(toWorker, Numbered("ack", 0))
      <3>1. /\ \A other : other # "ack" => (Has(toWorker', other) <=> Has(toWorker, other))
            /\ OnlyFirst(toWorker, "request") => OnlyFirst(toWorker', "request")
            /\ ~Has(toWorker, "close") => OnlyLast(toWorker', "close")
        BY <2>2, WorkerSent DEF Types
      <3>2. /\ UNCHANGED <<phase, leased, connectionVars, toServer, process, sessionVars, said, incoming>>
            /\ socket = "open" /\ outgoing # <<>>
        BY <1>4 DEF ClientTakes, NotClient
      <3>3. closedSeen = 0 /\ ~Has(toWorker, "close") BY <3>2 DEF LifeInv, ToldOnce
      <3>4. phase = "serving" BY <3>2 DEF LifeInv, RequestFirst
      <3>5. RequestFirst' BY <3>1, <3>2, <3>4, Zenon DEF LifeInv, RequestFirst, Unstarted
      <3>6. AnswerFirst' BY <3>1, <3>2, Zenon DEF LifeInv, AnswerFirst
      <3>7. ToldOnce' BY <3>1, <3>2, <3>3, Zenon DEF LifeInv, ToldOnce, Unstarted
      <3> QED BY <3>5, <3>6, <3>7 DEF LifeInv
    <2> QED BY <1>4, <2>1, <2>2, Plain DEF ClientTakes, Send
  <1>5. CASE ClientSilent BY <1>5, LifeQuiet DEF ClientSilent, NotClient
  <1>6. CASE ClientLeaves BY <1>6, LifeQuiet DEF ClientLeaves
  <1>7. CASE Exit BY <1>7, LifeQuiet DEF Exit, NotWorker
  <1> QED BY <1>1, <1>2, <1>3, <1>4, <1>5, <1>6, <1>7

(* the steps of the worker                                                 *)
LEMMA LifeWorker ==
    ASSUME TypeOK, SlotInv, LifeInv, WorkerStep
    PROVE  LifeInv'
  <1> USE DEF contextVars, messageVars
  <1>1. UNCHANGED <<phase, slotVars, leased, clientVars, connectionVars, process>> /\ process = "up"
    BY DEF WorkerStep, SessionStep, Started, Message, Acknowledged, Close, HandleNext, HandleDone,
           AcceptUpgrade, RefuseUpgrade, FunctionReturns, Push, PushClose, Gets, Works, NotWorker
  <1>2. UNCHANGED <<phase, leased, said, incoming, outgoing, got, socket, opened, paused, unacked, process>>
    BY <1>1 DEF slotVars, clientVars, connectionVars
  <1>3. ASSUME NEW type, Gets(type)
        PROVE  /\ Has(toWorker, type) /\ toWorker # <<>> /\ closedSeen = 0 /\ phase = "serving"
               /\ type = "request" <=> Unstarted
               /\ ~Has(toWorker', "request") /\ OnlyFirst(toWorker', "request")
               /\ Has(toWorker', "message") => Has(toWorker, "message")
               /\ Has(toWorker', "close") => Has(toWorker, "close")
               /\ type # "close" /\ Has(toWorker, "close") => Has(toWorker', "close")
               /\ OnlyLast(toWorker', "close")
               /\ type = "close" => toWorker' = <<>>
    <2>1. Has(toWorker, type) /\ toWorker # <<>> BY <1>3, WorkerGets
    <2>2. closedSeen = 0 /\ phase = "serving" BY <2>1 DEF LifeInv, RequestFirst, ToldOnce
    <2>3. /\ OnlyFirst(toWorker, "request") /\ OnlyLast(toWorker, "close")
          /\ Has(toWorker, "request") <=> Unstarted
      BY <2>2 DEF LifeInv, RequestFirst, ToldOnce
    <2> QED BY <1>3, <2>1, <2>2, <2>3, WorkerGets
  <1>4. CASE Started
    <2>1. Gets("request") BY <1>4 DEF Started
    <2>2. running' /\ ws' /\ UNCHANGED <<answer, aborted, messageVars, toServer>> BY <1>4 DEF Started
    <2>3. RequestFirst' BY <1>2, <1>3, <2>1, <2>2, Zenon DEF LifeInv, RequestFirst, Unstarted
    <2>4. AnswerFirst' BY <1>2, <1>3, <2>1, <2>2, Zenon DEF LifeInv, RequestFirst, AnswerFirst, Unstarted
    <2>5. ToldOnce' BY <1>2, <1>3, <2>1, <2>2, Zenon DEF LifeInv, ToldOnce, Unstarted
    <2> QED BY <2>3, <2>4, <2>5 DEF LifeInv
  <1>5. CASE Message \/ Acknowledged
    <2>1. PICK type \in {"message", "ack"} : Gets(type) BY <1>5 DEF Message, Acknowledged
    <2>2. ~Unstarted /\ closedSeen = 0 /\ closedSeen' = 0 /\ UNCHANGED <<contextVars, handling, pushed, toServer>>
      BY <1>3, <1>5, <2>1 DEF Message, Acknowledged
    <2>3. (UNCHANGED <<inbox, receiving>> \/ opened) /\ (answer = "accepted" \/ waiting' = waiting)
      <3>1. CASE Message BY <1>3, <3>1, Zenon DEF Message, LifeInv, AnswerFirst
      <3>2. CASE Acknowledged
        <4>1. answer = "accepted" \/ waiting = <<>> BY DEF LifeInv, AnswerFirst
        <4> QED BY <3>2, <4>1 DEF Acknowledged
      <3> QED BY <1>5, <3>1, <3>2
    <2>4. RequestFirst' BY <1>2, <1>3, <2>1, <2>2, Zenon DEF LifeInv, RequestFirst, Unstarted
    <2>5. AnswerFirst'
      <3>1. CASE opened BY <1>2, <2>2, <2>3, <3>1, Zenon DEF LifeInv, AnswerFirst
      <3>2. CASE ~opened
        <4>1. ~Has(toWorker', "message") BY <1>3, <2>1, <3>2 DEF LifeInv, AnswerFirst
        <4>2. UNCHANGED <<inbox, receiving>> /\ (answer # "accepted" => waiting' = waiting)
          BY <2>3, <3>2
        <4> QED BY <1>2, <2>2, <3>2, <4>1, <4>2, Zenon DEF LifeInv, AnswerFirst
      <3> QED BY <3>1, <3>2
    <2>6. ToldOnce'
      <3>1. type # "close" BY <2>1
      <3> QED BY <1>2, <1>3, <2>1, <2>2, <3>1, Zenon DEF LifeInv, ToldOnce, Unstarted
    <2> QED BY <2>4, <2>5, <2>6 DEF LifeInv
  <1>6. CASE Close
    <2>1. Gets("close") BY <1>6 DEF Close
    <2>2. ~Unstarted /\ closedSeen = 0 /\ toWorker' = <<>> /\ Has(toWorker, "close") BY <1>3, <2>1
    <2>3. closedSeen' = 1 BY <1>6, <2>2 DEF Close
    <2>4. /\ UNCHANGED <<answer, running, inbox, handling, pushed, toServer>>
          /\ ~ws' /\ ~receiving'
          /\ ws => aborted' /\ ~stream' /\ waiting' = <<>>
          /\ ~ws => aborted' = aborted /\ stream' = stream /\ waiting' = waiting
      BY <1>6 DEF Close, CloseWsConnection
    <2>5. ~ws => answer = "refused" BY <2>2 DEF LifeInv, ToldOnce
    <2>6. RequestFirst' BY <1>2, <1>3, <2>1, <2>2, <2>4, Zenon DEF LifeInv, RequestFirst, Unstarted
    <2>7. ~stream' /\ waiting' = <<>> /\ (aborted' \/ answer' = "refused")
      <3>1. CASE ws BY <2>4, <3>1
      <3>2. CASE ~ws
        <4>1. answer = "refused" /\ ~stream /\ waiting = <<>>
          BY <2>5, <3>2, Zenon DEF LifeInv, AnswerFirst
        <4> QED BY <2>4, <3>2, <4>1
      <3> QED BY <3>1, <3>2
    <2>8. socket' = "closed" /\ ~leased' BY <1>2, <2>2 DEF LifeInv, ToldOnce
    <2>9. AnswerFirst'
      BY <1>2, <1>3, <2>1, <2>4, <2>7, Zenon DEF LifeInv, AnswerFirst
    <2>10. ToldOnce'
      <3>1. closedSeen' # 0 BY <2>3
      <3> QED BY <2>2, <2>3, <2>4, <2>7, <2>8, <3>1, NothingIn, Zenon DEF ToldOnce
    <2> QED BY <2>6, <2>9, <2>10 DEF LifeInv
  <1>7. CASE HandleNext
    <2>1. inbox # <<>> /\ UNCHANGED <<toWorker, toServer, contextVars, waiting, receiving, pushed, closedSeen>>
      BY <1>7 DEF HandleNext, Works
    <2>2. ~Unstarted /\ opened BY <2>1 DEF LifeInv, RequestFirst, AnswerFirst
    <2>3. RequestFirst' BY <1>2, <2>1, <2>2, Zenon DEF LifeInv, RequestFirst, Unstarted
    <2>4. AnswerFirst' BY <1>2, <2>1, <2>2, Zenon DEF LifeInv, AnswerFirst
    <2>5. ToldOnce' BY <1>2, <2>1, <2>2, Zenon DEF LifeInv, ToldOnce, Unstarted
    <2> QED BY <2>3, <2>4, <2>5 DEF LifeInv
  <1>8. CASE HandleDone
    <2>1. /\ handling # 0 /\ toServer' = Append(toServer, Numbered("wsAck", 0))
          /\ UNCHANGED <<toWorker, contextVars, waiting, inbox, receiving, pushed, closedSeen>>
      BY <1>8, Plain DEF HandleDone, Works
    <2>2. ~Unstarted /\ opened BY <2>1 DEF LifeInv, RequestFirst, AnswerFirst
    <2>3. \A other : other # "wsAck" => (Has(toServer', other) <=> Has(toServer, other))
      BY <2>1, ServerSent DEF Types
    <2>4. RequestFirst' BY <1>2, <2>1, <2>2, Zenon DEF LifeInv, RequestFirst, Unstarted
    <2>5. AnswerFirst' BY <1>2, <2>1, <2>2, <2>3, Zenon DEF LifeInv, AnswerFirst
    <2>6. ToldOnce' BY <1>2, <2>1, <2>2, Zenon DEF LifeInv, ToldOnce, Unstarted
    <2> QED BY <2>4, <2>5, <2>6 DEF LifeInv
  <1>9. CASE AcceptUpgrade \/ RefuseUpgrade
    <2>1. PICK a \in {"accepted", "refused"} :
             /\ a = "accepted" => toServer' = Append(toServer, Numbered("response", 0))
             /\ a = "refused" => toServer' = Append(toServer, Numbered("refusal", 0))
             /\ running /\ answer = "none" /\ answer' = a
             /\ ~stream' /\ (ws' = ws \/ (~ws' /\ a = "refused"))
             /\ a = "refused" => ~ws'
             /\ UNCHANGED <<toWorker, running, aborted, messageVars>>
      BY <1>9, Plain DEF AcceptUpgrade, RefuseUpgrade, Works
    <2>2. /\ a = "accepted" => ~Has(toServer', "refusal")
          /\ a = "refused" => ~Has(toServer', "response")
          /\ Has(toServer', "wsAck") => Has(toServer, "wsAck")
      <3>1. ~Has(toServer, "response") /\ ~Has(toServer, "refusal") BY <2>1 DEF LifeInv, AnswerFirst
      <3>2. CASE a = "accepted"
        <4>1. toServer' = Append(toServer, Numbered("response", 0)) BY <2>1, <3>2
        <4>2. \A other : Has(toServer', other) <=> Has(toServer, other) \/ other = "response"
          BY <4>1, ServerSent DEF Types
        <4> QED BY <3>1, <3>2, <4>2
      <3>3. CASE a = "refused"
        <4>1. toServer' = Append(toServer, Numbered("refusal", 0)) BY <2>1, <3>3
        <4>2. \A other : Has(toServer', other) <=> Has(toServer, other) \/ other = "refusal"
          BY <4>1, ServerSent DEF Types
        <4> QED BY <3>1, <3>3, <4>2
      <3> QED BY <3>2, <3>3
    <2>3. ~opened /\ pushed = 0 /\ waiting = <<>> BY <2>1 DEF LifeInv, AnswerFirst
    <2>4. closedSeen # 0 => aborted BY <2>1 DEF LifeInv, ToldOnce
    <2>5. RequestFirst' BY <1>2, <2>1, Zenon DEF LifeInv, RequestFirst, Unstarted
    <2>6. AnswerFirst'
      <3>1. a = "accepted" \/ a = "refused" BY <2>1
      <3> QED BY <1>2, <2>1, <2>2, <2>3, <3>1, Zenon DEF LifeInv, AnswerFirst
    <2>7. ToldOnce'
      <3>1. (ws' => ws) /\ (answer' # "refused" => (ws => ws')) BY <2>1
      <3> QED BY <1>2, <2>1, <2>4, <3>1, Zenon DEF LifeInv, ToldOnce, Unstarted
    <2> QED BY <2>5, <2>6, <2>7 DEF LifeInv
  <1>10. CASE FunctionReturns
    <2>1. /\ answer # "none" /\ UNCHANGED <<toWorker, toServer, answer, ws, aborted, messageVars>>
          /\ stream' => stream
      BY <1>10 DEF FunctionReturns, Works
    <2>2. RequestFirst' BY <1>2, <2>1, Zenon DEF LifeInv, RequestFirst, Unstarted
    <2>3. AnswerFirst' BY <1>2, <2>1, Zenon DEF LifeInv, AnswerFirst
    <2>4. ToldOnce' BY <1>2, <2>1, Zenon DEF LifeInv, ToldOnce, Unstarted
    <2> QED BY <2>2, <2>3, <2>4 DEF LifeInv
  <1>11. CASE Push \/ PushClose
    <2>1. PICK type \in {"send", "wsClose"}, n \in Nat :
             toServer' = Append(toServer, Numbered(type, n))
      <3>1. CASE Push BY <3>1 DEF Push, TypeOK, DataOK
      <3>2. CASE PushClose BY <3>2, Plain DEF PushClose
      <3> QED BY <1>11, <3>1, <3>2
    <2>2. /\ answer = "accepted" /\ ~aborted
          /\ UNCHANGED <<toWorker, answer, running, ws, aborted, inbox, handling, receiving, closedSeen>>
      BY <1>11 DEF Push, PushClose, Works
    <2>3. \A other : other \notin {"send", "wsClose"} => (Has(toServer', other) <=> Has(toServer, other))
      BY <2>1, ServerSent DEF Types
    <2>4. /\ Has(toServer', "response") => Has(toServer, "response")
          /\ Has(toServer', "refusal") => Has(toServer, "refusal")
          /\ Has(toServer', "wsAck") => Has(toServer, "wsAck")
      BY <2>3
    <2>5. closedSeen = 0 BY <2>2 DEF LifeInv, ToldOnce
    <2>6. RequestFirst' BY <1>2, <2>2, Zenon DEF LifeInv, RequestFirst, Unstarted
    <2>7. AnswerFirst' BY <1>2, <2>2, <2>4, Zenon DEF LifeInv, AnswerFirst
    <2>8. ToldOnce' BY <1>2, <2>2, <2>5, Zenon DEF LifeInv, ToldOnce, Unstarted
    <2> QED BY <2>6, <2>7, <2>8 DEF LifeInv
  <1> QED BY <1>4, <1>5, <1>6, <1>7, <1>8, <1>9, <1>10, <1>11 DEF WorkerStep, SessionStep

LEMMA LifeStep == ASSUME TypeOK, SlotInv, LifeInv, [Next]_vars PROVE LifeInv'
  <1>1. CASE UNCHANGED vars BY <1>1, LifeQuiet DEF vars, slotVars, clientVars, connectionVars
  <1>2. CASE Next BY <1>2, LifeServer, LifeOthers, LifeWorker DEF Next, WorkerStep
  <1> QED BY <1>1, <1>2

LEMMA LifeInvariant == Spec => [](TypeOK /\ SlotInv /\ LifeInv)
  <1>1. LifeInv /\ TypeOK /\ SlotInv /\ [Next]_vars => LifeInv' BY LifeStep
  <1> QED BY <1>1, LifeInitially, SlotInvariant, PTL DEF Spec

(* A connection that is over in the server is over in the worker, in every *)
(* order of the close, the answer and what is on its way: once the queues  *)
(* are empty nothing waits, the context is dropped, and the worker was     *)
(* told of the close once.                                                 *)
THEOREM NothingIsForgotten == Spec => []NothingForgotten
  <1>1. TypeOK /\ LifeInv => NothingForgotten
    <2> SUFFICES ASSUME TypeOK, LifeInv PROVE NothingForgotten OBVIOUS
    <2>1. closedSeen <= 1
      <3>1. closedSeen = 0 \/ closedSeen = 1 BY DEF LifeInv, ToldOnce
      <3> QED BY <3>1
    <2>2. ASSUME phase = "serving", ~leased, process = "up", toWorker = <<>>
          PROVE  /\ waiting = <<>> /\ ~ws /\ ~receiving
                 /\ running \/ ~stream
                 /\ answer = "accepted" => closedSeen = 1
      <3>1. closedSeen # 0 \/ answer = "refused" BY <2>2, NothingIn, Zenon DEF LifeInv, ToldOnce
      <3>2. CASE closedSeen # 0 BY <3>2, Zenon DEF LifeInv, ToldOnce
      <3>3. CASE answer = "refused" BY <3>3, Zenon DEF LifeInv, AnswerFirst
      <3> QED BY <3>1, <3>2, <3>3
    <2> QED BY <2>1, <2>2, Zenon DEF NothingForgotten
  <1> QED BY <1>1, LifeInvariant, PTL

-----------------------------------------------------------------------------
(* The pace of the client                                                  *)

LEMMA CountsChange ==
    ASSUME NEW queue \in Seq(WireMessage), NEW type
    PROVE  /\ Count(queue, type) \in Nat
           /\ \A m \in WireMessage :
                 Count(Append(queue, m), type) = Count(queue, type) + IF m.type = type THEN 1 ELSE 0
           /\ queue # <<>> =>
                 Count(queue, type) = Count(Tail(queue), type) + IF Head(queue).type = type THEN 1 ELSE 0
  <1> DEFINE S == [type : {type}, part : Nat]
  <1>1. \A m \in WireMessage : m \in S <=> m.type = type BY DEF WireMessage
  <1> HIDE DEF S
  <1>2. Count(queue, type) = Among(queue, S) /\ Count(Tail(queue), type) = Among(Tail(queue), S)
        /\ \A m : Count(Append(queue, m), type) = Among(Append(queue, m), S)
    BY DEF Count, S
  <1>3. Among(queue, S) \in Nat BY PlacesAreFinite
  <1>4. \A m \in WireMessage : Among(Append(queue, m), S) = Among(queue, S) + IF m \in S THEN 1 ELSE 0
    BY CountAppended
  <1>5. queue # <<>> =>
           /\ Among(queue, S) = Among(Tail(queue), S) + IF Head(queue) \in S THEN 1 ELSE 0
           /\ Head(queue) \in WireMessage
    BY CountTaken, QueueTaken
  <1> QED BY <1>1, <1>2, <1>3, <1>4, <1>5

LEMMA CountOfNone == \A type : Count(<<>>, type) = 0
  <1> SUFFICES ASSUME NEW type PROVE Count(<<>>, type) = 0 OBVIOUS
  <1>1. {i \in DOMAIN <<>> : <<>>[i] \in [type : {type}, part : Nat]} = {} OBVIOUS
  <1> QED BY <1>1, FS_EmptySet DEF Count, Among

(* messages of other types do not count                                    *)
LEMMA UpwardQuiet ==
    ASSUME TypeOK, NumberedInv, inbox' = inbox,
           \/ toWorker' = toWorker
           \/ \E type \in Types \ {"message"} : Gets(type) \/ toWorker' = Append(toWorker, Numbered(type, 0))
    PROVE  NumberedInv' /\ Count(toWorker', "message") = Count(toWorker, "message")
  <1>1. toWorker \in Seq(WireMessage) BY DEF TypeOK, DataOK
  <1>2. CASE toWorker' = toWorker BY <1>2, Zenon DEF NumberedInv
  <1>3. ASSUME NEW type \in Types \ {"message"}, Gets(type)
        PROVE  NumberedInv' /\ Count(toWorker', "message") = Count(toWorker, "message")
    <2>1. toWorker # <<>> /\ toWorker' = Tail(toWorker) /\ Head(toWorker).type # "message"
      BY <1>3 DEF Gets
    <2>2. /\ Len(toWorker) \in Nat \ {0} /\ Len(toWorker') = Len(toWorker) - 1
          /\ toWorker' \in Seq(WireMessage)
          /\ \A i \in 1..(Len(toWorker) - 1) : toWorker'[i] = toWorker[i + 1]
      BY <1>1, <2>1, QueueTaken
    <2>3. \A i \in 1..(Len(toWorker) - 1) : i + 1 \in 1..Len(toWorker) BY <2>2
    <2>4. NumberedInv' BY <2>2, <2>3 DEF NumberedInv
    <2>5. Count(toWorker, "message") = Count(toWorker', "message") + 0 BY <1>1, <2>1, CountsChange
    <2>6. Count(toWorker', "message") \in Nat BY <2>2, CountsChange
    <2>7. \A k \in Nat : k + 0 = k OBVIOUS
    <2> QED BY <2>4, <2>5, <2>6, <2>7
  <1>4. ASSUME NEW type \in Types \ {"message"}, toWorker' = Append(toWorker, Numbered(type, 0))
        PROVE  NumberedInv' /\ Count(toWorker', "message") = Count(toWorker, "message")
    <2>1. Numbered(type, 0) \in WireMessage /\ Numbered(type, 0).type # "message" BY <1>4, MessagesTyped
    <2>2. /\ Len(toWorker) \in Nat /\ Len(toWorker') = Len(toWorker) + 1
          /\ toWorker'[Len(toWorker) + 1] = Numbered(type, 0)
          /\ \A i \in 1..Len(toWorker) : toWorker'[i] = toWorker[i]
      BY <1>1, <1>4, <2>1, QueueAppended
    <2>3. \A i \in 1..(Len(toWorker) + 1) : i \in 1..Len(toWorker) \/ i = Len(toWorker) + 1 BY <2>2
    <2>4. NumberedInv' BY <1>4, <2>1, <2>2, <2>3 DEF NumberedInv
    <2>5. Count(toWorker', "message") = Count(toWorker, "message") + 0 BY <1>1, <1>4, <2>1, CountsChange
    <2>6. Count(toWorker, "message") \in Nat BY <1>1, CountsChange
    <2> QED BY <2>4, <2>5, <2>6
  <1> QED BY <1>2, <1>3, <1>4

LEMMA AcksQuiet ==
    ASSUME TypeOK,
           \/ toServer' = toServer
           \/ \E type \in Types \ {"wsAck"} :
                 Serves(type) \/ \E n \in Nat : toServer' = Append(toServer, Numbered(type, n))
    PROVE  Count(toServer', "wsAck") = Count(toServer, "wsAck")
  <1>1. toServer \in Seq(WireMessage) BY DEF TypeOK, DataOK
  <1>2. CASE toServer' = toServer BY <1>2
  <1>3. ASSUME NEW type \in Types \ {"wsAck"}, Serves(type)
        PROVE  Count(toServer', "wsAck") = Count(toServer, "wsAck")
    <2>1. toServer # <<>> /\ toServer' = Tail(toServer) /\ Head(toServer).type # "wsAck"
      BY <1>3 DEF Serves
    <2>2. toServer' \in Seq(WireMessage) BY <1>1, <2>1, QueueTaken
    <2>3. Count(toServer, "wsAck") = Count(toServer', "wsAck") + 0 BY <1>1, <2>1, CountsChange
    <2>4. Count(toServer', "wsAck") \in Nat BY <2>2, CountsChange
    <2>5. \A k \in Nat : k + 0 = k OBVIOUS
    <2> QED BY <2>3, <2>4, <2>5
  <1>4. ASSUME NEW type \in Types \ {"wsAck"}, NEW n \in Nat, toServer' = Append(toServer, Numbered(type, n))
        PROVE  Count(toServer', "wsAck") = Count(toServer, "wsAck")
    <2>1. Numbered(type, n) \in WireMessage /\ Numbered(type, n).type # "wsAck" BY <1>4, MessagesTyped
    <2>2. Count(toServer', "wsAck") = Count(toServer, "wsAck") + 0 BY <1>1, <1>4, <2>1, CountsChange
    <2>3. Count(toServer, "wsAck") \in Nat BY <1>1, CountsChange
    <2> QED BY <2>2, <2>3
  <1> QED BY <1>2, <1>3, <1>4

LEMMA LoadTyped ==
    ASSUME TypeOK
    PROVE  /\ Count(toWorker, "message") \in Nat /\ Len(inbox) \in Nat /\ Busy \in {0, 1}
           /\ Count(toServer, "wsAck") \in Nat /\ Load \in Nat /\ unacked \in Int
           /\ Window \in Nat \ {0} /\ Together \in Nat \ {0}
  <1>1. Count(toWorker, "message") \in Nat /\ Count(toServer, "wsAck") \in Nat
    BY CountsChange DEF TypeOK, DataOK
  <1>2. Busy \in {0, 1} BY DEF Busy
  <1>3. Len(inbox) \in Nat /\ unacked \in Int BY DEF TypeOK, DataOK
  <1>4. Window \in Nat \ {0} /\ Together \in Nat \ {0} BY SizesAssumption
  <1> QED BY <1>1, <1>2, <1>3, <1>4 DEF Load

(* a step that the pace does not depend on                                 *)
LEMMA PaceQuiet ==
    ASSUME TypeOK, PaceInv, UNCHANGED <<inbox, handling>>,
           \/ toWorker' = toWorker
           \/ \E type \in Types \ {"message"} : Gets(type) \/ toWorker' = Append(toWorker, Numbered(type, 0)),
           leased' /\ process' = "up" =>
               /\ leased /\ process = "up" /\ unacked' = unacked
               /\ \/ toServer' = toServer
                  \/ \E type \in Types \ {"wsAck"} :
                        Serves(type) \/ \E n \in Nat : toServer' = Append(toServer, Numbered(type, n))
               /\ socket' = "open" /\ ~closing' => socket = "open" /\ ~closing /\ paused' = paused
    PROVE  PaceInv'
  <1>1. NumberedInv' /\ Count(toWorker', "message") = Count(toWorker, "message")
    BY UpwardQuiet DEF PaceInv
  <1>2. ASSUME leased', process' = "up" PROVE Paced'
    <2>1. Count(toServer', "wsAck") = Count(toServer, "wsAck") BY <1>2, AcksQuiet
    <2>2. Load' = Load BY <1>1, <2>1, Zenon DEF Load, Busy
    <2>3. Paced BY <1>2 DEF PaceInv
    <2>4. unacked' = unacked BY <1>2
    <2>5. unacked' = Load' /\ unacked' < Window + Together BY <2>2, <2>3, <2>4 DEF Paced
    <2>6. ASSUME socket' = "open", ~closing' PROVE paused' <=> unacked' >= Window
      <3>1. (paused' <=> paused) /\ socket = "open" /\ ~closing BY <1>2, <2>6
      <3>2. paused <=> unacked >= Window BY <2>3, <3>1 DEF Paced
      <3> QED BY <2>4, <3>1, <3>2, Zenon
    <2> QED BY <2>5, <2>6 DEF Paced
  <1> QED BY <1>1, <1>2 DEF PaceInv

LEMMA PaceInitially == Init => PaceInv
  <1> SUFFICES ASSUME Init PROVE PaceInv OBVIOUS
  <1>1. toWorker = <<>> /\ inbox = <<>> /\ ~leased BY DEF Init
  <1>2. \A q : q = <<>> => Len(q) = 0 OBVIOUS
  <1>3. NumberedInv BY <1>1, <1>2 DEF NumberedInv
  <1> QED BY <1>1, <1>3 DEF PaceInv

(* all of a chunk is sent, of which the server waits for acknowledgements  *)
LEMMA PaceReceive == ASSUME TypeOK, PaceInv, Receive PROVE PaceInv'
  <1> USE DEF sessionVars, contextVars, messageVars, NotServed, slotVars
  <1>1. PICK n \in 1..Together :
           /\ n <= Len(incoming)
           /\ \A i \in 1..n : incoming[i] # CloseFrame
           /\ unacked' = unacked + n
           /\ toWorker' = IF process = "closed" THEN toWorker ELSE toWorker \o Chunk(n)
    BY DEF Receive, Chunk
  <1>2. n \in 0..Len(incoming) /\ n \in Nat /\ n <= Together BY <1>1, SizesAssumption DEF TypeOK, DataOK
  <1>3. toWorker \in Seq(WireMessage) BY DEF TypeOK, DataOK
  <1>4. /\ Chunk(n) \in Seq(WireMessage) /\ Len(Chunk(n)) = n
        /\ \A i \in 1..n : Chunk(n)[i].type = "message" /\ Chunk(n)[i].part # 0
    BY <1>1, <1>2, ChunkTyped DEF CloseFrame
  <1>5. UNCHANGED <<inbox, handling, toServer, leased, process, socket, closing>> BY DEF Receive
  <1>6. NumberedInv'
    <2>1. CASE process = "closed" BY <1>1, <1>5, <2>1, Zenon DEF PaceInv, NumberedInv
    <2>2. CASE toWorker' = toWorker \o Chunk(n)
      <3>1. /\ Len(toWorker) \in Nat /\ Len(toWorker') = Len(toWorker) + n
            /\ \A i \in 1..Len(toWorker) : toWorker'[i] = toWorker[i]
            /\ \A i \in 1..n : toWorker'[Len(toWorker) + i] = Chunk(n)[i]
        BY <1>3, <1>4, <2>2, QueueJoined
      <3>2. \A i \in 1..(Len(toWorker) + n) :
               i \in 1..Len(toWorker) \/ (i - Len(toWorker) \in 1..n /\ i = Len(toWorker) + (i - Len(toWorker)))
        BY <1>2, <3>1
      <3>3. \A i \in 1..Len(toWorker') : toWorker'[i].type = "message" => toWorker'[i].part # 0
        <4>1. \A i \in 1..Len(toWorker) : toWorker'[i].type = "message" => toWorker'[i].part # 0
          BY <3>1 DEF PaceInv, NumberedInv
        <4>2. \A i \in 1..n : toWorker'[Len(toWorker) + i].part # 0 BY <1>4, <3>1
        <4>3. \A i \in 1..(Len(toWorker) + n) : toWorker'[i].type = "message" => toWorker'[i].part # 0
          BY <3>2, <4>1, <4>2
        <4> QED BY <3>1, <4>3
      <3>4. \A i \in 1..Len(inbox') : inbox'[i] # 0 BY <1>5, Zenon DEF PaceInv, NumberedInv
      <3> QED BY <3>3, <3>4 DEF NumberedInv
    <2> QED BY <1>1, <2>1, <2>2
  <1>7. ASSUME leased, process = "up" PROVE Paced'
    <2>1. Paced /\ socket = "open" /\ ~closing /\ ~paused
      BY <1>7 DEF PaceInv, Receive, Connected
    <2>2. Count(toWorker', "message") = Count(toWorker, "message") + n
      <3> DEFINE S == [type : {"message"}, part : Nat]
      <3>1. \A i \in 1..Len(Chunk(n)) : Chunk(n)[i] \in S
        <4>1. \A i \in 1..n : Chunk(n)[i] \in WireMessage BY <1>4
        <4> QED BY <1>4, <4>1 DEF WireMessage
      <3>2. toWorker' = toWorker \o Chunk(n) BY <1>1, <1>7
      <3>3. Count(toWorker', "message") = Among(toWorker', S) /\ Count(toWorker, "message") = Among(toWorker, S)
        BY DEF Count
      <3> HIDE DEF S
      <3>4. Among(toWorker \o Chunk(n), S) = Among(toWorker, S) + Len(Chunk(n))
        BY <1>3, <1>4, <3>1, CountJoined
      <3> QED BY <1>4, <3>2, <3>3, <3>4
    <2>3. Load' = (Count(toWorker, "message") + n) + Len(inbox) + Busy + Count(toServer, "wsAck")
      BY <1>5, <2>2, Zenon DEF Load, Busy
    <2>4. Load' = Load + n BY <1>2, <2>3, LoadTyped DEF Load
    <2>5. unacked' = Load' BY <1>1, <2>1, <2>4 DEF Paced
    <2>6. unacked < Window BY <2>1, LoadTyped DEF Paced
    <2>7. unacked + n < Window + Together BY <1>2, <2>6, LoadTyped
    <2>8. unacked' < Window + Together BY <1>1, <2>7
    <2>9. paused' <=> unacked' >= Window BY Zenon DEF Receive
    <2> QED BY <2>5, <2>8, <2>9 DEF Paced
  <1> QED BY <1>5, <1>6, <1>7 DEF PaceInv

(* an acknowledgement is counted when it is taken                          *)
LEMMA PaceTaken == ASSUME TypeOK, PaceInv, Taken PROVE PaceInv'
  <1>1. /\ Serves("wsAck") /\ toWorker' = toWorker
        /\ unacked' = unacked - 1
        /\ UNCHANGED <<leased, socket, closing>>
    BY DEF Taken
  <1>2. UNCHANGED <<inbox, handling, process>> BY <1>1 DEF Serves, sessionVars, messageVars
  <1>3. NumberedInv' BY <1>1, <1>2, Zenon DEF PaceInv, NumberedInv
  <1>4. ASSUME leased, process = "up" PROVE Paced'
    <2>1. Paced BY <1>4 DEF PaceInv
    <2>2. toServer \in Seq(WireMessage) /\ toServer # <<>> /\ toServer' = Tail(toServer)
          /\ Head(toServer).type = "wsAck"
      BY <1>1 DEF Serves, TypeOK, DataOK
    <2>3. Count(toServer, "wsAck") = Count(toServer', "wsAck") + 1 BY <2>2, CountsChange
    <2>4. Count(toServer', "wsAck") \in Nat BY <2>2, QueueTaken, CountsChange
    <2>5. \A k \in Nat : (k + 1) - 1 = k OBVIOUS
    <2>6. Count(toServer', "wsAck") = Count(toServer, "wsAck") - 1 BY <2>3, <2>4, <2>5
    <2>7. Load' = Count(toWorker, "message") + Len(inbox) + Busy + (Count(toServer, "wsAck") - 1)
      BY <1>1, <1>2, <2>6, Zenon DEF Load, Busy
    <2>8. Load' = Load - 1 BY <2>7, LoadTyped DEF Load
    <2>9. unacked' = Load' BY <1>1, <2>1, <2>8 DEF Paced
    <2>10. unacked - 1 < Window + Together BY <2>1, LoadTyped DEF Paced
    <2>11. unacked' < Window + Together BY <1>1, <2>10
    <2>12. ASSUME socket' = "open", ~closing' PROVE paused' <=> unacked' >= Window
      <3>1. paused <=> unacked >= Window BY <1>1, <2>1, <2>12 DEF Paced
      <3>2. unacked - 1 >= Window => unacked >= Window BY LoadTyped
      <3>3. paused' <=> (paused /\ unacked' >= Window)
        <4>1. paused' = (paused /\ (closing \/ unacked' >= Window)) BY DEF Taken
        <4>2. ~closing BY <1>1, <2>12
        <4> QED BY <4>1, <4>2, Zenon
      <3> QED BY <1>1, <3>1, <3>2, <3>3, Zenon
    <2> QED BY <2>9, <2>11, <2>12 DEF Paced
  <1> QED BY <1>1, <1>2, <1>3, <1>4 DEF PaceInv

(* the connection begins with nothing to be acknowledged                   *)
LEMMA PaceAcquired == ASSUME TypeOK, LifeInv, PaceInv, Acquired PROVE PaceInv'
  <1>1. /\ phase # "serving" /\ toWorker' = <<Msg("request")>>
        /\ UNCHANGED <<inbox, handling, toServer, unacked, paused>>
    BY DEF Acquired, sessionVars, messageVars, connectionVars
  <1>2. Unstarted /\ toWorker = <<>> BY <1>1 DEF LifeInv, RequestFirst
  <1>3. toServer = <<>> /\ inbox = <<>> /\ handling = 0 BY <1>2 DEF LifeInv, RequestFirst
  <1>4. unacked = 0 /\ ~paused
    <2>1. ~opened BY <1>2 DEF Unstarted, LifeInv, AnswerFirst
    <2> QED BY <2>1 DEF LifeInv, AnswerFirst
  <1>5. toWorker' = Append(toWorker, Numbered("request", 0)) BY <1>1, <1>2, Plain
  <1>6. NumberedInv' /\ Count(toWorker', "message") = Count(toWorker, "message")
    BY <1>1, <1>5, UpwardQuiet DEF PaceInv, Types
  <1>7. Load' = 0 + Len(inbox) + 0 + 0
    <2>1. Count(toWorker', "message") = 0 /\ Count(toServer', "wsAck") = 0
      BY <1>1, <1>2, <1>3, <1>6, CountOfNone
    <2>2. Busy' = 0 BY <1>1, <1>3 DEF Busy
    <2> QED BY <1>1, <2>1, <2>2, Zenon DEF Load
  <1>8. Len(inbox) = 0 BY <1>3
  <1>9. Load' = 0 BY <1>7, <1>8
  <1>10. unacked' = 0 /\ ~paused' BY <1>1, <1>4
  <1>11. 0 < Window + Together /\ ~(0 >= Window) BY LoadTyped
  <1>12. Paced' BY <1>9, <1>10, <1>11, Zenon DEF Paced
  <1> QED BY <1>6, <1>12 DEF PaceInv

(* a message goes on from the queue to the chain                           *)
LEMMA PaceMessage == ASSUME TypeOK, PaceInv, Message PROVE PaceInv'
  <1> DEFINE m == Head(toWorker)
  <1>1. /\ toWorker \in Seq(WireMessage) /\ toWorker # <<>> /\ toWorker' = Tail(toWorker)
        /\ m.type = "message" /\ inbox \in Seq(Nat) /\ inbox' = Append(inbox, m.part)
        /\ UNCHANGED <<handling, toServer, unacked, leased, process, socket, closing, paused>>
    BY DEF Message, Gets, NotWorker, connectionVars, TypeOK, DataOK
  <1>2. /\ Len(toWorker) \in Nat \ {0} /\ Len(toWorker') = Len(toWorker) - 1 /\ m = toWorker[1]
        /\ toWorker' \in Seq(WireMessage) /\ m \in WireMessage
        /\ \A i \in 1..(Len(toWorker) - 1) : toWorker'[i] = toWorker[i + 1]
    BY <1>1, QueueTaken
  <1>3. m.part \in Nat /\ m.part # 0
    <2>1. 1 \in 1..Len(toWorker) BY <1>2
    <2> QED BY <1>1, <1>2, <2>1, MessagesTyped DEF PaceInv, NumberedInv
  <1>4. /\ Len(inbox) \in Nat /\ Len(inbox') = Len(inbox) + 1
        /\ inbox'[Len(inbox) + 1] = m.part /\ \A i \in 1..Len(inbox) : inbox'[i] = inbox[i]
    BY <1>1, <1>3, QueueAppended
  <1>5. NumberedInv'
    <2>1. \A i \in 1..(Len(toWorker) - 1) : i + 1 \in 1..Len(toWorker) BY <1>2
    <2>2. \A i \in 1..Len(toWorker') : toWorker'[i].type = "message" => toWorker'[i].part # 0
      BY <1>2, <2>1 DEF PaceInv, NumberedInv
    <2>3. \A i \in 1..(Len(inbox) + 1) : i \in 1..Len(inbox) \/ i = Len(inbox) + 1 BY <1>4
    <2>4. \A i \in 1..Len(inbox') : inbox'[i] # 0 BY <1>3, <1>4, <2>3 DEF PaceInv, NumberedInv
    <2> QED BY <2>2, <2>4 DEF NumberedInv
  <1>6. Load' = Load
    <2>1. Count(toWorker, "message") = Count(toWorker', "message") + 1 BY <1>1, CountsChange
    <2>2. Count(toWorker', "message") \in Nat BY <1>2, CountsChange
    <2>3. \A k \in Nat : (k + 1) - 1 = k OBVIOUS
    <2>4. Count(toWorker', "message") = Count(toWorker, "message") - 1 BY <2>1, <2>2, <2>3
    <2>5. Load' = (Count(toWorker, "message") - 1) + (Len(inbox) + 1) + Busy + Count(toServer, "wsAck")
      BY <1>1, <1>4, <2>4, Zenon DEF Load, Busy
    <2> QED BY <2>5, LoadTyped DEF Load
  <1>7. leased' /\ process' = "up" => Paced' BY <1>1, <1>6, Zenon DEF PaceInv, Paced
  <1> QED BY <1>5, <1>7 DEF PaceInv

(* no message is dropped as long as the connection has its lease           *)
LEMMA PaceHandleNext == ASSUME TypeOK, LifeInv, PaceInv, HandleNext PROVE PaceInv'
  <1>1. /\ inbox \in Seq(Nat) /\ inbox # <<>> /\ inbox' = Tail(inbox) /\ handling = 0
        /\ IF ws THEN handling' = Head(inbox) ELSE handling' = handling
        /\ UNCHANGED <<toWorker, toServer, unacked, leased, process, socket, closing, paused>>
    BY DEF HandleNext, Works, NotWorker, connectionVars, TypeOK, DataOK
  <1>2. /\ Len(inbox) \in Nat \ {0} /\ Len(inbox') = Len(inbox) - 1 /\ Head(inbox) = inbox[1]
        /\ \A i \in 1..(Len(inbox) - 1) : inbox'[i] = inbox[i + 1]
    BY <1>1, QueueTaken
  <1>3. NumberedInv'
    <2>1. \A i \in 1..(Len(inbox) - 1) : i + 1 \in 1..Len(inbox) BY <1>2
    <2>2. \A i \in 1..Len(inbox') : inbox'[i] # 0 BY <1>2, <2>1 DEF PaceInv, NumberedInv
    <2>3. \A i \in 1..Len(toWorker') : toWorker'[i].type = "message" => toWorker'[i].part # 0
      BY <1>1, Zenon DEF PaceInv, NumberedInv
    <2> QED BY <2>2, <2>3 DEF NumberedInv
  <1>4. ASSUME leased, process = "up" PROVE Paced'
    <2>1. ws
      <3>1. opened BY <1>1 DEF LifeInv, AnswerFirst
      <3>2. answer = "accepted" BY <3>1 DEF LifeInv, AnswerFirst
      <3>3. closedSeen = 0 BY <1>4 DEF LifeInv, ToldOnce
      <3> QED BY <3>2, <3>3 DEF LifeInv, ToldOnce, Unstarted
    <2>2. handling' # 0
      <3>1. 1 \in 1..Len(inbox) BY <1>2
      <3> QED BY <1>1, <1>2, <2>1, <3>1 DEF PaceInv, NumberedInv
    <2>3. Busy = 0 /\ Busy' = 1 BY <1>1, <2>2 DEF Busy
    <2>4. Load' = Count(toWorker, "message") + (Len(inbox) - 1) + 1 + Count(toServer, "wsAck")
      BY <1>1, <1>2, <2>3, Zenon DEF Load
    <2>5. Load' = Load BY <2>3, <2>4, LoadTyped DEF Load
    <2> QED BY <1>1, <1>4, <2>5, Zenon DEF PaceInv, Paced
  <1> QED BY <1>1, <1>3, <1>4 DEF PaceInv

(* what was handled is acknowledged                                        *)
LEMMA PaceHandleDone == ASSUME TypeOK, PaceInv, HandleDone PROVE PaceInv'
  <1>1. /\ handling # 0 /\ handling' = 0
        /\ toServer \in Seq(WireMessage) /\ toServer' = Append(toServer, Msg("wsAck"))
        /\ UNCHANGED <<inbox, toWorker, unacked, leased, process, socket, closing, paused>>
    BY DEF HandleDone, Works, NotWorker, connectionVars, TypeOK, DataOK
  <1>2. Msg("wsAck") \in WireMessage /\ Msg("wsAck").type = "wsAck" BY MessagesTyped DEF Types
  <1>3. Count(toServer', "wsAck") = Count(toServer, "wsAck") + 1 BY <1>1, <1>2, CountsChange
  <1>4. Busy = 1 /\ Busy' = 0 BY <1>1 DEF Busy
  <1>5. Load' = Count(toWorker, "message") + Len(inbox) + 0 + (Count(toServer, "wsAck") + 1)
    BY <1>1, <1>3, <1>4, Zenon DEF Load
  <1>6. Load' = Load BY <1>4, <1>5, LoadTyped DEF Load
  <1>7. leased' /\ process' = "up" => Paced' BY <1>1, <1>6, Zenon DEF PaceInv, Paced
  <1>8. NumberedInv' BY <1>1, Zenon DEF PaceInv, NumberedInv
  <1> QED BY <1>7, <1>8 DEF PaceInv

LEMMA PaceStep == ASSUME TypeOK, LifeInv, PaceInv, [Next]_vars PROVE PaceInv'
  <1> USE DEF NotServed, NotClient, NotWorker, slotVars, clientVars, connectionVars, sessionVars,
              contextVars, messageVars
  <1>1. CASE UNCHANGED vars BY <1>1, PaceQuiet DEF vars
  <1>2. CASE OthersCome \/ OthersGo \/ Resolved \/ NoWorker
    BY <1>2, PaceQuiet DEF OthersCome, OthersGo, Resolved, NoWorker
  <1>3. CASE ReceiveClose \/ ReceiveIgnored \/ StartsClose
    BY <1>3, PaceQuiet DEF ReceiveClose, ReceiveIgnored, StartsClose, StartClose
  <1>4. CASE SocketClosed
    <2>1. \/ toWorker' = toWorker
          \/ \E type \in Types \ {"message"} : toWorker' = Append(toWorker, Numbered(type, 0))
      BY <1>4, Plain DEF SocketClosed, Send, Types
    <2>2. ~leased' /\ UNCHANGED <<inbox, handling>> BY <1>4 DEF SocketClosed, Cleanup
    <2> QED BY <2>1, <2>2, PaceQuiet
  <1>5. CASE Dropped \/ Refused
    <2>1. ~leased' /\ UNCHANGED <<inbox, handling, toWorker>>
      BY <1>5 DEF Dropped, Refused, Serves, Cleanup
    <2> QED BY <2>1, PaceQuiet
  <1>6. CASE Accepted
    <2>1. Serves("response") /\ UNCHANGED <<leased, socket, closing, paused, unacked, toWorker>>
      BY <1>6 DEF Accepted
    <2>2. UNCHANGED <<inbox, handling, process>> BY <2>1 DEF Serves
    <2>3. "response" \in Types \ {"wsAck"} BY DEF Types
    <2> QED BY <2>1, <2>2, <2>3, PaceQuiet
  <1>7. CASE PassOn \/ ClosedByWorker
    <2>1. PICK type \in Types \ {"wsAck"} : Serves(type)
      BY <1>7 DEF PassOn, ClosedByWorker, Types
    <2>2. UNCHANGED <<inbox, handling, process>> BY <2>1 DEF Serves
    <2>3. /\ UNCHANGED <<leased, socket, unacked, toWorker>>
          /\ ~closing' => ~closing /\ paused' = paused
      BY <1>7 DEF PassOn, ClosedByWorker, StartClose
    <2> QED BY <2>1, <2>2, <2>3, PaceQuiet
  <1>8. CASE Exited
    BY <1>8, PaceQuiet DEF Exited
  <1>9. CASE ClientSays \/ ClientSilent
    BY <1>9, PaceQuiet DEF ClientSays, ClientSilent
  <1>10. CASE ClientTakes
    <2>1. \/ toWorker' = toWorker
          \/ \E type \in Types \ {"message"} : toWorker' = Append(toWorker, Numbered(type, 0))
      BY <1>10, Plain DEF ClientTakes, Send, Types
    <2>2. UNCHANGED <<inbox, handling, leased, process, unacked, toServer, socket, closing, paused>>
      BY <1>10 DEF ClientTakes
    <2> QED BY <2>1, <2>2, PaceQuiet
  <1>11. CASE ClientLeaves
    BY <1>11, PaceQuiet DEF ClientLeaves
  <1>12. CASE Exit BY <1>12, PaceQuiet DEF Exit
  <1>13. CASE Started \/ Acknowledged \/ Close
    <2>1. PICK type \in Types \ {"message"} : Gets(type)
      BY <1>13 DEF Started, Acknowledged, Close, Types
    <2>2. UNCHANGED <<inbox, handling, toServer>> BY <1>13 DEF Started, Acknowledged, Close
    <2>3. UNCHANGED <<leased, process, unacked, socket, closing, paused>> BY <2>1 DEF Gets
    <2> QED BY <2>1, <2>2, <2>3, PaceQuiet
  <1>14. CASE AcceptUpgrade \/ RefuseUpgrade \/ FunctionReturns \/ Push \/ PushClose
    <2>1. \/ toServer' = toServer
          \/ \E type \in Types \ {"wsAck"} : \E n \in Nat : toServer' = Append(toServer, Numbered(type, n))
      <3>1. CASE AcceptUpgrade \/ RefuseUpgrade \/ FunctionReturns \/ PushClose
        BY <3>1, Plain DEF AcceptUpgrade, RefuseUpgrade, FunctionReturns, PushClose, Types
      <3>2. CASE Push
        <4>1. pushed' \in Nat /\ toServer' = Append(toServer, Numbered("send", pushed'))
          BY <3>2 DEF Push, TypeOK, DataOK
        <4> QED BY <4>1 DEF Types
      <3> QED BY <1>14, <3>1, <3>2
    <2>2. UNCHANGED <<inbox, handling, toWorker, leased, process, unacked, socket, closing, paused>>
      BY <1>14 DEF AcceptUpgrade, RefuseUpgrade, FunctionReturns, Push, PushClose, Works
    <2> QED BY <2>1, <2>2, PaceQuiet
  <1> QED
    BY <1>1, <1>2, <1>3, <1>4, <1>5, <1>6, <1>7, <1>8, <1>9, <1>10, <1>11, <1>12, <1>13, <1>14,
       PaceReceive, PaceTaken, PaceAcquired, PaceMessage, PaceHandleNext, PaceHandleDone
    DEF Next, ServerStep, SessionStep, GoingAway, Idle, CloseTimeout, NoticeGone

LEMMA PaceInvariant == Spec => [](TypeOK /\ LifeInv /\ PaceInv)
  <1>1. PaceInv /\ TypeOK /\ LifeInv /\ [Next]_vars => PaceInv' BY PaceStep
  <1> QED BY <1>1, PaceInitially, LifeInvariant, PTL DEF Spec

(* Neither side of a websocket runs away from the other, for any window    *)
(* and any size of a chunk: what the server counts as unacknowledged is on *)
(* its way, waits, is handled or is acknowledged, so a client that is      *)
(* paused is resumed, and there is never more of it than the window and    *)
(* the chunk that filled it.                                               *)
THEOREM ClientIsPaced == Spec => []ClientPaced
  <1>1. TypeOK /\ PaceInv => ClientPaced
    <2> SUFFICES ASSUME TypeOK, PaceInv, leased, process = "up"
                 PROVE  /\ unacked = Load
                        /\ unacked < Window + Together
                        /\ (socket = "open" /\ ~closing) => paused = (unacked >= Window)
      BY DEF ClientPaced, Load, Busy
    <2>1. Paced BY DEF PaceInv
    <2>2. ASSUME socket = "open", ~closing PROVE paused = (unacked >= Window)
      <3> DEFINE Full == unacked >= Window
      <3>1. paused <=> Full BY <2>1, <2>2 DEF Paced
      <3>2. paused = TRUE \/ paused = FALSE BY DEF TypeOK, FlagsOK
      <3>3. Full = TRUE \/ Full = FALSE OBVIOUS
      <3> HIDE DEF Full
      <3>4. paused = Full BY <3>1, <3>2, <3>3, Zenon
      <3> QED BY <3>4 DEF Full
    <2> QED BY <2>1, <2>2 DEF Paced
  <1> QED BY <1>1, PaceInvariant, PTL

-----------------------------------------------------------------------------
(* The order of what the client says                                       *)

UpTyped ==
    /\ Len(started) \in Nat /\ Len(inbox) \in Nat /\ Len(incoming) \in Nat
    /\ Len(started) + Len(inbox) + 1 \in Int
    /\ said \in Nat /\ toWorker \in Seq(WireMessage)

LEMMA UpTypes == ASSUME TypeOK PROVE UpTyped
  BY DEF TypeOK, DataOK, UpTyped

LEMMA UpInitially == Init => UpInv
  <1> SUFFICES ASSUME Init PROVE UpInv OBVIOUS
  <1>1. /\ Len(started) = 0 /\ Len(inbox) = 0 /\ Len(incoming) = 0 /\ said = 0 /\ Messages \in Nat
        /\ toWorker = <<>>
    BY SizesAssumption DEF Init
  <1>2. Consecutive(<<>>, "message", 1, 1 - 1) BY NothingIn, ConsecutiveNone
  <1>3. UpTo(0)
    <2>1. Unread(0) BY <1>1 DEF Unread
    <2> QED BY <1>1, <1>2, <2>1 DEF UpTo
  <1> QED BY <1>1, <1>3 DEF UpInv

(* messages of other types leave the row as it is                          *)
LEMMA RowQuiet ==
    ASSUME TypeOK, NEW low \in Int, NEW high \in Int, Consecutive(toWorker, "message", low, high),
           \/ toWorker' = toWorker
           \/ \E type \in Types \ {"message"} : Gets(type) \/ toWorker' = Append(toWorker, Numbered(type, 0))
    PROVE  Consecutive(toWorker', "message", low, high)
  <1>1. toWorker \in Seq(WireMessage) BY DEF TypeOK, DataOK
  <1>2. CASE toWorker' = toWorker BY <1>2
  <1>3. ASSUME NEW type \in Types \ {"message"}, Gets(type)
        PROVE  Consecutive(toWorker', "message", low, high)
    BY <1>1, <1>3, ConsecutiveTaken DEF Gets
  <1>4. ASSUME NEW type \in Types \ {"message"}, toWorker' = Append(toWorker, Numbered(type, 0))
        PROVE  Consecutive(toWorker', "message", low, high)
    <2>1. Numbered(type, 0) \in WireMessage /\ Numbered(type, 0).type # "message" BY MessagesTyped
    <2> QED BY <1>1, <1>4, <2>1, ConsecutiveAppended
  <1> QED BY <1>2, <1>3, <1>4

LEMMA UpQuiet ==
    ASSUME TypeOK, UpInv, UNCHANGED <<started, inbox, said>>,
           process' = "up" /\ closedSeen' = 0 =>
               /\ process = "up" /\ closedSeen = 0
               /\ \/ toWorker' = toWorker
                  \/ \E type \in Types \ {"message"} :
                        Gets(type) \/ toWorker' = Append(toWorker, Numbered(type, 0))
               /\ socket' = "open" /\ ~closing' => socket = "open" /\ ~closing /\ incoming' = incoming
    PROVE  UpInv'
  <1>1. ASSUME process' = "up", closedSeen' = 0
        PROVE  /\ \A i \in 1..Len(inbox') : inbox'[i] = Len(started') + i
               /\ \E high \in Nat : UpTo(high)'
    <2>1. PICK high \in Nat : UpTo(high) BY <1>1 DEF UpInv
    <2>2. \A i \in 1..Len(inbox') : inbox'[i] = Len(started') + i BY <1>1, Zenon DEF UpInv
    <2>3. Consecutive(toWorker', "message", Len(started) + Len(inbox) + 1, high)
      BY <1>1, <2>1, UpTypes, RowQuiet DEF UpTo, UpTyped
    <2>4. ASSUME socket' = "open", ~closing' PROVE Unread(high)'
      BY <1>1, <2>1, <2>4, Zenon DEF UpTo, Unread
    <2>5. UpTo(high)' BY <2>1, <2>3, <2>4, Zenon DEF UpTo
    <2> QED BY <2>2, <2>5
  <1>2. (\A i \in 1..Len(started') : started'[i] = i) /\ said' <= Messages BY Zenon DEF UpInv
  <1> QED BY <1>1, <1>2, Zenon DEF UpInv

(* what is read goes on in the order in which it was said                  *)
LEMMA UpReceive == ASSUME TypeOK, UpInv, Receive PROVE UpInv'
  <1> USE DEF sessionVars, contextVars, messageVars, NotServed, slotVars
  <1>1. PICK n \in 1..Together :
           /\ n <= Len(incoming)
           /\ \A i \in 1..n : incoming[i] # CloseFrame
           /\ incoming' = SubSeq(incoming, n + 1, Len(incoming))
           /\ toWorker' = IF process = "closed" THEN toWorker ELSE toWorker \o Chunk(n)
    BY DEF Receive, Chunk
  <1>2. n \in 0..Len(incoming) /\ n \in Nat BY <1>1, SizesAssumption DEF TypeOK, DataOK
  <1>3. /\ Chunk(n) \in Seq(WireMessage) /\ Len(Chunk(n)) = n
        /\ \A i \in 1..n : Chunk(n)[i].type = "message" /\ Chunk(n)[i].part = incoming[i]
        /\ Len(incoming') = Len(incoming) - n
        /\ \A i \in 1..(Len(incoming) - n) : incoming'[i] = incoming[n + i]
    BY <1>1, <1>2, ChunkTyped
  <1>4. /\ UNCHANGED <<inbox, started, said, process, closedSeen, socket, closing>>
        /\ socket = "open" /\ ~closing
    BY DEF Receive, Connected
  <1>5. UpTyped BY UpTypes
  <1>6. ASSUME process = "up", closedSeen = 0 PROVE \E high \in Nat : UpTo(high)'
    <2>1. PICK high \in Nat : UpTo(high) BY <1>6 DEF UpInv
    <2>2. Unread(high) /\ high <= said /\ Consecutive(toWorker, "message", Len(started) + Len(inbox) + 1, high)
      BY <1>4, <2>1 DEF UpTo
    <2>3. \A i \in 1..n : i \in 1..Len(incoming) BY <1>2
    <2>4. \A i \in 1..n : Chunk(n)[i].type = "message" /\ Chunk(n)[i].part = high + i
      BY <1>1, <1>3, <2>2, <2>3 DEF Unread
    <2>5. toWorker' = toWorker \o Chunk(n) BY <1>1, <1>6
    <2>6. Consecutive(toWorker', "message", Len(started) + Len(inbox) + 1, high + n)
      <3> DEFINE low == Len(started) + Len(inbox) + 1
      <3>1. low \in Int /\ high \in Int /\ toWorker \in Seq(WireMessage) BY <1>5 DEF UpTyped
      <3>2. Consecutive(toWorker, "message", low, high) BY <2>2
      <3> HIDE DEF low
      <3>3. \A i \in 1..Len(Chunk(n)) : Chunk(n)[i].type = "message" /\ Chunk(n)[i].part = high + i
        BY <1>3, <2>4
      <3>4. Consecutive(toWorker \o Chunk(n), "message", low, high + Len(Chunk(n)))
        BY <1>3, <3>1, <3>2, <3>3, ConsecutiveJoined
      <3> QED BY <1>3, <2>5, <3>4 DEF low
    <2>7. \A i \in 1..(Len(incoming) - n) : n + i \in 1..Len(incoming) /\ high + (n + i) = (high + n) + i
      BY <1>2, <1>5 DEF UpTyped
    <2>8. \A i \in 1..(Len(incoming) - n) :
             IF incoming'[i] = CloseFrame
             THEN i = Len(incoming) - n
             ELSE incoming'[i] = (high + n) + i /\ incoming'[i] <= said
      <3> SUFFICES ASSUME NEW i \in 1..(Len(incoming) - n)
                   PROVE IF incoming'[i] = CloseFrame
                         THEN i = Len(incoming) - n
                         ELSE incoming'[i] = (high + n) + i /\ incoming'[i] <= said
        OBVIOUS
      <3>1. /\ incoming'[i] = incoming[n + i] /\ n + i \in 1..Len(incoming)
            /\ high + (n + i) = (high + n) + i
        BY <1>3, <2>7
      <3>2. CASE incoming[n + i] = CloseFrame
        <4>1. n + i = Len(incoming) BY <2>2, <3>1, <3>2 DEF Unread
        <4>2. i = Len(incoming) - n BY <1>2, <4>1
        <4> QED BY <3>1, <3>2, <4>2
      <3>3. CASE incoming[n + i] # CloseFrame
        <4>1. incoming[n + i] = high + (n + i) /\ incoming[n + i] <= said
          BY <2>2, <3>1, <3>3 DEF Unread
        <4> QED BY <3>1, <3>3, <4>1
      <3> QED BY <3>2, <3>3
    <2>9. ASSUME ~Contains(incoming', CloseFrame) PROVE said = (high + n) + (Len(incoming) - n)
      <3>1. \A i \in 1..Len(incoming) : i \in 1..n \/ (i - n \in 1..(Len(incoming) - n) /\ n + (i - n) = i)
        BY <1>2, <1>5 DEF UpTyped
      <3>2. \A i \in 1..(Len(incoming) - n) : incoming[n + i] # CloseFrame
        BY <1>3, <2>9 DEF Contains
      <3>3. ~Contains(incoming, CloseFrame) BY <1>1, <3>1, <3>2 DEF Contains
      <3>4. said = high + Len(incoming) BY <2>2, <3>3 DEF Unread
      <3> QED BY <1>2, <1>5, <3>4 DEF UpTyped
    <2>10. Unread(high + n)' BY <1>3, <1>4, <2>8, <2>9, Zenon DEF Unread
    <2>11. high + n <= said
      <3>1. n \in 1..n /\ n \in 1..Len(incoming) BY <1>1, <1>2, SizesAssumption
      <3> QED BY <1>1, <2>2, <3>1 DEF Unread
    <2>12. UpTo(high + n)' BY <1>4, <2>6, <2>10, <2>11, Zenon DEF UpTo
    <2> QED BY <1>2, <2>12
  <1> QED BY <1>4, <1>6, Zenon DEF UpInv

(* what the client says goes behind what it has said                       *)
LEMMA UpSays == ASSUME TypeOK, UpInv, ClientSays PROVE UpInv'
  <1> USE DEF NotClient, connectionVars, sessionVars, contextVars, messageVars
  <1>1. /\ UNCHANGED <<started, inbox, toWorker, process, closedSeen, socket, closing>>
        /\ ~Contains(incoming, CloseFrame)
        /\ \/ said < Messages /\ said' = said + 1 /\ incoming' = Append(incoming, said')
           \/ said' = said /\ incoming' = Append(incoming, CloseFrame)
    BY DEF ClientSays
  <1>2. PICK n \in Nat : incoming' = Append(incoming, n) /\ n \in {said', CloseFrame}
    <2>1. said + 1 \in Nat /\ CloseFrame \in Nat BY DEF TypeOK, DataOK, CloseFrame
    <2> QED BY <1>1, <2>1
  <1>3. /\ Len(incoming) \in Nat /\ Len(incoming') = Len(incoming) + 1
        /\ incoming'[Len(incoming) + 1] = n
        /\ \A i \in 1..Len(incoming) : incoming'[i] = incoming[i]
    BY <1>2, QueueAppended DEF TypeOK, DataOK
  <1>4. UpTyped BY UpTypes
  <1>5. said <= Messages /\ Messages \in Nat BY SizesAssumption DEF UpInv
  <1>6. said' \in Nat /\ said <= said' /\ said' <= Messages
    <2>1. CASE said < Messages /\ said' = said + 1
      <3>1. said + 1 \in Nat /\ said <= said + 1 /\ said + 1 <= Messages BY <1>4, <1>5, <2>1 DEF UpTyped
      <3> QED BY <2>1, <3>1
    <2>2. CASE said' = said
      <3>1. said <= said BY <1>4 DEF UpTyped
      <3> QED BY <1>4, <1>5, <2>2, <3>1 DEF UpTyped
    <2> QED BY <1>1, <2>1, <2>2
  <1>7. ASSUME process = "up", closedSeen = 0 PROVE \E high \in Nat : UpTo(high)'
    <2>1. PICK high \in Nat : UpTo(high) BY <1>7 DEF UpInv
    <2>2. high <= said /\ Consecutive(toWorker, "message", Len(started) + Len(inbox) + 1, high)
      BY <2>1 DEF UpTo
    <2>3. high <= said'
      <3>1. \A s \in Nat : said <= s => high <= s BY <1>4, <2>2 DEF UpTyped
      <3> QED BY <1>6, <3>1
    <2>4. ASSUME socket = "open", ~closing PROVE Unread(high)'
      <3>1. Unread(high) BY <2>1, <2>4 DEF UpTo
      <3>2. said = high + Len(incoming) BY <1>1, <3>1 DEF Unread
      <3>3. ASSUME NEW i \in 1..Len(incoming)
            PROVE incoming'[i] # CloseFrame /\ incoming'[i] = high + i /\ incoming'[i] <= said'
        <4>1. incoming[i] # CloseFrame BY <1>1 DEF Contains
        <4>2. incoming[i] = high + i /\ incoming[i] <= said BY <3>1, <4>1 DEF Unread
        <4>3. \A s \in Nat : said <= s => high + i <= s BY <1>4, <4>2 DEF UpTyped
        <4> QED BY <1>3, <1>6, <4>1, <4>2, <4>3
      <3>4. \A i \in 1..(Len(incoming) + 1) : i \in 1..Len(incoming) \/ i = Len(incoming) + 1 BY <1>3
      <3>5. CASE said' = said + 1 /\ n = said'
        <4>1. n = high + (Len(incoming) + 1) /\ n # CloseFrame /\ n <= said'
          <5>1. said + 1 = high + (Len(incoming) + 1) /\ said + 1 # 0 /\ said + 1 <= said + 1
            BY <1>3, <1>4, <3>2 DEF UpTyped
          <5> QED BY <3>5, <5>1 DEF CloseFrame
        <4>2. said' = high + (Len(incoming) + 1) BY <3>5, <4>1
        <4> QED BY <1>3, <3>3, <3>4, <4>1, <4>2 DEF Unread
      <3>6. CASE n = CloseFrame
        <4>1. Len(incoming) + 1 \in 1..(Len(incoming) + 1) BY <1>3
        <4>2. Contains(incoming', CloseFrame) BY <1>3, <3>6, <4>1 DEF Contains
        <4> QED BY <1>3, <3>3, <3>4, <3>6, <4>2 DEF Unread
      <3>7. said' = said + 1 \/ incoming' = Append(incoming, CloseFrame) BY <1>1
      <3>8. incoming' = Append(incoming, CloseFrame) => n = CloseFrame
        BY <1>3, QueueAppended DEF TypeOK, DataOK, CloseFrame
      <3> QED BY <1>2, <3>5, <3>6, <3>7, <3>8
    <2>5. UpTo(high)' BY <1>1, <2>2, <2>3, <2>4, Zenon DEF UpTo
    <2> QED BY <2>5
  <1>8. /\ \A i \in 1..Len(started') : started'[i] = i
        /\ process' = "up" /\ closedSeen' = 0 => \A i \in 1..Len(inbox') : inbox'[i] = Len(started') + i
    BY <1>1, Zenon DEF UpInv
  <1> QED BY <1>1, <1>6, <1>7, <1>8, Zenon DEF UpInv

(* the first message under way is the next one of the chain                *)
LEMMA UpMessage == ASSUME TypeOK, UpInv, Message PROVE UpInv'
  <1> DEFINE m == Head(toWorker)
  <1>1. /\ toWorker # <<>> /\ toWorker' = Tail(toWorker) /\ m.type = "message"
        /\ inbox \in Seq(Nat) /\ inbox' = Append(inbox, m.part)
        /\ UNCHANGED <<started, said, incoming, process, closedSeen, socket, closing>>
    BY DEF Message, Gets, NotWorker, connectionVars, clientVars, TypeOK, DataOK
  <1>2. UpTyped BY UpTypes
  <1>3. m \in WireMessage /\ m.part \in Nat BY <1>1, <1>2, QueueTaken, MessagesTyped DEF UpTyped
  <1>4. /\ Len(inbox') = Len(inbox) + 1
        /\ inbox'[Len(inbox) + 1] = m.part /\ \A i \in 1..Len(inbox) : inbox'[i] = inbox[i]
    BY <1>1, <1>3, QueueAppended
  <1>5. ASSUME process = "up", closedSeen = 0
        PROVE  /\ \A i \in 1..Len(inbox') : inbox'[i] = Len(started') + i
               /\ \E high \in Nat : UpTo(high)'
    <2>1. PICK high \in Nat : UpTo(high) BY <1>5 DEF UpInv
    <2> DEFINE low == Len(started) + Len(inbox) + 1
    <2>2. low \in Int /\ high \in Int /\ low + 1 = Len(started) + (Len(inbox) + 1) + 1
          /\ low = Len(started) + (Len(inbox) + 1)
      BY <1>2 DEF UpTyped
    <2>3. Consecutive(toWorker, "message", low, high) BY <2>1 DEF UpTo
    <2> HIDE DEF low
    <2>4. m.part = low /\ Consecutive(toWorker', "message", low + 1, high)
      BY <1>1, <1>2, <2>2, <2>3, ConsecutiveTaken DEF UpTyped
    <2>5. Consecutive(toWorker', "message", Len(started) + (Len(inbox) + 1) + 1, high) BY <2>2, <2>4
    <2>6. Consecutive(toWorker', "message", Len(started') + Len(inbox') + 1, high)
      BY <1>1, <1>4, <2>5, Zenon
    <2>7. UpTo(high)' BY <1>1, <2>1, <2>6, Zenon DEF UpTo, Unread
    <2>8. \A i \in 1..(Len(inbox) + 1) : i \in 1..Len(inbox) \/ i = Len(inbox) + 1 BY <1>2 DEF UpTyped
    <2>9. \A i \in 1..Len(inbox) : inbox[i] = Len(started) + i BY <1>5 DEF UpInv
    <2>10. \A i \in 1..Len(inbox') : inbox'[i] = Len(started) + i
      BY <1>4, <2>2, <2>4, <2>8, <2>9
    <2> QED BY <1>1, <2>7, <2>10
  <1>6. (\A i \in 1..Len(started') : started'[i] = i) /\ said' <= Messages BY <1>1, Zenon DEF UpInv
  <1> QED BY <1>1, <1>5, <1>6, Zenon DEF UpInv

(* the chain is worked off from its front, and nothing of it is dropped    *)
(* before the worker was told of the close                                 *)
LEMMA HandlesInOrder ==
    ASSUME TypeOK, LifeInv, UpInv, HandleNext
    PROVE  /\ process = "up" /\ UNCHANGED <<said, closedSeen, process>>
           /\ ws <=> closedSeen = 0
           /\ ws => /\ started' = Append(started, Head(inbox))
                    /\ Head(inbox) = Len(started) + 1 /\ Len(started) + 1 <= said
           /\ ~ws => started' = started
  <1>1. /\ inbox \in Seq(Nat) /\ inbox # <<>> /\ process = "up"
        /\ UNCHANGED <<said, closedSeen, process>>
        /\ IF ws THEN started' = Append(started, Head(inbox)) ELSE started' = started
    BY DEF HandleNext, Works, NotWorker, clientVars, TypeOK, DataOK
  <1>2. ws <=> closedSeen = 0
    <2>1. answer = "accepted" BY <1>1 DEF LifeInv, AnswerFirst
    <2> QED BY <2>1, Zenon DEF LifeInv, ToldOnce, Unstarted
  <1>3. ASSUME ws PROVE Head(inbox) = Len(started) + 1 /\ Len(started) + 1 <= said
    <2>1. PICK high \in Nat : UpTo(high) BY <1>1, <1>2, <1>3 DEF UpInv
    <2>2. Len(inbox) \in Nat \ {0} /\ Head(inbox) = inbox[1] BY <1>1, QueueTaken
    <2>3. 1 \in 1..Len(inbox) BY <2>2
    <2>4. Head(inbox) = Len(started) + 1 BY <1>1, <1>2, <1>3, <2>2, <2>3 DEF UpInv
    <2>5. high <= said /\ Len(started) + Len(inbox) + 1 <= high + 1 BY <2>1 DEF UpTo, Consecutive
    <2>6. UpTyped BY UpTypes
    <2> QED BY <2>2, <2>4, <2>5, <2>6 DEF UpTyped
  <1> QED BY <1>1, <1>2, <1>3

LEMMA UpHandleNext == ASSUME TypeOK, LifeInv, UpInv, HandleNext PROVE UpInv'
  <1>1. /\ inbox \in Seq(Nat) /\ inbox # <<>> /\ inbox' = Tail(inbox) /\ started \in Seq(Nat)
        /\ UNCHANGED <<toWorker, said, incoming, process, closedSeen, socket, closing>>
    BY DEF HandleNext, Works, NotWorker, connectionVars, clientVars, TypeOK, DataOK
  <1>2. UpTyped BY UpTypes
  <1>3. CASE ~ws
    <2>1. started' = started /\ closedSeen' # 0 BY <1>1, <1>3, HandlesInOrder
    <2> QED BY <1>1, <2>1, Zenon DEF UpInv
  <1>4. CASE ws
    <2>1. /\ started' = Append(started, Head(inbox)) /\ Head(inbox) = Len(started) + 1
          /\ process = "up" /\ closedSeen = 0
      BY <1>4, HandlesInOrder
    <2>2. /\ Len(inbox) \in Nat \ {0} /\ Len(inbox') = Len(inbox) - 1 /\ Head(inbox) \in Nat
          /\ \A i \in 1..(Len(inbox) - 1) : inbox'[i] = inbox[i + 1]
      BY <1>1, QueueTaken
    <2>3. /\ Len(started') = Len(started) + 1 /\ started'[Len(started) + 1] = Len(started) + 1
          /\ \A i \in 1..Len(started) : started'[i] = started[i]
      BY <1>1, <2>1, <2>2, QueueAppended
    <2>4. \A i \in 1..(Len(started) + 1) : i \in 1..Len(started) \/ i = Len(started) + 1
      BY <1>2 DEF UpTyped
    <2>5. \A i \in 1..Len(started') : started'[i] = i BY <2>3, <2>4 DEF UpInv
    <2>6. /\ \A i \in 1..(Len(inbox) - 1) : i + 1 \in 1..Len(inbox)
          /\ \A i \in 1..(Len(inbox) - 1) : Len(started) + (i + 1) = (Len(started) + 1) + i
          /\ (Len(started) + 1) + (Len(inbox) - 1) + 1 = Len(started) + Len(inbox) + 1
      BY <1>2, <2>2 DEF UpTyped
    <2>7. \A i \in 1..(Len(inbox) - 1) : inbox'[i] = (Len(started) + 1) + i
      BY <2>1, <2>2, <2>6 DEF UpInv
    <2>8. PICK high \in Nat : UpTo(high) BY <2>1 DEF UpInv
    <2>9. Consecutive(toWorker, "message", (Len(started) + 1) + (Len(inbox) - 1) + 1, high)
      BY <2>6, <2>8 DEF UpTo
    <2>10. UpTo(high)' BY <1>1, <2>2, <2>3, <2>8, <2>9, Zenon DEF UpTo, Unread
    <2>11. \A i \in 1..Len(inbox') : inbox'[i] = Len(started') + i BY <2>2, <2>3, <2>7, Zenon
    <2> QED BY <1>1, <2>5, <2>10, <2>11, Zenon DEF UpInv
  <1> QED BY <1>3, <1>4

LEMMA UpStep == ASSUME TypeOK, LifeInv, UpInv, [Next]_vars PROVE UpInv'
  <1> USE DEF NotServed, NotClient, NotWorker, slotVars, clientVars, connectionVars, sessionVars,
              contextVars, messageVars
  <1>1. CASE UNCHANGED vars BY <1>1, UpQuiet DEF vars
  <1>2. CASE OthersCome \/ OthersGo \/ Resolved \/ NoWorker
    BY <1>2, UpQuiet DEF OthersCome, OthersGo, Resolved, NoWorker
  <1>3. CASE Acquired
    <2>1. toWorker' = Append(toWorker, Numbered("request", 0))
      BY <1>3, Plain DEF Acquired, LifeInv, RequestFirst
    <2>2. UNCHANGED <<started, inbox, said, incoming, process, closedSeen, socket, closing>>
      BY <1>3 DEF Acquired
    <2>3. "request" \in Types \ {"message"} BY DEF Types
    <2> QED BY <2>1, <2>2, <2>3, UpQuiet
  <1>4. CASE ReceiveClose \/ StartsClose
    BY <1>4, UpQuiet DEF ReceiveClose, StartsClose, StartClose
  <1>5. CASE ReceiveIgnored
    <2>1. closing BY <1>5 DEF ReceiveIgnored, LifeInv, AnswerFirst
    <2>2. UNCHANGED <<started, inbox, said, process, closedSeen, socket, closing, toWorker>>
      BY <1>5 DEF ReceiveIgnored
    <2> QED BY <2>1, <2>2, UpQuiet
  <1>6. CASE SocketClosed
    <2>1. \/ toWorker' = toWorker
          \/ \E type \in Types \ {"message"} : toWorker' = Append(toWorker, Numbered(type, 0))
      BY <1>6, Plain DEF SocketClosed, Send, Types
    <2>2. UNCHANGED <<started, inbox, said, process, closedSeen>> /\ socket' = "closed"
      BY <1>6 DEF SocketClosed
    <2> QED BY <2>1, <2>2, UpQuiet
  <1>7. CASE Dropped \/ Accepted \/ Refused \/ Taken \/ PassOn \/ ClosedByWorker
    <2>1. PICK type : Serves(type)
      BY <1>7 DEF Dropped, Accepted, Refused, Taken, PassOn, ClosedByWorker
    <2>2. UNCHANGED <<started, inbox, said, incoming, process, closedSeen>> BY <2>1 DEF Serves
    <2>3. socket' = socket /\ toWorker' = toWorker /\ (~closing' => ~closing)
      BY <1>7 DEF Dropped, Accepted, Refused, Taken, PassOn, ClosedByWorker, StartClose
    <2> QED BY <2>2, <2>3, UpQuiet
  <1>8. CASE Exited
    <2>1. UNCHANGED <<started, inbox, said, closedSeen>> /\ process' # "up" BY <1>8 DEF Exited
    <2> QED BY <2>1, UpQuiet
  <1>9. CASE ClientTakes
    <2>1. \/ toWorker' = toWorker
          \/ \E type \in Types \ {"message"} : toWorker' = Append(toWorker, Numbered(type, 0))
      BY <1>9, Plain DEF ClientTakes, Send, Types
    <2>2. UNCHANGED <<started, inbox, said, incoming, process, closedSeen, socket, closing>>
      BY <1>9 DEF ClientTakes
    <2> QED BY <2>1, <2>2, UpQuiet
  <1>10. CASE ClientSilent \/ ClientLeaves
    BY <1>10, UpQuiet DEF ClientSilent, ClientLeaves
  <1>11. CASE Exit BY <1>11, UpQuiet DEF Exit
  <1>12. CASE Started \/ Acknowledged
    <2>1. PICK type \in Types \ {"message"} : Gets(type) BY <1>12 DEF Started, Acknowledged, Types
    <2>2. UNCHANGED <<started, inbox, closedSeen>> BY <1>12 DEF Started, Acknowledged
    <2>3. UNCHANGED <<said, incoming, process, socket, closing>> BY <2>1 DEF Gets
    <2> QED BY <2>1, <2>2, <2>3, UpQuiet
  <1>13. CASE Close
    <2>1. UNCHANGED <<started, inbox, said>> /\ closedSeen' = closedSeen + 1 BY <1>13 DEF Close, Gets
    <2>2. \A k \in Nat : k + 1 # 0 OBVIOUS
    <2>3. closedSeen' # 0 BY <2>1, <2>2 DEF TypeOK, DataOK
    <2> QED BY <2>1, <2>3, UpQuiet
  <1>14. CASE HandleDone \/ AcceptUpgrade \/ RefuseUpgrade \/ FunctionReturns \/ Push \/ PushClose
    <2>1. UNCHANGED <<started, inbox, said, incoming, process, closedSeen, socket, closing, toWorker>>
      BY <1>14
      DEF HandleDone, AcceptUpgrade, RefuseUpgrade, FunctionReturns, Push, PushClose, Works
    <2> QED BY <2>1, UpQuiet
  <1> QED
    BY <1>1, <1>2, <1>3, <1>4, <1>5, <1>6, <1>7, <1>8, <1>9, <1>10, <1>11, <1>12, <1>13, <1>14,
       UpReceive, UpSays, UpMessage, UpHandleNext
    DEF Next, ServerStep, SessionStep, GoingAway, Idle, CloseTimeout, NoticeGone

(* the messages of a side, in their order                                  *)
LEMMA NumbersGrow ==
    ASSUME NEW n \in Nat
    PROVE  /\ Numbers(n) \in Seq(Nat) /\ Len(Numbers(n)) = n
           /\ \A i \in 1..n : Numbers(n)[i] = i
           /\ Numbers(n + 1) = Append(Numbers(n), n + 1)
  <1>1. \A k \in Nat : Numbers(k) \in Seq(Nat) /\ Len(Numbers(k)) = k /\ \A i \in 1..k : Numbers(k)[i] = i
    BY DEF Numbers
  <1>2. n + 1 \in Nat OBVIOUS
  <1>3. /\ Append(Numbers(n), n + 1) \in Seq(Nat) /\ Len(Append(Numbers(n), n + 1)) = n + 1
        /\ Append(Numbers(n), n + 1)[n + 1] = n + 1
        /\ \A i \in 1..n : Append(Numbers(n), n + 1)[i] = Numbers(n)[i]
    <2> DEFINE q == Numbers(n)
    <2>1. q \in Seq(Nat) /\ Len(q) = n BY <1>1
    <2> HIDE DEF q
    <2>2. /\ Append(q, n + 1) \in Seq(Nat) /\ Len(Append(q, n + 1)) = Len(q) + 1
          /\ Append(q, n + 1)[Len(q) + 1] = n + 1
          /\ \A i \in 1..Len(q) : Append(q, n + 1)[i] = q[i]
      BY <1>2, <2>1, QueueAppended
    <2> QED BY <2>1, <2>2 DEF q
  <1>4. \A i \in 1..(n + 1) : i \in 1..n \/ i = n + 1 OBVIOUS
  <1>5. \A i \in 1..(n + 1) : Numbers(n + 1)[i] = Append(Numbers(n), n + 1)[i]
    BY <1>1, <1>2, <1>3, <1>4
  <1>6. Numbers(n + 1) \in Seq(Nat) /\ Len(Numbers(n + 1)) = n + 1 BY <1>1, <1>2
  <1>7. Numbers(n + 1) = Append(Numbers(n), n + 1) BY <1>3, <1>5, <1>6, SeqEqual
  <1> QED BY <1>1, <1>7

LEMMA UpwardInit == Init => Upward!Init
  <1> SUFFICES ASSUME Init PROVE Upward!Init OBVIOUS
  <1>1. Numbers(said) = <<>>
    <2>1. said = 0 BY DEF Init
    <2>2. Numbers(0) \in Seq(Nat) /\ Len(Numbers(0)) = 0 BY NumbersGrow
    <2> QED BY <2>1, <2>2, EmptySeq
  <1>2. started = <<>> BY DEF Init
  <1> QED BY <1>1, <1>2 DEF Upward!Init

(* Every step hands a message over, takes the next one, cuts the way or    *)
(* leaves it as it is.                                                     *)
LEMMA UpwardStep ==
    ASSUME TypeOK, LifeInv, UpInv, UpInv', [Next]_vars
    PROVE  [Upward!Next]_(Upward!vars)
  <1> USE DEF NotServed, NotClient, NotWorker, slotVars, clientVars, connectionVars, sessionVars,
              contextVars, messageVars
  <1> DEFINE Told == closedSeen > 0 \/ process # "up"
  <1>1. ASSUME said' = said, started' = started, Told => Told'
        PROVE  [Upward!Next]_(Upward!vars)
    <2>1. CASE Told' <=> Told
      BY <1>1, <2>1 DEF Upward!vars
    <2>2. CASE Told' /\ ~Told
      <3>1. Upward!Cut BY <1>1, <2>2 DEF Upward!Cut
      <3> QED BY <3>1 DEF Upward!Next
    <2> QED BY <1>1, <2>1, <2>2
  <1>2. CASE ClientSays
    <2>1. UNCHANGED <<started, process, closedSeen>> BY <1>2 DEF ClientSays
    <2>2. CASE said' = said BY <1>1, <2>1, <2>2
    <2>3. CASE said < Messages /\ said' = said + 1
      <3>1. Numbers(said') = Append(Numbers(said), said + 1) BY <2>3, NumbersGrow DEF TypeOK, DataOK
      <3>2. said + 1 \in 1..Messages BY <2>3, SizesAssumption DEF TypeOK, DataOK
      <3>3. Upward!Give BY <2>1, <3>1, <3>2 DEF Upward!Give
      <3> QED BY <3>3 DEF Upward!Next
    <2> QED BY <1>2, <2>2, <2>3 DEF ClientSays
  <1>3. CASE HandleNext
    <2>1. process = "up" /\ UNCHANGED <<said, closedSeen, process>> /\ (ws <=> closedSeen = 0)
      BY <1>3, HandlesInOrder
    <2>2. CASE ~ws
      <3>1. started' = started BY <1>3, <2>2, HandlesInOrder
      <3> QED BY <1>1, <2>1, <3>1
    <2>3. CASE ws
      <3>1. started' = Append(started, Head(inbox)) /\ Head(inbox) = Len(started) + 1
            /\ Len(started) + 1 <= said
        BY <1>3, <2>3, HandlesInOrder
      <3>2. Len(started) \in Nat /\ said \in Nat BY DEF TypeOK, DataOK
      <3>3. Len(started) < Len(Numbers(said)) /\ Numbers(said)[Len(started) + 1] = Len(started) + 1
        <4>1. Len(started) + 1 \in 1..said /\ Len(started) < said BY <3>1, <3>2
        <4>2. Len(Numbers(said)) = said /\ \A i \in 1..said : Numbers(said)[i] = i BY <3>2, NumbersGrow
        <4> QED BY <4>1, <4>2
      <3>4. ~Told /\ ~Told' BY <2>1, <2>3
      <3>5. Upward!Take BY <2>1, <3>1, <3>3, <3>4 DEF Upward!Take
      <3> QED BY <3>5 DEF Upward!Next
    <2> QED BY <2>2, <2>3
  <1>4. CASE Close \/ Exit \/ Exited
    <2>1. UNCHANGED <<said, started>> BY <1>4 DEF Close, Gets, Exit, Exited
    <2>2. Told'
      <3>1. CASE Close
        <4>1. \A k \in Nat : k + 1 > 0 OBVIOUS
        <4> QED BY <3>1, <4>1 DEF Close, TypeOK, DataOK
      <3>2. CASE Exit \/ Exited BY <3>2 DEF Exit, Exited
      <3> QED BY <1>4, <3>1, <3>2
    <2> QED BY <1>1, <2>1, <2>2
  <1>5. CASE UNCHANGED vars BY <1>1, <1>5 DEF vars
  <1>6. ASSUME UNCHANGED <<said, started, process, closedSeen>> PROVE [Upward!Next]_(Upward!vars)
    BY <1>1, <1>6
  <1>7. CASE OthersCome \/ OthersGo \/ Resolved \/ NoWorker \/ Acquired
    BY <1>6, <1>7 DEF OthersCome, OthersGo, Resolved, NoWorker, Acquired
  <1>8. CASE Receive \/ ReceiveClose \/ ReceiveIgnored \/ StartsClose \/ SocketClosed
    BY <1>6, <1>8 DEF Receive, ReceiveClose, ReceiveIgnored, StartsClose, SocketClosed
  <1>9. CASE Dropped \/ Accepted \/ Refused \/ Taken \/ PassOn \/ ClosedByWorker
    BY <1>6, <1>9 DEF Dropped, Accepted, Refused, Taken, PassOn, ClosedByWorker, Serves
  <1>10. CASE ClientTakes \/ ClientSilent \/ ClientLeaves
    BY <1>6, <1>10 DEF ClientTakes, ClientSilent, ClientLeaves
  <1>11. CASE Started \/ Message \/ Acknowledged
    BY <1>6, <1>11 DEF Started, Message, Acknowledged, Gets
  <1>12. CASE HandleDone \/ AcceptUpgrade \/ RefuseUpgrade \/ FunctionReturns \/ Push \/ PushClose
    BY <1>6, <1>12
    DEF HandleDone, AcceptUpgrade, RefuseUpgrade, FunctionReturns, Push, PushClose, Works
  <1> QED
    BY <1>2, <1>3, <1>4, <1>5, <1>7, <1>8, <1>9, <1>10, <1>11, <1>12
    DEF Next, ServerStep, SessionStep, GoingAway, Idle, CloseTimeout, NoticeGone

-----------------------------------------------------------------------------
(* The order of what the worker sends                                      *)

DownTyped ==
    /\ Len(got) \in Nat /\ Len(outgoing) \in Nat /\ pushed \in Nat
    /\ Len(got) + Len(outgoing) + 1 \in Int
    /\ got \in Seq(Nat) /\ outgoing \in Seq(Nat) /\ toServer \in Seq(WireMessage)

LEMMA DownTypes == ASSUME TypeOK PROVE DownTyped
  BY DEF TypeOK, DataOK, DownTyped

LEMMA DownInitially == Init => DownInv
  <1> SUFFICES ASSUME Init PROVE DownInv OBVIOUS
  <1>1. /\ Len(got) = 0 /\ Len(outgoing) = 0 /\ pushed = 0 /\ Pushes \in Nat /\ ~leased
    BY SizesAssumption DEF Init
  <1> QED BY <1>1 DEF DownInv, Unsent

(* messages of other types leave the row as it is                          *)
LEMMA SentRowQuiet ==
    ASSUME TypeOK, NEW low \in Int, NEW high \in Int, Consecutive(toServer, "send", low, high),
           \/ toServer' = toServer
           \/ \E type \in Types \ {"send"} : Serves(type) \/ toServer' = Append(toServer, Numbered(type, 0))
    PROVE  Consecutive(toServer', "send", low, high)
  <1>1. toServer \in Seq(WireMessage) BY DEF TypeOK, DataOK
  <1>2. CASE toServer' = toServer BY <1>2
  <1>3. ASSUME NEW type \in Types \ {"send"}, Serves(type)
        PROVE  Consecutive(toServer', "send", low, high)
    BY <1>1, <1>3, ConsecutiveTaken DEF Serves
  <1>4. ASSUME NEW type \in Types \ {"send"}, toServer' = Append(toServer, Numbered(type, 0))
        PROVE  Consecutive(toServer', "send", low, high)
    <2>1. Numbered(type, 0) \in WireMessage /\ Numbered(type, 0).type # "send" BY MessagesTyped
    <2> QED BY <1>1, <1>4, <2>1, ConsecutiveAppended
  <1> QED BY <1>2, <1>3, <1>4

LEMMA DownQuiet ==
    ASSUME TypeOK, DownInv, UNCHANGED <<got, pushed>>,
           socket' = "open" => Unsent' /\ socket = "open",
           socket' = "open" /\ ~closing' /\ leased' =>
               /\ socket = "open" /\ ~closing /\ leased /\ outgoing' = outgoing
               /\ \/ toServer' = toServer
                  \/ \E type \in Types \ {"send"} :
                        Serves(type) \/ toServer' = Append(toServer, Numbered(type, 0))
    PROVE  DownInv'
  <1>1. ASSUME socket' = "open", ~closing', leased'
        PROVE  Consecutive(toServer', "send", Len(got') + Len(outgoing') + 1, pushed')
    <2>1. Consecutive(toServer, "send", Len(got) + Len(outgoing) + 1, pushed) BY <1>1 DEF DownInv
    <2>2. Consecutive(toServer', "send", Len(got) + Len(outgoing) + 1, pushed)
      BY <1>1, <2>1, DownTypes, SentRowQuiet DEF DownTyped
    <2> QED BY <1>1, <2>2, Zenon
  <1>2. (\A i \in 1..Len(got') : got'[i] = i) /\ pushed' <= Pushes BY Zenon DEF DownInv
  <1> QED BY <1>1, <1>2, Zenon DEF DownInv

(* a socket that stays as it is                                            *)
LEMMA UnsentKept ==
    ASSUME DownInv, UNCHANGED <<got, pushed, outgoing, socket>>, closing => closing'
    PROVE  socket' = "open" => Unsent'
  BY Zenon DEF DownInv, Unsent

(* the close frame goes behind what was written                            *)
LEMMA UnsentCloses ==
    ASSUME TypeOK, DownInv, StartClose, UNCHANGED <<got, pushed, socket>>
    PROVE  socket' = "open" => Unsent'
  <1> SUFFICES ASSUME socket = "open" PROVE Unsent' OBVIOUS
  <1>1. Unsent /\ closing' BY DEF DownInv, StartClose
  <1>2. CASE closing
    <2>1. outgoing' = outgoing BY <1>2 DEF StartClose
    <2> QED BY <1>1, <2>1, Zenon DEF Unsent
  <1>3. CASE ~closing
    <2>1. outgoing' = Append(outgoing, CloseFrame) BY <1>3 DEF StartClose
    <2>2. /\ Len(outgoing) \in Nat /\ Len(outgoing') = Len(outgoing) + 1
          /\ outgoing'[Len(outgoing) + 1] = CloseFrame
          /\ \A i \in 1..Len(outgoing) : outgoing'[i] = outgoing[i]
      BY <2>1, QueueAppended DEF TypeOK, DataOK, CloseFrame
    <2>3. \A i \in 1..(Len(outgoing) + 1) : i \in 1..Len(outgoing) \/ i = Len(outgoing) + 1 BY <2>2
    <2>4. \A i \in 1..Len(outgoing) :
             outgoing'[i] # CloseFrame /\ outgoing'[i] = Len(got) + i /\ outgoing'[i] <= pushed
      BY <1>1, <1>3, <2>2 DEF Unsent
    <2>5. \A i \in 1..(Len(outgoing) + 1) :
             IF outgoing'[i] = CloseFrame
             THEN i = Len(outgoing) + 1
             ELSE outgoing'[i] = Len(got) + i /\ outgoing'[i] <= pushed
      BY <2>2, <2>3, <2>4
    <2> QED BY <1>1, <2>2, <2>5, Zenon DEF Unsent
  <1> QED BY <1>2, <1>3

(* the next message of the row is written, or the client is closed         *)
LEMMA DownPassOn == ASSUME TypeOK, DownInv, PassOn PROVE DownInv'
  <1> DEFINE m == Head(toServer)
  <1>1. /\ toServer # <<>> /\ toServer' = Tail(toServer) /\ m.type = "send"
        /\ leased /\ leased' = leased /\ socket' = socket /\ UNCHANGED <<got, pushed>>
    BY DEF PassOn, Serves, sessionVars, messageVars
  <1>2. DownTyped BY DownTypes
  <1>3. CASE closing \/ socket = "closed"
    <2>1. UNCHANGED <<outgoing, closing>> BY <1>3 DEF PassOn
    <2>2. socket' = "open" => Unsent' BY <1>1, <2>1, UnsentKept
    <2> QED BY <1>1, <1>3, <2>1, <2>2, DownQuiet
  <1>4. CASE StartClose
    <2>1. socket' = "open" => Unsent' BY <1>1, <1>4, UnsentCloses
    <2>2. closing' BY <1>4 DEF StartClose
    <2> QED BY <1>1, <2>1, <2>2, DownQuiet
  <1>5. CASE ~closing /\ socket = "open" /\ outgoing' = Append(outgoing, m.part) /\ closing' = closing
    <2> DEFINE low == Len(got) + Len(outgoing) + 1
    <2>1. low \in Int /\ pushed \in Int /\ low = Len(got) + (Len(outgoing) + 1)
          /\ low + 1 = Len(got) + (Len(outgoing) + 1) + 1
      BY <1>2 DEF DownTyped
    <2>2. Consecutive(toServer, "send", low, pushed) /\ Unsent BY <1>1, <1>5 DEF DownInv
    <2>3. m.part \in Nat BY <1>1, <1>2, QueueTaken, MessagesTyped DEF DownTyped
    <2>4. low # 0 BY <1>2 DEF DownTyped
    <2> HIDE DEF low
    <2>5. m.part = low /\ low <= pushed /\ Consecutive(toServer', "send", low + 1, pushed)
      BY <1>1, <1>2, <2>1, <2>2, ConsecutiveTaken DEF DownTyped
    <2>6. /\ Len(outgoing') = Len(outgoing) + 1
          /\ outgoing'[Len(outgoing) + 1] = m.part
          /\ \A i \in 1..Len(outgoing) : outgoing'[i] = outgoing[i]
      BY <1>2, <1>5, <2>3, QueueAppended DEF DownTyped
    <2>7. \A i \in 1..(Len(outgoing) + 1) : i \in 1..Len(outgoing) \/ i = Len(outgoing) + 1
      BY <1>2 DEF DownTyped
    <2>8. \A i \in 1..Len(outgoing) :
             outgoing'[i] # CloseFrame /\ outgoing'[i] = Len(got) + i /\ outgoing'[i] <= pushed
      BY <1>5, <2>2, <2>6 DEF Unsent
    <2>9. \A i \in 1..(Len(outgoing) + 1) :
             outgoing'[i] # CloseFrame /\ outgoing'[i] = Len(got) + i /\ outgoing'[i] <= pushed
      BY <2>1, <2>4, <2>5, <2>6, <2>7, <2>8 DEF CloseFrame
    <2>10. Unsent' BY <1>1, <2>6, <2>9, Zenon DEF Unsent
    <2>11. Consecutive(toServer', "send", Len(got) + (Len(outgoing) + 1) + 1, pushed) BY <2>1, <2>5
    <2>12. Consecutive(toServer', "send", Len(got') + Len(outgoing') + 1, pushed')
      BY <1>1, <2>6, <2>11, Zenon
    <2>13. (\A i \in 1..Len(got') : got'[i] = i) /\ pushed' <= Pushes BY <1>1, Zenon DEF DownInv
    <2> QED BY <2>10, <2>12, <2>13, Zenon DEF DownInv
  <1>6. socket = "closed" \/ socket = "open" BY DEF TypeOK, DataOK
  <1> QED BY <1>3, <1>4, <1>5, <1>6 DEF PassOn

(* what the worker sends goes behind what it has sent                      *)
LEMMA DownPush == ASSUME TypeOK, DownInv, Push PROVE DownInv'
  <1>1. /\ pushed < Pushes /\ pushed' = pushed + 1
        /\ toServer' = Append(toServer, Numbered("send", pushed'))
        /\ UNCHANGED <<got, outgoing, socket, closing, leased>>
    BY DEF Push, Works, NotWorker, clientVars, connectionVars
  <1>2. DownTyped BY DownTypes
  <1>3. pushed + 1 \in Nat /\ pushed + 1 <= Pushes /\ pushed <= pushed + 1
    BY <1>1, <1>2, SizesAssumption DEF DownTyped
  <1>4. ASSUME socket = "open" PROVE Unsent'
    <2>1. Unsent BY <1>4 DEF DownInv
    <2>2. \A i \in 1..Len(outgoing) :
             outgoing[i] # CloseFrame => outgoing[i] = Len(got) + i /\ outgoing[i] <= pushed + 1
      <3> SUFFICES ASSUME NEW i \in 1..Len(outgoing), outgoing[i] # CloseFrame
                   PROVE  outgoing[i] = Len(got) + i /\ outgoing[i] <= pushed + 1
        OBVIOUS
      <3>1. outgoing[i] = Len(got) + i /\ outgoing[i] <= pushed BY <2>1 DEF Unsent
      <3>2. outgoing[i] \in Nat BY <1>2 DEF DownTyped
      <3> QED BY <1>2, <3>1, <3>2 DEF DownTyped
    <2>3. \A i \in 1..Len(outgoing) :
             IF outgoing[i] = CloseFrame
             THEN closing /\ i = Len(outgoing)
             ELSE outgoing[i] = Len(got) + i /\ outgoing[i] <= pushed + 1
      BY <2>1, <2>2 DEF Unsent
    <2> QED BY <1>1, <2>3, Zenon DEF Unsent
  <1>5. ASSUME socket = "open", ~closing, leased
        PROVE  Consecutive(toServer', "send", Len(got') + Len(outgoing') + 1, pushed')
    <2> DEFINE low == Len(got) + Len(outgoing) + 1
    <2>1. low \in Int /\ pushed \in Int /\ toServer \in Seq(WireMessage) BY <1>2 DEF DownTyped
    <2>2. Consecutive(toServer, "send", low, pushed) BY <1>5 DEF DownInv
    <2> HIDE DEF low
    <2>3. /\ Numbered("send", pushed + 1) \in WireMessage
          /\ Numbered("send", pushed + 1).type = "send"
          /\ Numbered("send", pushed + 1).part = pushed + 1
      BY <1>3, MessagesTyped DEF Types
    <2>4. Consecutive(Append(toServer, Numbered("send", pushed + 1)), "send", low, pushed + 1)
      BY <2>1, <2>2, <2>3, ConsecutiveAppended
    <2> QED BY <1>1, <2>4, Zenon DEF low
  <1>6. \A i \in 1..Len(got') : got'[i] = i BY <1>1, Zenon DEF DownInv
  <1>7. pushed' <= Pushes BY <1>1, <1>3
  <1> QED BY <1>1, <1>4, <1>5, <1>6, <1>7, Zenon DEF DownInv

(* the client takes what was written first                                 *)
LEMMA TakesInOrder ==
    ASSUME TypeOK, DownInv, ClientTakes, Head(outgoing) # CloseFrame
    PROVE  /\ got' = Append(got, Head(outgoing)) /\ Head(outgoing) = Len(got) + 1
           /\ Len(got) + 1 <= pushed
  <1>1. socket = "open" /\ outgoing # <<>> /\ got' = Append(got, Head(outgoing))
    BY DEF ClientTakes
  <1>2. Len(outgoing) \in Nat \ {0} /\ Head(outgoing) = outgoing[1] BY <1>1, QueueTaken DEF TypeOK, DataOK
  <1>3. 1 \in 1..Len(outgoing) BY <1>2
  <1> QED BY <1>1, <1>2, <1>3 DEF DownInv, Unsent

LEMMA DownTakes == ASSUME TypeOK, DownInv, ClientTakes PROVE DownInv'
  <1>1. /\ socket = "open" /\ outgoing # <<>> /\ outgoing' = Tail(outgoing)
        /\ UNCHANGED <<pushed, toServer, socket, closing, leased>>
    BY DEF ClientTakes, NotClient, connectionVars, sessionVars, messageVars
  <1>2. DownTyped BY DownTypes
  <1>3. /\ Len(outgoing) \in Nat \ {0} /\ Len(outgoing') = Len(outgoing) - 1
        /\ Head(outgoing) = outgoing[1] /\ Head(outgoing) \in Nat
        /\ \A i \in 1..(Len(outgoing) - 1) : outgoing'[i] = outgoing[i + 1]
    BY <1>1, <1>2, QueueTaken DEF DownTyped
  <1>4. Unsent /\ 1 \in 1..Len(outgoing) BY <1>1, <1>3 DEF DownInv
  <1>5. \A i \in 1..(Len(outgoing) - 1) : i + 1 \in 1..Len(outgoing) BY <1>3
  <1>6. CASE Head(outgoing) = CloseFrame
    <2>1. closing /\ 1 = Len(outgoing) BY <1>3, <1>4, <1>6 DEF Unsent
    <2>2. Len(outgoing') = 0
      <3>1. \A k \in Nat : 1 = k => k - 1 = 0 OBVIOUS
      <3> QED BY <1>3, <2>1, <3>1
    <2>3. Unsent' BY <2>2 DEF Unsent
    <2>4. got' = got BY <1>6 DEF ClientTakes
    <2> QED BY <1>1, <2>1, <2>3, <2>4, DownQuiet
  <1>7. CASE Head(outgoing) # CloseFrame
    <2>1. got' = Append(got, Head(outgoing)) /\ Head(outgoing) = Len(got) + 1 BY <1>7, TakesInOrder
    <2>2. /\ Len(got') = Len(got) + 1 /\ got'[Len(got) + 1] = Len(got) + 1
          /\ \A i \in 1..Len(got) : got'[i] = got[i]
      BY <1>2, <1>3, <2>1, QueueAppended DEF DownTyped
    <2>3. \A i \in 1..(Len(got) + 1) : i \in 1..Len(got) \/ i = Len(got) + 1 BY <1>2 DEF DownTyped
    <2>4. \A i \in 1..Len(got') : got'[i] = i BY <2>2, <2>3 DEF DownInv
    <2>5. \A i \in 1..(Len(outgoing) - 1) :
             IF outgoing'[i] = CloseFrame
             THEN closing /\ i = Len(outgoing) - 1
             ELSE outgoing'[i] = (Len(got) + 1) + i /\ outgoing'[i] <= pushed
      <3> SUFFICES ASSUME NEW i \in 1..(Len(outgoing) - 1)
                   PROVE IF outgoing[i + 1] = CloseFrame
                         THEN closing /\ i = Len(outgoing) - 1
                         ELSE outgoing[i + 1] = (Len(got) + 1) + i /\ outgoing[i + 1] <= pushed
        BY <1>3
      <3>1. i + 1 \in 1..Len(outgoing) /\ Len(got) + (i + 1) = (Len(got) + 1) + i
        BY <1>2, <1>3 DEF DownTyped
      <3>2. CASE outgoing[i + 1] = CloseFrame
        <4>1. closing /\ i + 1 = Len(outgoing) BY <1>4, <3>1, <3>2 DEF Unsent
        <4> QED BY <1>3, <3>2, <4>1
      <3>3. CASE outgoing[i + 1] # CloseFrame
        <4>1. outgoing[i + 1] = Len(got) + (i + 1) /\ outgoing[i + 1] <= pushed
          BY <1>4, <3>1, <3>3 DEF Unsent
        <4> QED BY <3>1, <3>3, <4>1
      <3> QED BY <3>2, <3>3
    <2>6. Unsent' BY <1>1, <1>3, <2>2, <2>5, Zenon DEF Unsent
    <2>7. ASSUME ~closing, leased
          PROVE Consecutive(toServer', "send", Len(got') + Len(outgoing') + 1, pushed')
      <3>1. Consecutive(toServer, "send", Len(got) + Len(outgoing) + 1, pushed) BY <1>1, <2>7 DEF DownInv
      <3>2. Len(got) + Len(outgoing) + 1 = (Len(got) + 1) + (Len(outgoing) - 1) + 1
        BY <1>2, <1>3 DEF DownTyped
      <3>3. Consecutive(toServer, "send", (Len(got) + 1) + (Len(outgoing) - 1) + 1, pushed)
        BY <3>1, <3>2
      <3> QED BY <1>1, <1>3, <2>2, <3>3, Zenon
    <2>8. pushed' <= Pushes BY <1>1, Zenon DEF DownInv
    <2> QED BY <1>1, <2>4, <2>6, <2>7, <2>8, Zenon DEF DownInv
  <1> QED BY <1>6, <1>7

(* nothing was sent before the worker has the connection                   *)
LEMMA DownAcquired == ASSUME TypeOK, LifeInv, DownInv, Acquired PROVE DownInv'
  <1>1. phase # "serving" /\ UNCHANGED <<got, pushed, outgoing, toServer, socket, closing>>
    BY DEF Acquired, clientVars, connectionVars, sessionVars, messageVars
  <1>2. Unstarted /\ outgoing = <<>> /\ got = <<>> BY <1>1 DEF LifeInv, RequestFirst
  <1>3. toServer = <<>> /\ pushed = 0 BY <1>2 DEF LifeInv, RequestFirst
  <1>4. Consecutive(<<>>, "send", 1, 1 - 1) BY NothingIn, ConsecutiveNone
  <1>5. Consecutive(toServer, "send", Len(got) + Len(outgoing) + 1, pushed) BY <1>2, <1>3, <1>4
  <1>6. Consecutive(toServer', "send", Len(got') + Len(outgoing') + 1, pushed') BY <1>1, <1>5, Zenon
  <1>7. socket' = "open" => Unsent' BY <1>1, UnsentKept
  <1>8. (\A i \in 1..Len(got') : got'[i] = i) /\ pushed' <= Pushes BY <1>1, Zenon DEF DownInv
  <1> QED BY <1>6, <1>7, <1>8, Zenon DEF DownInv

LEMMA DownStep == ASSUME TypeOK, LifeInv, DownInv, [Next]_vars PROVE DownInv'
  <1> USE DEF NotServed, NotClient, NotWorker, slotVars, clientVars, connectionVars, sessionVars,
              contextVars, messageVars
  <1>1. ASSUME UNCHANGED <<got, pushed, outgoing, socket, closing, leased>>,
               \/ toServer' = toServer
               \/ \E type \in Types \ {"send"} : Serves(type) \/ toServer' = Append(toServer, Numbered(type, 0))
        PROVE  DownInv'
    <2>1. socket' = "open" => Unsent' BY <1>1, UnsentKept
    <2> QED BY <1>1, <2>1, DownQuiet
  <1>2. CASE UNCHANGED vars BY <1>1, <1>2 DEF vars
  <1>3. CASE OthersCome \/ OthersGo \/ Resolved \/ NoWorker
    BY <1>1, <1>3 DEF OthersCome, OthersGo, Resolved, NoWorker
  <1>4. CASE Receive \/ ReceiveIgnored \/ ClientSays \/ ClientSilent \/ Exit
    BY <1>1, <1>4 DEF Receive, ReceiveIgnored, ClientSays, ClientSilent, Exit
  <1>5. CASE ReceiveClose \/ StartsClose
    <2>1. StartClose /\ UNCHANGED <<got, pushed, socket>> BY <1>5 DEF ReceiveClose, StartsClose
    <2>2. (socket' = "open" => Unsent') /\ closing' BY <2>1, UnsentCloses DEF StartClose
    <2> QED BY <2>1, <2>2, DownQuiet
  <1>6. CASE SocketClosed
    BY <1>6, DownQuiet DEF SocketClosed
  <1>7. CASE Dropped \/ Refused
    <2>1. ~leased' /\ UNCHANGED <<got, pushed, outgoing, socket, closing>>
      BY <1>7 DEF Dropped, Refused, Serves, Cleanup
    <2>2. socket' = "open" => Unsent' BY <2>1, UnsentKept
    <2> QED BY <2>1, <2>2, DownQuiet
  <1>8. CASE Accepted \/ Taken
    <2>1. PICK type \in Types \ {"send"} : Serves(type) BY <1>8 DEF Accepted, Taken, Types
    <2>2. UNCHANGED <<got, pushed, outgoing, socket, closing, leased>>
      BY <1>8 DEF Accepted, Taken, Serves
    <2> QED BY <1>1, <2>1, <2>2
  <1>9. CASE ClosedByWorker
    <2>1. StartClose /\ UNCHANGED <<got, pushed, socket>> BY <1>9 DEF ClosedByWorker, Serves
    <2>2. (socket' = "open" => Unsent') /\ closing' BY <2>1, UnsentCloses DEF StartClose
    <2> QED BY <2>1, <2>2, DownQuiet
  <1>10. CASE Exited
    <2>1. CASE leased
      <3>1. UNCHANGED <<got, pushed>> /\ socket' = "closed" BY <1>10, <2>1 DEF Exited
      <3> QED BY <3>1, DownQuiet
    <2>2. CASE ~leased
      BY <1>1, <1>10, <2>2 DEF Exited
    <2> QED BY <2>1, <2>2
  <1>11. CASE ClientLeaves
    <2>1. UNCHANGED <<got, pushed, outgoing, closing, leased, toServer>>
          /\ (socket' = socket \/ socket' = "closed")
      BY <1>11 DEF ClientLeaves
    <2>2. CASE socket' = socket BY <1>1, <2>1, <2>2
    <2>3. CASE socket' = "closed" BY <2>1, <2>3, DownQuiet
    <2> QED BY <2>1, <2>2, <2>3
  <1>12. CASE Started \/ Message \/ Acknowledged \/ Close \/ HandleNext \/ FunctionReturns
    BY <1>1, <1>12
    DEF Started, Message, Acknowledged, Close, HandleNext, FunctionReturns, Gets, Works
  <1>13. CASE HandleDone \/ AcceptUpgrade \/ RefuseUpgrade \/ PushClose
    <2>1. \E type \in Types \ {"send"} : toServer' = Append(toServer, Numbered(type, 0))
      BY <1>13, Plain DEF HandleDone, AcceptUpgrade, RefuseUpgrade, PushClose, Types
    <2>2. UNCHANGED <<got, pushed, outgoing, socket, closing, leased>>
      BY <1>13 DEF HandleDone, AcceptUpgrade, RefuseUpgrade, PushClose, Works
    <2> QED BY <1>1, <2>1, <2>2
  <1> QED
    BY <1>2, <1>3, <1>4, <1>5, <1>6, <1>7, <1>8, <1>9, <1>10, <1>11, <1>12, <1>13,
       DownPassOn, DownPush, DownTakes, DownAcquired
    DEF Next, ServerStep, SessionStep, GoingAway, Idle, CloseTimeout, NoticeGone

LEMMA DownwardInit == Init => Downward!Init
  <1> SUFFICES ASSUME Init PROVE Downward!Init OBVIOUS
  <1>1. Numbers(pushed) = <<>>
    <2>1. pushed = 0 BY DEF Init
    <2>2. Numbers(0) \in Seq(Nat) /\ Len(Numbers(0)) = 0 BY NumbersGrow
    <2> QED BY <2>1, <2>2, EmptySeq
  <1>2. got = <<>> BY DEF Init
  <1> QED BY <1>1, <1>2 DEF Downward!Init

LEMMA DownwardStep ==
    ASSUME TypeOK, DownInv, [Next]_vars
    PROVE  [Downward!Next]_(Downward!vars)
  <1> USE DEF NotServed, NotClient, NotWorker, slotVars, clientVars, connectionVars, sessionVars,
              contextVars, messageVars
  <1> DEFINE Over == socket = "closed" \/ client = "gone"
  <1>1. ASSUME pushed' = pushed, got' = got, Over => Over'
        PROVE  [Downward!Next]_(Downward!vars)
    <2>1. CASE Over' <=> Over
      BY <1>1, <2>1 DEF Downward!vars
    <2>2. CASE Over' /\ ~Over
      <3>1. Downward!Cut BY <1>1, <2>2 DEF Downward!Cut
      <3> QED BY <3>1 DEF Downward!Next
    <2> QED BY <1>1, <2>1, <2>2
  <1>2. CASE Push
    <2>1. UNCHANGED <<got, socket, client>> /\ pushed < Pushes /\ pushed' = pushed + 1
      BY <1>2 DEF Push, Works
    <2>2. Numbers(pushed') = Append(Numbers(pushed), pushed + 1)
      BY <2>1, NumbersGrow DEF TypeOK, DataOK
    <2>3. pushed + 1 \in 1..Pushes BY <2>1, SizesAssumption DEF TypeOK, DataOK
    <2>4. Downward!Give BY <2>1, <2>2, <2>3 DEF Downward!Give
    <2> QED BY <2>4 DEF Downward!Next
  <1>3. CASE ClientTakes
    <2>1. socket = "open" /\ client # "gone" /\ UNCHANGED <<pushed, socket, client>>
      BY <1>3 DEF ClientTakes
    <2>2. CASE Head(outgoing) = CloseFrame
      <3>1. got' = got BY <1>3, <2>2 DEF ClientTakes
      <3> QED BY <1>1, <2>1, <3>1
    <2>3. CASE Head(outgoing) # CloseFrame
      <3>1. /\ got' = Append(got, Head(outgoing)) /\ Head(outgoing) = Len(got) + 1
            /\ Len(got) + 1 <= pushed
        BY <1>3, <2>3, TakesInOrder
      <3>2. Len(got) \in Nat /\ pushed \in Nat BY DEF TypeOK, DataOK
      <3>3. Len(got) < Len(Numbers(pushed)) /\ Numbers(pushed)[Len(got) + 1] = Len(got) + 1
        <4>1. Len(got) + 1 \in 1..pushed /\ Len(got) < pushed BY <3>1, <3>2
        <4>2. Len(Numbers(pushed)) = pushed /\ \A i \in 1..pushed : Numbers(pushed)[i] = i
          BY <3>2, NumbersGrow
        <4> QED BY <4>1, <4>2
      <3>4. ~Over /\ ~Over' BY <2>1
      <3>5. Downward!Take BY <2>1, <3>1, <3>3, <3>4 DEF Downward!Take
      <3> QED BY <3>5 DEF Downward!Next
    <2> QED BY <2>2, <2>3
  <1>4. CASE SocketClosed \/ ClientLeaves \/ Exited
    <2>1. UNCHANGED <<pushed, got>> BY <1>4 DEF SocketClosed, ClientLeaves, Exited
    <2>2. Over => Over'
      <3>1. CASE SocketClosed BY <3>1 DEF SocketClosed
      <3>2. CASE ClientLeaves BY <3>2 DEF ClientLeaves
      <3>3. CASE Exited BY <3>3 DEF Exited
      <3> QED BY <1>4, <3>1, <3>2, <3>3
    <2> QED BY <1>1, <2>1, <2>2
  <1>5. CASE UNCHANGED vars BY <1>1, <1>5 DEF vars
  <1>6. ASSUME UNCHANGED <<pushed, got, socket, client>> PROVE [Downward!Next]_(Downward!vars)
    BY <1>1, <1>6
  <1>7. CASE OthersCome \/ OthersGo \/ Resolved \/ NoWorker \/ Acquired
    BY <1>6, <1>7 DEF OthersCome, OthersGo, Resolved, NoWorker, Acquired
  <1>8. CASE Receive \/ ReceiveClose \/ ReceiveIgnored \/ StartsClose
    BY <1>6, <1>8 DEF Receive, ReceiveClose, ReceiveIgnored, StartsClose
  <1>9. CASE Dropped \/ Accepted \/ Refused \/ Taken \/ PassOn \/ ClosedByWorker
    BY <1>6, <1>9 DEF Dropped, Accepted, Refused, Taken, PassOn, ClosedByWorker, Serves
  <1>10. CASE ClientSays
    BY <1>6, <1>10 DEF ClientSays
  <1>11. CASE ClientSilent
    <2>1. UNCHANGED <<pushed, got, socket>> /\ client = "there" /\ client' = "silent"
      BY <1>11 DEF ClientSilent
    <2> QED BY <1>1, <2>1
  <1>12. CASE Started \/ Message \/ Acknowledged \/ Close
    BY <1>6, <1>12 DEF Started, Message, Acknowledged, Close, Gets
  <1>13. CASE HandleNext \/ HandleDone \/ AcceptUpgrade \/ RefuseUpgrade \/ FunctionReturns \/ PushClose
    BY <1>6, <1>13
    DEF HandleNext, HandleDone, AcceptUpgrade, RefuseUpgrade, FunctionReturns, PushClose, Works
  <1>14. CASE Exit BY <1>6, <1>14 DEF Exit
  <1> QED
    BY <1>2, <1>3, <1>4, <1>5, <1>7, <1>8, <1>9, <1>10, <1>11, <1>12, <1>13, <1>14
    DEF Next, ServerStep, SessionStep, GoingAway, Idle, CloseTimeout, NoticeGone

LEMMA OrderInvariant == Spec => [](TypeOK /\ LifeInv /\ UpInv /\ DownInv)
  <1>1. UpInv /\ DownInv /\ TypeOK /\ LifeInv /\ [Next]_vars => UpInv' /\ DownInv'
    BY UpStep, DownStep
  <1> QED BY <1>1, UpInitially, DownInitially, LifeInvariant, PTL DEF Spec

(* What either side of a websocket sends, however much it is and however   *)
(* it is cut into chunks, reaches the other in order, none twice and none  *)
(* left out, until the connection is cut, which the other side learns: the *)
(* websocket implements the specification Delivery in both directions.     *)
THEOREM MessagesDelivered == Spec => MessagesAreDelivered
  <1>1. Init => Upward!Init /\ Downward!Init BY UpwardInit, DownwardInit
  <1>2. /\ TypeOK /\ LifeInv /\ UpInv /\ DownInv /\ (UpInv)' /\ [Next]_vars
        => [Upward!Next]_(Upward!vars) /\ [Downward!Next]_(Downward!vars)
    BY UpwardStep, DownwardStep
  <1> QED
    BY <1>1, <1>2, OrderInvariant, PTL
    DEF Spec, MessagesAreDelivered, Upward!Spec, Downward!Spec

-----------------------------------------------------------------------------
(* The promises of the worker                                              *)

(* messages of other types leave the count of the acknowledgements         *)
LEMMA AckCountKept ==
    ASSUME TypeOK,
           \/ toWorker' = toWorker
           \/ \E type \in Types \ {"ack"} : Gets(type) \/ toWorker' = Append(toWorker, Numbered(type, 0))
    PROVE  Count(toWorker', "ack") = Count(toWorker, "ack")
  <1>1. toWorker \in Seq(WireMessage) BY DEF TypeOK, DataOK
  <1>2. CASE toWorker' = toWorker BY <1>2
  <1>3. ASSUME NEW type \in Types \ {"ack"}, Gets(type)
        PROVE  Count(toWorker', "ack") = Count(toWorker, "ack")
    <2>1. toWorker # <<>> /\ toWorker' = Tail(toWorker) /\ Head(toWorker).type # "ack"
      BY <1>3 DEF Gets
    <2>2. toWorker' \in Seq(WireMessage) BY <1>1, <2>1, QueueTaken
    <2>3. Count(toWorker, "ack") = Count(toWorker', "ack") + 0 BY <1>1, <2>1, CountsChange
    <2>4. Count(toWorker', "ack") \in Nat BY <2>2, CountsChange
    <2>5. \A k \in Nat : k + 0 = k OBVIOUS
    <2> QED BY <2>3, <2>4, <2>5
  <1>4. ASSUME NEW type \in Types \ {"ack"}, toWorker' = Append(toWorker, Numbered(type, 0))
        PROVE  Count(toWorker', "ack") = Count(toWorker, "ack")
    <2>1. Numbered(type, 0) \in WireMessage /\ Numbered(type, 0).type # "ack" BY <1>4, MessagesTyped
    <2>2. Count(toWorker', "ack") = Count(toWorker, "ack") + 0 BY <1>1, <1>4, <2>1, CountsChange
    <2>3. Count(toWorker, "ack") \in Nat BY <1>1, CountsChange
    <2> QED BY <2>2, <2>3
  <1> QED BY <1>2, <1>3, <1>4

SettledTyped ==
    /\ Len(settled) \in Nat /\ Len(waiting) \in Nat /\ Len(got) \in Nat /\ pushed \in Nat
    /\ Count(toWorker, "ack") \in Nat
    /\ settled \in Seq(Nat) /\ waiting \in Seq(Nat) /\ got \in Seq(Nat)
    /\ toWorker \in Seq(WireMessage)

LEMMA SettledTypes == ASSUME TypeOK PROVE SettledTyped
  <1>1. Count(toWorker, "ack") \in Nat BY CountsChange DEF TypeOK, DataOK
  <1> QED BY <1>1 DEF TypeOK, DataOK, SettledTyped

LEMMA SettledInitially == Init => SettledInv
  <1> SUFFICES ASSUME Init PROVE SettledInv OBVIOUS
  <1>1. /\ Len(settled) = 0 /\ Len(waiting) = 0 /\ Len(got) = 0 /\ pushed = 0 /\ toWorker = <<>>
    BY DEF Init
  <1>2. Count(toWorker, "ack") = 0 BY <1>1, CountOfNone
  <1> QED BY <1>1, <1>2 DEF SettledInv

LEMMA SettledQuiet ==
    ASSUME TypeOK, SettledInv, UNCHANGED <<settled, waiting, aborted, pushed, got>>,
           Count(toWorker', "ack") = Count(toWorker, "ack")
    PROVE  SettledInv'
  BY Zenon DEF SettledInv

(* all of a chunk are messages                                             *)
LEMMA SettledReceive == ASSUME TypeOK, SettledInv, Receive PROVE SettledInv'
  <1>1. PICK n \in 1..Together :
           /\ n <= Len(incoming)
           /\ toWorker' = IF process = "closed" THEN toWorker ELSE toWorker \o Chunk(n)
    BY DEF Receive, Chunk
  <1>2. n \in 0..Len(incoming) BY <1>1, SizesAssumption DEF TypeOK, DataOK
  <1>3. Chunk(n) \in Seq(WireMessage) /\ \A i \in 1..Len(Chunk(n)) : Chunk(n)[i].type = "message"
    BY <1>2, ChunkTyped
  <1>4. UNCHANGED <<settled, waiting, aborted, pushed, got>>
    BY DEF Receive, sessionVars, contextVars, messageVars
  <1>5. Count(toWorker \o Chunk(n), "ack") = Count(toWorker, "ack")
    <2> DEFINE S == [type : {"ack"}, part : Nat]
    <2>1. \A i \in 1..Len(Chunk(n)) : Chunk(n)[i] \notin S BY <1>3
    <2>2. Count(toWorker \o Chunk(n), "ack") = Among(toWorker \o Chunk(n), S)
          /\ Count(toWorker, "ack") = Among(toWorker, S)
      BY DEF Count
    <2> HIDE DEF S
    <2> QED BY <1>3, <2>1, <2>2, CountJoined, SettledTypes DEF SettledTyped
  <1> QED BY <1>1, <1>4, <1>5, SettledQuiet

(* the first message that waits is the one that was taken first            *)
LEMMA SettledAcknowledged == ASSUME TypeOK, SettledInv, Acknowledged PROVE SettledInv'
  <1>1. /\ toWorker # <<>> /\ toWorker' = Tail(toWorker) /\ Head(toWorker).type = "ack"
        /\ UNCHANGED <<got, aborted, pushed>>
        /\ \/ waiting' = waiting /\ settled' = settled
           \/ waiting # <<>> /\ waiting' = Tail(waiting) /\ settled' = Append(settled, Head(waiting))
    BY DEF Acknowledged, Gets, NotWorker, clientVars, contextVars
  <1>2. SettledTyped BY SettledTypes
  <1>3. toWorker' \in Seq(WireMessage) BY <1>1, <1>2, QueueTaken DEF SettledTyped
  <1>4. Count(toWorker, "ack") = Count(toWorker', "ack") + 1 /\ Count(toWorker', "ack") \in Nat
    BY <1>1, <1>2, <1>3, CountsChange DEF SettledTyped
  <1>5. \A c, k \in Nat : c = k + 1 => k = c - 1 OBVIOUS
  <1>6. Count(toWorker', "ack") = Count(toWorker, "ack") - 1 BY <1>2, <1>4, <1>5 DEF SettledTyped
  <1>7. Len(settled) + Count(toWorker, "ack") <= Len(got) BY DEF SettledInv
  <1>8. CASE waiting' = waiting /\ settled' = settled
    <2>1. Len(settled) + (Count(toWorker, "ack") - 1) <= Len(got) BY <1>2, <1>7 DEF SettledTyped
    <2>2. Len(settled') + Count(toWorker', "ack") <= Len(got') BY <1>1, <1>6, <1>8, <2>1, Zenon
    <2> QED BY <1>1, <1>8, <2>2, Zenon DEF SettledInv
  <1>9. CASE waiting # <<>> /\ waiting' = Tail(waiting) /\ settled' = Append(settled, Head(waiting))
    <2>1. /\ Len(waiting) \in Nat \ {0} /\ Len(waiting') = Len(waiting) - 1
          /\ Head(waiting) = waiting[1] /\ Head(waiting) \in Nat
          /\ \A i \in 1..(Len(waiting) - 1) : waiting'[i] = waiting[i + 1]
      BY <1>2, <1>9, QueueTaken DEF SettledTyped
    <2>2. Head(waiting) = Len(settled) + 1
      <3>1. 1 \in 1..Len(waiting) BY <2>1
      <3> QED BY <2>1, <3>1 DEF SettledInv
    <2>3. /\ Len(settled') = Len(settled) + 1 /\ settled'[Len(settled) + 1] = Len(settled) + 1
          /\ \A i \in 1..Len(settled) : settled'[i] = settled[i]
      BY <1>2, <1>9, <2>1, <2>2, QueueAppended DEF SettledTyped
    <2>4. \A i \in 1..(Len(settled) + 1) : i \in 1..Len(settled) \/ i = Len(settled) + 1
      BY <1>2 DEF SettledTyped
    <2>5. \A i \in 1..Len(settled') : settled'[i] = i BY <2>3, <2>4 DEF SettledInv
    <2>6. \A i \in 1..(Len(waiting) - 1) :
             i + 1 \in 1..Len(waiting) /\ Len(settled) + (i + 1) = (Len(settled) + 1) + i
      BY <1>2, <2>1 DEF SettledTyped
    <2>7. \A i \in 1..(Len(waiting) - 1) : waiting'[i] = (Len(settled) + 1) + i
      BY <2>1, <2>6 DEF SettledInv
    <2>8. \A i \in 1..Len(waiting') : waiting'[i] = Len(settled') + i BY <2>1, <2>3, <2>7, Zenon
    <2>9. ~aborted => (Len(settled) + 1) + (Len(waiting) - 1) = pushed
      <3>1. ~aborted => Len(settled) + Len(waiting) = pushed BY Zenon DEF SettledInv
      <3>2. (Len(settled) + 1) + (Len(waiting) - 1) = Len(settled) + Len(waiting)
        BY <1>2 DEF SettledTyped
      <3> QED BY <3>1, <3>2, Zenon
    <2>10. ~aborted' => Len(settled') + Len(waiting') = pushed'
      BY <1>1, <2>1, <2>3, <2>9, Zenon
    <2>11. (Len(settled) + 1) + (Count(toWorker, "ack") - 1) <= Len(got)
      BY <1>2, <1>7 DEF SettledTyped
    <2>12. Len(settled') + Count(toWorker', "ack") <= Len(got') BY <1>1, <1>6, <2>3, <2>11, Zenon
    <2> QED BY <2>5, <2>8, <2>10, <2>12, Zenon DEF SettledInv
  <1> QED BY <1>1, <1>8, <1>9

LEMMA SettledPush == ASSUME TypeOK, SettledInv, Push PROVE SettledInv'
  <1>1. /\ ~aborted /\ pushed' = pushed + 1 /\ waiting' = Append(waiting, pushed')
        /\ UNCHANGED <<settled, got, toWorker, aborted>>
    BY DEF Push, Works, NotWorker, clientVars
  <1>2. SettledTyped BY SettledTypes
  <1>3. pushed + 1 \in Nat /\ waiting' = Append(waiting, pushed + 1) BY <1>1, <1>2 DEF SettledTyped
  <1>4. /\ Len(waiting') = Len(waiting) + 1 /\ waiting'[Len(waiting) + 1] = pushed + 1
        /\ \A i \in 1..Len(waiting) : waiting'[i] = waiting[i]
    BY <1>2, <1>3, QueueAppended DEF SettledTyped
  <1>5. Len(settled) + Len(waiting) = pushed BY <1>1 DEF SettledInv
  <1>6. pushed + 1 = Len(settled) + (Len(waiting) + 1) BY <1>2, <1>5 DEF SettledTyped
  <1>7. \A i \in 1..(Len(waiting) + 1) : i \in 1..Len(waiting) \/ i = Len(waiting) + 1
    BY <1>2 DEF SettledTyped
  <1>8. \A i \in 1..Len(waiting') : waiting'[i] = Len(settled) + i
    BY <1>4, <1>6, <1>7 DEF SettledInv
  <1>9. Len(settled') + Len(waiting') = pushed' BY <1>1, <1>4, <1>6, Zenon
  <1> QED BY <1>1, <1>8, <1>9, Zenon DEF SettledInv

(* what the client takes is acknowledged to the worker                     *)
LEMMA SettledTakes == ASSUME TypeOK, SettledInv, ClientTakes PROVE SettledInv'
  <1>1. UNCHANGED <<settled, waiting, aborted, pushed>>
    BY DEF ClientTakes, NotClient, sessionVars, contextVars, messageVars
  <1>2. SettledTyped BY SettledTypes
  <1>3. CASE Head(outgoing) = CloseFrame
    <2>1. UNCHANGED <<got, toWorker>> BY <1>3 DEF ClientTakes
    <2> QED BY <1>1, <2>1, SettledQuiet
  <1>4. CASE Head(outgoing) # CloseFrame
    <2>1. /\ got' = Append(got, Head(outgoing)) /\ Head(outgoing) \in Nat
          /\ toWorker' = toWorker \/ toWorker' = Append(toWorker, Numbered("ack", 0))
      BY <1>4, Plain, QueueTaken DEF ClientTakes, Send, TypeOK, DataOK
    <2>2. Len(got') = Len(got) + 1 BY <1>2, <2>1, QueueAppended DEF SettledTyped
    <2>3. Numbered("ack", 0) \in WireMessage /\ Numbered("ack", 0).type = "ack" BY MessagesTyped DEF Types
    <2>4. Count(Append(toWorker, Numbered("ack", 0)), "ack") = Count(toWorker, "ack") + 1
      BY <1>2, <2>3, CountsChange DEF SettledTyped
    <2>5. /\ Len(settled) + Count(toWorker, "ack") <= Len(got) + 1
          /\ Len(settled) + (Count(toWorker, "ack") + 1) <= Len(got) + 1
      BY <1>2 DEF SettledInv, SettledTyped
    <2>6. Len(settled') + Count(toWorker', "ack") <= Len(got')
      <3>1. CASE toWorker' = toWorker BY <1>1, <2>2, <2>5, <3>1, Zenon
      <3>2. CASE toWorker' = Append(toWorker, Numbered("ack", 0))
        BY <1>1, <2>2, <2>4, <2>5, <3>2, Zenon
      <3> QED BY <2>1, <3>1, <3>2
    <2> QED BY <1>1, <2>6, Zenon DEF SettledInv
  <1> QED BY <1>3, <1>4

LEMMA SettledClose == ASSUME TypeOK, SettledInv, Close PROVE SettledInv'
  <1>1. /\ UNCHANGED <<settled, pushed, got>>
        /\ \/ UNCHANGED <<waiting, aborted>>
           \/ aborted' /\ waiting' = <<>>
    BY DEF Close, CloseWsConnection, Gets, NotWorker, clientVars
  <1>2. Gets("close") /\ "close" \in Types \ {"ack"} BY DEF Close, Types
  <1>3. Count(toWorker', "ack") = Count(toWorker, "ack") BY <1>2, AckCountKept
  <1>4. CASE UNCHANGED <<waiting, aborted>> BY <1>1, <1>3, <1>4, SettledQuiet
  <1>5. CASE aborted' /\ waiting' = <<>>
    <2>1. \A i \in 1..Len(waiting') : waiting'[i] = Len(settled') + i
      <3>1. Len(waiting') = 0 BY <1>5
      <3> QED BY <3>1
    <2> QED BY <1>1, <1>3, <1>5, <2>1, Zenon DEF SettledInv
  <1> QED BY <1>1, <1>4, <1>5

LEMMA SettledStep == ASSUME TypeOK, LifeInv, SettledInv, [Next]_vars PROVE SettledInv'
  <1> USE DEF NotServed, NotClient, NotWorker, slotVars, clientVars, connectionVars, sessionVars,
              contextVars, messageVars
  <1>1. ASSUME UNCHANGED <<settled, waiting, aborted, pushed, got>>,
               \/ toWorker' = toWorker
               \/ \E type \in Types \ {"ack"} : Gets(type) \/ toWorker' = Append(toWorker, Numbered(type, 0))
        PROVE  SettledInv'
    BY <1>1, AckCountKept, SettledQuiet
  <1>2. CASE UNCHANGED vars BY <1>1, <1>2 DEF vars
  <1>3. CASE OthersCome \/ OthersGo \/ Resolved \/ NoWorker \/ ClientSays \/ ClientSilent \/ ClientLeaves
    BY <1>1, <1>3
    DEF OthersCome, OthersGo, Resolved, NoWorker, ClientSays, ClientSilent, ClientLeaves
  <1>4. CASE Acquired
    <2>1. toWorker' = Append(toWorker, Numbered("request", 0)) /\ "request" \in Types \ {"ack"}
      BY <1>4, Plain DEF Acquired, LifeInv, RequestFirst, Types
    <2>2. UNCHANGED <<settled, waiting, aborted, pushed, got>> BY <1>4 DEF Acquired
    <2> QED BY <1>1, <2>1, <2>2
  <1>5. CASE ReceiveClose \/ ReceiveIgnored \/ StartsClose \/ Exited \/ Exit
    BY <1>1, <1>5 DEF ReceiveClose, ReceiveIgnored, StartsClose, Exited, Exit
  <1>6. CASE SocketClosed
    <2>1. \/ toWorker' = toWorker
          \/ \E type \in Types \ {"ack"} : toWorker' = Append(toWorker, Numbered(type, 0))
      BY <1>6, Plain DEF SocketClosed, Send, Types
    <2>2. UNCHANGED <<settled, waiting, aborted, pushed, got>> BY <1>6 DEF SocketClosed
    <2> QED BY <1>1, <2>1, <2>2
  <1>7. CASE Dropped \/ Accepted \/ Refused \/ Taken \/ PassOn \/ ClosedByWorker
    BY <1>1, <1>7 DEF Dropped, Accepted, Refused, Taken, PassOn, ClosedByWorker, Serves
  <1>8. CASE Started \/ Message
    <2>1. PICK type \in Types \ {"ack"} : Gets(type) BY <1>8 DEF Started, Message, Types
    <2>2. UNCHANGED <<settled, waiting, aborted, pushed, got>> BY <1>8 DEF Started, Message, Gets
    <2> QED BY <1>1, <2>1, <2>2
  <1>9. CASE HandleNext \/ HandleDone \/ AcceptUpgrade \/ RefuseUpgrade \/ FunctionReturns \/ PushClose
    BY <1>1, <1>9
    DEF HandleNext, HandleDone, AcceptUpgrade, RefuseUpgrade, FunctionReturns, PushClose, Works
  <1> QED
    BY <1>2, <1>3, <1>4, <1>5, <1>6, <1>7, <1>8, <1>9,
       SettledReceive, SettledAcknowledged, SettledPush, SettledTakes, SettledClose
    DEF Next, ServerStep, SessionStep, GoingAway, Idle, CloseTimeout, NoticeGone

LEMMA SettledInvariant == Spec => [](TypeOK /\ DownInv /\ SettledInv)
  <1>1. SettledInv /\ TypeOK /\ LifeInv /\ [Next]_vars => SettledInv' BY SettledStep
  <1> QED BY <1>1, SettledInitially, OrderInvariant, PTL DEF Spec

(* A promise of the worker settles with true only for a message that the   *)
(* client has taken, the n-th promise for the n-th message: neither a      *)
(* close nor a message that was dropped lets an acknowledgement settle the *)
(* promise of another one.                                                 *)
THEOREM SettlesWhenTaken == Spec => []TrueWhenTaken
  <1>1. TypeOK /\ DownInv /\ SettledInv => TrueWhenTaken
    <2> SUFFICES ASSUME TypeOK, DownInv, SettledInv PROVE TrueWhenTaken OBVIOUS
    <2> DEFINE n == Len(settled)
    <2>1. SettledTyped BY SettledTypes
    <2>2. n \in Nat /\ n <= Len(got) /\ Len(got) \in Nat BY <2>1 DEF SettledInv, SettledTyped
    <2>3. \A i \in 1..n : settled[i] = i /\ got[i] = i
      <3>1. \A i \in 1..n : i \in 1..Len(got) BY <2>2
      <3> QED BY <3>1 DEF SettledInv, DownInv
    <2>4. SubSeq(settled, 1, n) = SubSeq(got, 1, n)
      BY <2>2, <2>3
    <2> QED BY <2>2, <2>4 DEF TrueWhenTaken, IsPrefix
  <1> QED BY <1>1, SettledInvariant, PTL
=============================================================================
