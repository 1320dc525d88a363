----------------------------- MODULE WebSocket -----------------------------
(***************************************************************************)
(* A websocket between its client, the server and a worker process, from   *)
(* the upgrade request on: the slot and the worker that it takes, the      *)
(* messages in both directions with the windows that hold each side to the *)
(* pace of the other, and the close, which either side, the keep-alive,    *)
(* the stop of the server or the network may start.                        *)
(*                                                                         *)
(* The server's half is createWsConnection with attachWebSocket and the    *)
(* parts of serveRequest that an upgrade takes; the worker's half are the  *)
(* websocket handlers of its session.                                      *)
(***************************************************************************)
EXTENDS Naturals, Sequences, SequencesExt, Queues

CONSTANTS
    Messages,     \* that the client may send
    Pushes,       \* that the worker may send
    Window,       \* WebSocketWindow.messages
    Together,     \* messages that may be read in one chunk
    SlotLimit,    \* limitWebSockets of the file
    Pings,        \* webSocketPingInterval is set
    LeavesEarly,  \* the client may leave while its file is looked for
    Exits         \* the process may end

ASSUME SizesAssumption ==
    /\ {Messages, Pushes} \subseteq Nat
    /\ {Window, Together, SlotLimit} \subseteq Nat \ {0}
    /\ {Pings, LeavesEarly, Exits} \subseteq BOOLEAN

VARIABLES
    phase,     \* "resolving", "acquiring", "serving" or "answered"
    slots,     \* taken slots of the file
    others,    \* of which other connections hold
    slot,      \* "none", "held" or "released"
    leased,    \* the lease and the listeners of the connection are there
    client,    \* "there", "silent" (still sends nothing) or "gone"
    said,      \* messages that the client has sent
    incoming,  \* sent and not read yet, 0 for a close frame
    outgoing,  \* written and not taken yet
    got,       \* messages that the client took
    socket,    \* "open" or "closed"
    opened,    \* the upgrade was accepted
    closing,   \* the close was started by either side
    paused,    \* the socket is not read
    unacked,   \* unacknowledged: messages the worker has not taken
    toWorker, toServer,
    process,   \* "up", "gone" or "closed"
    answer,    \* of the worker to the upgrade: "none", "accepted", "refused"
    running,   \* its function has not returned
    ws,        \* the context has its websocket
    stream,    \* the context has its stream
    aborted,   \* stream.aborted
    waiting,   \* sent messages whose promise is not settled
    inbox,     \* the chain of messages to be handled
    handling,  \* the message that is handled, 0 for none
    receiving, \* the context has the end of the chain
    started,   \* messages that were given to the worker
    pushed,    \* messages that the worker sent
    settled,   \* those whose promise was settled with true
    closedSeen \* how often the worker was told of the close

slotVars == <<slots, others, slot>>
clientVars == <<client, said, incoming, outgoing, got>>
connectionVars == <<socket, opened, closing, paused, unacked>>
contextVars == <<answer, running, ws, stream, aborted>>
messageVars == <<waiting, inbox, handling, receiving, started, pushed, settled, closedSeen>>
sessionVars == <<contextVars, messageVars>>

vars == <<phase, slotVars, leased, clientVars, connectionVars, toWorker, toServer,
          process, sessionVars>>

CloseFrame == 0
Types == {"request", "message", "ack", "close", "response", "refusal", "send", "wsClose", "wsAck"}
Msg(type) == [type |-> type, part |-> 0]
Numbered(type, n) == [type |-> type, part |-> n]

Init ==
    /\ phase = "resolving"
    /\ slots = 0 /\ others = 0
    /\ slot = "none"
    /\ leased = FALSE
    /\ client = "there" /\ said = 0
    /\ incoming = <<>> /\ outgoing = <<>> /\ got = <<>>
    /\ socket = "open"
    /\ opened = FALSE /\ closing = FALSE /\ paused = FALSE
    /\ unacked = 0
    /\ toWorker = <<>> /\ toServer = <<>>
    /\ process = "up"
    /\ answer = "none"
    /\ running = FALSE /\ ws = FALSE /\ stream = FALSE /\ aborted = FALSE
    /\ waiting = <<>> /\ inbox = <<>>
    /\ handling = 0 /\ receiving = FALSE
    /\ started = <<>> /\ pushed = 0 /\ settled = <<>>
    /\ closedSeen = 0

-----------------------------------------------------------------------------
(* The slot and the worker of the connection                               *)

(* the function that take gives back: it frees the slot once               *)
ReleaseSlot ==
    /\ slot' = IF slot = "held" THEN "released" ELSE slot
    /\ slots' = IF slot = "held" THEN slots - 1 ELSE slots

OthersCome ==
    /\ slots < SlotLimit
    /\ slots' = slots + 1 /\ others' = others + 1
    /\ UNCHANGED <<phase, slot, leased, clientVars, connectionVars, toWorker, toServer, process, sessionVars>>

OthersGo ==
    /\ others > 0
    /\ slots' = slots - 1 /\ others' = others - 1
    /\ UNCHANGED <<phase, slot, leased, clientVars, connectionVars, toWorker, toServer, process, sessionVars>>

(* the file of the request was found: a slot is taken before the worker    *)
Resolved ==
    /\ phase = "resolving"
    /\ IF slots < SlotLimit
       THEN phase' = "acquiring" /\ slot' = "held" /\ slots' = slots + 1
       ELSE phase' = "answered" /\ UNCHANGED <<slot, slots>>
    /\ UNCHANGED <<others, leased, clientVars, connectionVars, toWorker, toServer, process, sessionVars>>

(* mutant: the slot is kept when no worker is to be had                    *)
NoWorkerKeepsSlot ==
    /\ phase = "acquiring"
    /\ phase' = "answered"
    /\ UNCHANGED <<slotVars, leased, clientVars, connectionVars, toWorker, toServer, process, sessionVars>>

(* no worker is to be had, which gives the slot back                       *)
NoWorker ==
    /\ phase = "acquiring"
    /\ phase' = "answered"
    /\ ReleaseSlot
    /\ UNCHANGED <<others, leased, clientVars, connectionVars, toWorker, toServer, process, sessionVars>>

(* serveRequest: the listeners are attached and the request is sent        *)
Acquired ==
    /\ phase = "acquiring" /\ process = "up"
    /\ phase' = "serving"
    /\ leased' = TRUE
    /\ toWorker' = <<Msg("request")>>
    /\ UNCHANGED <<slotVars, clientVars, connectionVars, toServer, process, sessionVars>>

(* mutant: the end of a connection keeps its slot                          *)
CleanupKeepsSlot ==
    /\ leased' = FALSE
    /\ UNCHANGED <<slot, slots>>

(* cleanupConnection: it may run again, the lease and the slot may not     *)
Cleanup ==
    /\ leased' = FALSE
    /\ ReleaseSlot

-----------------------------------------------------------------------------
(* The connection in the server                                            *)

Send(type) == IF process = "closed" THEN toWorker ELSE Append(toWorker, Msg(type))

(* close: nothing more is read, and a socket that was paused is resumed    *)
StartClose ==
    /\ closing' = TRUE
    /\ paused' = FALSE
    /\ outgoing' = IF closing \/ socket = "closed" THEN outgoing ELSE Append(outgoing, CloseFrame)

Connected == socket = "open" /\ leased
NotServed == <<phase, slotVars, leased, process>>

(* mutant: a full window does not pause the client                         *)
ReceiveUnpaused ==
    /\ Connected /\ opened /\ ~closing
    /\ incoming # <<>> /\ Head(incoming) # CloseFrame
    /\ incoming' = Tail(incoming)
    /\ unacked' = unacked + 1
    /\ toWorker' = Append(toWorker, Numbered("message", Head(incoming)))
    /\ UNCHANGED <<NotServed, client, said, outgoing, got, socket, opened, closing, paused>>
    /\ UNCHANGED <<toServer, sessionVars>>

(* receive: all messages of a chunk go to the worker, then the window is   *)
(* looked at                                                               *)
Receive ==
    /\ Connected /\ opened /\ ~closing /\ ~paused
    /\ \E n \in 1..Together :
         /\ n <= Len(incoming)
         /\ \A i \in 1..n : incoming[i] # CloseFrame
         /\ incoming' = SubSeq(incoming, n + 1, Len(incoming))
         /\ unacked' = unacked + n
         /\ toWorker' = IF process = "closed" THEN toWorker
                        ELSE toWorker \o [i \in 1..n |-> Numbered("message", incoming[i])]
    /\ paused' = (unacked' >= Window)
    /\ UNCHANGED <<NotServed, client, said, outgoing, got, socket, opened, closing>>
    /\ UNCHANGED <<toServer, sessionVars>>

(* the client starts the close, or breaks the protocol                     *)
ReceiveClose ==
    /\ Connected /\ opened /\ ~closing /\ ~paused
    /\ incoming # <<>> /\ Head(incoming) = CloseFrame
    /\ incoming' = Tail(incoming)
    /\ StartClose
    /\ UNCHANGED <<NotServed, client, said, got, socket, opened, unacked>>
    /\ UNCHANGED <<toWorker, toServer, sessionVars>>

(* what is read before the upgrade or after the start of a close           *)
ReceiveIgnored ==
    /\ socket = "open" /\ ~paused
    /\ ~opened \/ closing
    /\ incoming # <<>>
    /\ incoming' = Tail(incoming)
    /\ UNCHANGED <<NotServed, client, said, outgoing, got, connectionVars, toWorker, toServer, sessionVars>>

(* keepAlive finds a client that sent nothing for the idle time; one that  *)
(* is paused is not looked at.  The stop of the server closes any one.     *)
StartsClose ==
    /\ Connected /\ ~closing
    /\ StartClose
    /\ UNCHANGED <<NotServed, client, said, incoming, got, socket, opened, unacked>>
    /\ UNCHANGED <<toWorker, toServer, sessionVars>>

Idle == opened /\ ~paused /\ client # "there" /\ StartsClose
GoingAway == StartsClose

(* the socket closes: the worker is told, then the request cleaned up      *)
SocketClosed ==
    /\ socket = "open"
    /\ socket' = "closed"
    /\ incoming' = <<>> /\ outgoing' = <<>>
    /\ IF leased
       THEN toWorker' = Send("close") /\ Cleanup
       ELSE UNCHANGED <<toWorker, leased, slot, slots>>
    /\ UNCHANGED <<phase, others, process, client, said, got, opened, closing, paused, unacked>>
    /\ UNCHANGED <<toServer, sessionVars>>

(* The client is gone, which a socket that is read tells, or a ping that   *)
(* cannot be written.                                                      *)
NoticeGone == client = "gone" /\ (~paused \/ (Pings /\ opened)) /\ SocketClosed

CloseTimeout == closing /\ SocketClosed

Serves(type) ==
    /\ toServer # <<>>
    /\ Head(toServer).type = type
    /\ toServer' = Tail(toServer)
    /\ UNCHANGED <<phase, others, process, client, said, incoming, got, sessionVars>>

(* nobody is subscribed to the request any more                            *)
Dropped ==
    /\ ~leased
    /\ \E type \in Types : Serves(type)
    /\ UNCHANGED <<slot, slots, leased, outgoing, connectionVars, toWorker>>

Accepted ==
    /\ leased /\ Serves("response")
    /\ opened' = TRUE
    /\ UNCHANGED <<slot, slots, leased, outgoing, socket, closing, paused, unacked, toWorker>>

(* the upgrade was refused: the connection goes on as any other one        *)
Refused ==
    /\ leased /\ Serves("refusal")
    /\ Cleanup
    /\ UNCHANGED <<outgoing, connectionVars, toWorker>>

(* acknowledge                                                             *)
Taken ==
    /\ leased /\ Serves("wsAck")
    /\ unacked' = unacked - 1
    /\ paused' = (paused /\ (closing \/ unacked' >= Window))
    /\ UNCHANGED <<slot, slots, leased, outgoing, socket, opened, closing, toWorker>>

(* mutant: the worker is told that a message was written which was not     *)
PassOnAcknowledged ==
    /\ leased /\ Serves("send")
    /\ IF closing \/ socket = "closed"
       THEN toWorker' = Send("ack") /\ UNCHANGED <<outgoing, closing, paused>>
       ELSE /\ outgoing' = Append(outgoing, Head(toServer).part)
            /\ UNCHANGED <<closing, paused, toWorker>>
    /\ UNCHANGED <<slot, slots, leased, socket, opened, unacked>>

(* send: what is not written is not acknowledged, and a client that is     *)
(* behind by more than WebSocketSendBuffer is closed                       *)
PassOn ==
    /\ leased /\ Serves("send")
    /\ IF closing \/ socket = "closed"
       THEN UNCHANGED <<outgoing, closing, paused>>
       ELSE \/ outgoing # <<>> /\ StartClose
            \/ /\ outgoing' = Append(outgoing, Head(toServer).part)
               /\ UNCHANGED <<closing, paused>>
    /\ UNCHANGED <<slot, slots, leased, socket, opened, unacked, toWorker>>

ClosedByWorker ==
    /\ leased /\ Serves("wsClose")
    /\ StartClose
    /\ UNCHANGED <<slot, slots, leased, socket, opened, unacked, toWorker>>

-----------------------------------------------------------------------------
(* The client                                                              *)

NotClient == <<phase, slotVars, leased, connectionVars, toServer, process, sessionVars>>

ClientSays ==
    /\ client = "there" /\ opened /\ socket = "open"
    /\ ~Contains(incoming, CloseFrame)
    /\ \/ said < Messages /\ said' = said + 1 /\ incoming' = Append(incoming, said')
       \/ incoming' = Append(incoming, CloseFrame) /\ UNCHANGED said
    /\ UNCHANGED <<NotClient, client, outgoing, got, toWorker>>

ClientTakes ==
    /\ client \in {"there", "silent"} /\ socket = "open"
    /\ outgoing # <<>>
    /\ outgoing' = Tail(outgoing)
    /\ IF Head(outgoing) = CloseFrame
       THEN UNCHANGED <<got, toWorker>>
       ELSE got' = Append(got, Head(outgoing)) /\ toWorker' = Send("ack")
    /\ UNCHANGED <<NotClient, client, said, incoming>>

ClientSilent ==
    /\ client = "there" /\ opened
    /\ client' = "silent"
    /\ UNCHANGED <<NotClient, said, incoming, outgoing, got, toWorker>>

(* A client that leaves while its request waits for a worker is taken out  *)
(* of the line, which gives the slot back.  One that leaves before that is *)
(* not looked at.                                                          *)
ClientLeaves ==
    /\ client # "gone"
    /\ phase = "resolving" => LeavesEarly
    /\ client' = "gone"
    /\ IF phase = "acquiring"
       THEN phase' = "answered" /\ ReleaseSlot
       ELSE UNCHANGED <<phase, slot, slots>>
    /\ socket' = IF phase = "serving" THEN socket ELSE "closed"
    /\ UNCHANGED <<others, leased, said, incoming, outgoing, got, opened, closing, paused, unacked>>
    /\ UNCHANGED <<toWorker, toServer, process, sessionVars>>

-----------------------------------------------------------------------------
(* The session of the worker                                               *)

NotWorker == <<phase, slotVars, leased, clientVars, connectionVars>>

Gets(type) ==
    /\ process = "up"
    /\ toWorker # <<>>
    /\ Head(toWorker).type = type
    /\ toWorker' = Tail(toWorker)
    /\ UNCHANGED <<NotWorker, process>>

Started ==
    /\ Gets("request")
    /\ running' = TRUE /\ ws' = TRUE /\ stream' = TRUE
    /\ UNCHANGED <<answer, aborted, messageVars, toServer>>

(* mutant: the messages of a client are handled as they come               *)
MessageInFront ==
    /\ Gets("message")
    /\ inbox' = <<Head(toWorker).part>> \o inbox
    /\ receiving' = TRUE
    /\ UNCHANGED <<contextVars, waiting, handling, started, pushed, settled, closedSeen, toServer>>

(* receiveWsMessage puts the message behind the ones before it             *)
Message ==
    /\ Gets("message")
    /\ inbox' = Append(inbox, Head(toWorker).part)
    /\ receiving' = TRUE
    /\ UNCHANGED <<contextVars, waiting, handling, started, pushed, settled, closedSeen, toServer>>

Acknowledged ==
    /\ Gets("ack")
    /\ IF stream /\ waiting # <<>>
       THEN waiting' = Tail(waiting) /\ settled' = Append(settled, Head(waiting))
       ELSE UNCHANGED <<waiting, settled>>
    /\ UNCHANGED <<contextVars, inbox, handling, receiving, started, pushed, closedSeen, toServer>>

(* mutant: what waits for the client is not told                           *)
CloseUnsettled ==
    /\ Gets("close")
    /\ ws' = FALSE /\ receiving' = FALSE
    /\ aborted' = (aborted \/ ws)
    /\ stream' = (stream /\ ~ws)
    /\ closedSeen' = closedSeen + 1
    /\ UNCHANGED <<answer, running, waiting, inbox, handling, started, pushed, settled, toServer>>

(* closeWsConnection: what the worker waits for will not come              *)
CloseWsConnection ==
    /\ ws' = FALSE /\ receiving' = FALSE
    /\ IF ws
       THEN aborted' = TRUE /\ waiting' = <<>> /\ stream' = FALSE
       ELSE UNCHANGED <<aborted, waiting, stream>>

(* closeConnection: the worker is called once more to be told              *)
Close ==
    /\ Gets("close")
    /\ CloseWsConnection
    /\ closedSeen' = closedSeen + 1
    /\ UNCHANGED <<answer, running, inbox, handling, started, pushed, settled, toServer>>

Works == process = "up" /\ UNCHANGED <<NotWorker, process, toWorker>>

(* the chain of the messages: one that comes to its turn after the close   *)
(* is dropped                                                              *)
HandleNext ==
    /\ Works
    /\ handling = 0 /\ inbox # <<>>
    /\ inbox' = Tail(inbox)
    /\ IF ws
       THEN handling' = Head(inbox) /\ started' = Append(started, Head(inbox))
       ELSE UNCHANGED <<handling, started>>
    /\ UNCHANGED <<contextVars, waiting, receiving, pushed, settled, closedSeen, toServer>>

HandleDone ==
    /\ Works
    /\ handling # 0
    /\ handling' = 0
    /\ toServer' = Append(toServer, Msg("wsAck"))
    /\ UNCHANGED <<contextVars, waiting, inbox, receiving, started, pushed, settled, closedSeen>>

AcceptUpgrade ==
    /\ Works /\ running /\ answer = "none"
    /\ answer' = "accepted"
    /\ stream' = FALSE
    /\ toServer' = Append(toServer, Msg("response"))
    /\ UNCHANGED <<running, ws, aborted, messageVars>>

RefuseUpgrade ==
    /\ Works /\ running /\ answer = "none"
    /\ answer' = "refused"
    /\ stream' = FALSE /\ ws' = FALSE
    /\ toServer' = Append(toServer, Msg("refusal"))
    /\ UNCHANGED <<running, aborted, messageVars>>

FunctionReturns ==
    /\ Works /\ running
    /\ answer # "none"
    /\ running' = FALSE
    /\ stream' = (stream /\ (ws \/ waiting # <<>>))
    /\ UNCHANGED <<answer, ws, aborted, messageVars, toServer>>

(* sendWsMessage: false at once when the connection is gone                *)
Push ==
    /\ Works
    /\ answer = "accepted" /\ ~aborted
    /\ pushed < Pushes
    /\ pushed' = pushed + 1
    /\ stream' = TRUE
    /\ waiting' = Append(waiting, pushed')
    /\ toServer' = Append(toServer, Numbered("send", pushed'))
    /\ UNCHANGED <<answer, running, ws, aborted, inbox, handling, receiving, started, settled, closedSeen>>

PushClose ==
    /\ Works
    /\ answer = "accepted" /\ ~aborted
    /\ \A i \in 1..Len(toServer) : toServer[i].type # "wsClose"
    /\ ~closing
    /\ stream' = TRUE
    /\ toServer' = Append(toServer, Msg("wsClose"))
    /\ UNCHANGED <<answer, running, ws, aborted, messageVars>>

-----------------------------------------------------------------------------
(* The end of the process: the pool fails the connection                   *)

Exit ==
    /\ Exits /\ process = "up"
    /\ process' = "gone"
    /\ UNCHANGED <<NotWorker, toWorker, toServer, sessionVars>>

Exited ==
    /\ process = "gone" /\ toServer = <<>>
    /\ process' = "closed"
    /\ IF leased
       THEN /\ socket' = "closed" /\ incoming' = <<>> /\ outgoing' = <<>>
            /\ Cleanup
       ELSE UNCHANGED <<socket, incoming, outgoing, leased, slot, slots>>
    /\ UNCHANGED <<phase, others, client, said, got, opened, closing, paused, unacked>>
    /\ UNCHANGED <<toWorker, toServer, sessionVars>>

ServerStep ==
    \/ Receive \/ ReceiveClose \/ ReceiveIgnored \/ Idle \/ CloseTimeout \/ NoticeGone
    \/ Dropped \/ Accepted \/ Refused \/ Taken \/ PassOn \/ ClosedByWorker \/ Exited

SessionStep == Started \/ Message \/ Acknowledged \/ Close \/ HandleNext

Next ==
    \/ OthersCome \/ OthersGo \/ Resolved \/ NoWorker \/ Acquired \/ GoingAway
    \/ ServerStep \/ SessionStep
    \/ ClientSays \/ ClientTakes \/ ClientSilent \/ ClientLeaves
    \/ HandleDone \/ AcceptUpgrade \/ RefuseUpgrade \/ FunctionReturns \/ Push \/ PushClose
    \/ Exit

Spec == Init /\ [][Next]_vars

(* The event loops of both processes go on, and the timers of a connection *)
(* fire.  Nothing is assumed of the client and of the functions.           *)
FairSpec ==
    /\ Spec
    /\ WF_vars(Resolved) /\ WF_vars(Acquired)
    /\ WF_vars(ServerStep) /\ WF_vars(SessionStep)
    /\ WF_vars(NoticeGone) /\ WF_vars(CloseTimeout)

-----------------------------------------------------------------------------
(* What holds                                                              *)

Count(queue, type) == Among(queue, [type : {type}, part : Nat])

(* A message that the server counts as unacknowledged is on its way, waits *)
(* in the chain, is handled or its acknowledgement is on its way.  So a    *)
(* client that is paused is resumed when the worker goes on, and a slow    *)
(* worker has no more waiting than the window and the chunk that filled    *)
(* it.                                                                     *)
ClientPaced ==
    (leased /\ process = "up") =>
        /\ unacked = Count(toWorker, "message") + Len(inbox) + (IF handling = 0 THEN 0 ELSE 1)
                       + Count(toServer, "wsAck")
        /\ unacked < Window + Together
        /\ (socket = "open" /\ ~closing) => paused = (unacked >= Window)

(* The slots of a file are those of its connections: each is held as long  *)
(* as the connection waits for a worker or has one, and given back once,   *)
(* whichever way the connection ends.                                      *)
SlotsCounted ==
    /\ slots = others + (IF slot = "held" THEN 1 ELSE 0)
    /\ slot = "held" <=> (phase = "acquiring" \/ leased)

(* A promise that settles with true is of a message that the client took.  *)
TrueWhenTaken == IsPrefix(settled, got)

(* A connection that is over in the server is over in the worker: nothing  *)
(* waits, the context is dropped, and the worker was told of the close,    *)
(* once.                                                                   *)
NothingForgotten ==
    /\ closedSeen <= 1
    /\ (phase = "serving" /\ ~leased /\ process = "up" /\ toWorker = <<>> /\ toServer = <<>>) =>
          /\ waiting = <<>> /\ ~ws /\ ~receiving
          /\ running \/ ~stream
          /\ answer = "accepted" => closedSeen = 1

(* A client that is gone, also while it is paused, and a close of either   *)
(* side give the worker and the slot back.                                 *)
GivenBack == (client = "gone" \/ closing) ~> (~leased /\ slot # "held")

Numbers(n) == [i \in 1..n |-> i]

(* What a client says reaches the worker in order, up to the close.        *)
Upward == INSTANCE Delivery WITH
    Part <- 1..Messages,
    given <- Numbers(said),
    ended <- FALSE,
    taken <- started,
    outcome <- IF closedSeen > 0 \/ process # "up" THEN "cut" ELSE "open"

(* What the worker sends reaches the client in order, up to the close.     *)
Downward == INSTANCE Delivery WITH
    Part <- 1..Pushes,
    given <- Numbers(pushed),
    ended <- FALSE,
    taken <- got,
    outcome <- IF socket = "closed" \/ client = "gone" THEN "cut" ELSE "open"

MessagesAreDelivered == Upward!Spec /\ Downward!Spec
=============================================================================
