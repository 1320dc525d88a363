----------------------------- MODULE Questions -----------------------------
(***************************************************************************)
(* The questions of a worker for the metrics of the server: one request,   *)
(* or a websocket with handlers that run beside each other (the one of     *)
(* the upgrade, one at a time of the messages, the one of the close).  The *)
(* questions carry no number: an answer is for the first that waits.       *)
(***************************************************************************)
EXTENDS Integers, Sequences

CONSTANT Messages  \* number of messages that the client of a websocket sends

VARIABLES
    kind,        \* "http" or "websocket"
    handlers,    \* "none", "running", "asking" or "done"
    waiting,     \* metricsWaiting: the handlers that asked, in their order
    stream,      \* the stream of the response, or of the open websocket
    receiving,   \* messages were received since the connection opened
    line,        \* the messages that wait for the handler of the one before
    kept,        \* the request has a context
    toServer, toWorker,
    subscribed,  \* the server knows the request still
    upgraded,    \* the upgrade was answered
    reads,       \* how often the metrics were read
    asked,       \* that number when the handler asked
    got,         \* the number of what it was answered
    cleared      \* handlers whose question was dropped before its answer came

vars == <<kind, handlers, waiting, stream, receiving, line, kept, toServer, toWorker, subscribed,
          upgraded, reads, asked, got, cleared>>
contextVars == <<waiting, stream, receiving, line, kept>>
history == <<asked, got, cleared>>

Opening == 0
Closing == Messages + 1
Handlers == Opening..Closing
Waits == {h \in Handlers : handlers[h] = "asking"}

Init ==
    /\ kind \in {"http", "websocket"}
    /\ handlers = [h \in Handlers |-> IF h = Opening THEN "running" ELSE "none"]
    /\ waiting = <<>> /\ stream = TRUE /\ receiving = FALSE /\ line = <<>> /\ kept = TRUE
    /\ toServer = <<>> /\ toWorker = <<>>
    /\ subscribed = TRUE /\ upgraded = FALSE
    /\ reads = 0 /\ asked = [h \in Handlers |-> -1] /\ got = asked /\ cleared = {}

(* release: a context is dropped once nothing is left in it                *)
Release == kept' = (kept /\ (stream' \/ receiving' \/ waiting' # <<>>))

-----------------------------------------------------------------------------
(* The worker                                                              *)

(* getMetrics, once per handler; the handler may wait for it or not        *)
Request(h) ==
    /\ handlers[h] = "running" /\ asked[h] = -1
    /\ handlers' = [handlers EXCEPT ![h] = "asking"]
    /\ waiting' = Append(waiting, h) /\ kept' = TRUE
    /\ toServer' = Append(toServer, "question")
    /\ asked' = [asked EXCEPT ![h] = reads]
    /\ UNCHANGED <<kind, stream, receiving, line, toWorker, subscribed, upgraded, reads, got, cleared>>

(* the answer to the upgrade, after which messages may come                *)
Upgrade ==
    /\ kind = "websocket" /\ handlers[Opening] \in {"running", "asking"}
    /\ ~upgraded /\ "upgrade" \notin {toServer[i] : i \in DOMAIN toServer}
    /\ toServer' = Append(toServer, "upgrade")
    /\ UNCHANGED <<kind, handlers, contextVars, toWorker, subscribed, upgraded, reads, history>>

(* clear, by the end of the handler of a request or of a close             *)
Clear(h) ==
    IF h \in {Opening, Closing} /\ kept
    THEN /\ waiting' = <<>>
         /\ cleared' = cleared \cup {waiting[i] : i \in DOMAIN waiting}
    ELSE UNCHANGED <<waiting, cleared>>

Ends(h) ==
    /\ handlers[h] \in {"running", "asking"}
    /\ handlers' = [handlers EXCEPT ![h] = "done"]
    /\ Clear(h)
    /\ stream' = (stream /\ ~(h = Opening /\ kind = "http"))
    /\ UNCHANGED receiving /\ Release
    /\ UNCHANGED <<kind, line, toServer, toWorker, subscribed, upgraded, reads, asked, got>>

(* receiveWsMessage: a message waits for the handler of the one before it; *)
(* when the connection closed meanwhile, its handler is not called         *)
HandleNext ==
    /\ line # <<>>
    /\ \A h \in 1..Messages : handlers[h] \in {"none", "done"}
    /\ handlers' = [handlers EXCEPT ![Head(line)] = IF stream THEN "running" ELSE "done"]
    /\ line' = Tail(line)
    /\ UNCHANGED <<kind, waiting, stream, receiving, kept, toServer, toWorker, subscribed, upgraded,
                   reads, history>>

(* Mutant: the last question gets the answer.                              *)
ReceiveLast(n) ==
    /\ waiting # <<>>
    /\ LET h == waiting[Len(waiting)] IN
       /\ waiting' = SubSeq(waiting, 1, Len(waiting) - 1)
       /\ handlers' = [handlers EXCEPT ![h] = IF @ = "asking" THEN "running" ELSE @]
       /\ got' = [got EXCEPT ![h] = n]

(* receive: the first question gets the answer                             *)
Receive(n) ==
    /\ waiting # <<>>
    /\ LET h == Head(waiting) IN
       /\ waiting' = Tail(waiting)
       /\ handlers' = [handlers EXCEPT ![h] = IF @ = "asking" THEN "running" ELSE @]
       /\ got' = [got EXCEPT ![h] = n]

(* messageListener                                                         *)
ReceiveAnswer(n) ==
    /\ IF waiting # <<>> THEN Receive(n) ELSE UNCHANGED <<waiting, handlers, got>>
    /\ UNCHANGED <<stream, receiving>> /\ Release
    /\ UNCHANGED <<line, asked, cleared>>

ReceiveMessage(m) ==
    /\ line' = Append(line, m) /\ receiving' = TRUE /\ kept' = TRUE
    /\ UNCHANGED <<handlers, waiting, stream, history>>

CloseConnection ==
    /\ stream' = FALSE /\ receiving' = FALSE /\ UNCHANGED waiting /\ Release
    /\ handlers' = [handlers EXCEPT ![Closing] = "running"]
    /\ UNCHANGED <<line, history>>

MessageListener ==
    /\ toWorker # <<>> /\ toWorker' = Tail(toWorker)
    /\ LET message == Head(toWorker) IN
       CASE message.type = "answer" -> ReceiveAnswer(message.n)
         [] message.type = "message" -> ReceiveMessage(message.n)
         [] message.type = "close" -> CloseConnection
    /\ UNCHANGED <<kind, toServer, subscribed, upgraded, reads>>

-----------------------------------------------------------------------------
(* The server and the client                                               *)

Tell(type, n) == toWorker' = Append(toWorker, [type |-> type, n |-> n])

(* the listener of the lease: nobody listens when the request is over      *)
Listener ==
    /\ toServer # <<>> /\ toServer' = Tail(toServer)
    /\ \/ ~subscribed /\ UNCHANGED <<toWorker, reads, upgraded>>
       \/ /\ subscribed /\ Head(toServer) = "question"
          /\ reads' = reads + 1 /\ Tell("answer", reads + 1) /\ UNCHANGED upgraded
       \/ /\ subscribed /\ Head(toServer) = "upgrade"
          /\ upgraded' = TRUE /\ UNCHANGED <<toWorker, reads>>
    /\ UNCHANGED <<kind, handlers, contextVars, subscribed, history>>

SendsMessage ==
    /\ subscribed /\ upgraded
    /\ \E m \in 1..Messages :
        /\ handlers[m] = "none"
        /\ \A i \in DOMAIN toWorker : toWorker[i] # [type |-> "message", n |-> m]
        /\ \A i \in DOMAIN line : line[i] # m
        /\ m > 1 => \/ handlers[m - 1] # "none" \/ \E i \in DOMAIN line : line[i] = m - 1
                    \/ \E i \in DOMAIN toWorker : toWorker[i] = [type |-> "message", n |-> m - 1]
        /\ Tell("message", m)
    /\ UNCHANGED <<kind, handlers, contextVars, toServer, subscribed, upgraded, reads, history>>

(* the response is over or its client left, or the websocket closed: the   *)
(* lease is given back                                                     *)
Over ==
    /\ subscribed /\ subscribed' = FALSE
    /\ IF kind = "websocket" THEN Tell("close", 0) ELSE UNCHANGED toWorker
    /\ UNCHANGED <<kind, handlers, contextVars, toServer, upgraded, reads, history>>

Next ==
    \/ \E h \in Handlers : Request(h) \/ Ends(h)
    \/ Upgrade \/ HandleNext \/ MessageListener \/ Listener \/ SendsMessage \/ Over

Spec == Init /\ [][Next]_vars

-----------------------------------------------------------------------------
(* A handler that waits for the metrics of a request that the server still *)
(* knows gets its answer: it has its place among the questions, and as     *)
(* many questions and answers are under way.  What it gets was read after  *)
(* it asked ("the answers come in the order of the questions",             *)
(* create-request-contexts.ts:21).  Not so once the handler of the upgrade *)
(* or of the close ended: its end drops the questions of the others too,   *)
(* and the answers to those, when they come, are taken for later ones.     *)
QuestionsAreAnswered ==
    LET underway ==
            Len(SelectSeq(toServer, LAMBDA type : type = "question"))
            + Len(SelectSeq(toWorker, LAMBDA message : message.type = "answer"))
    IN
    /\ subscribed => \A h \in Waits \ cleared :
        \E i \in DOMAIN waiting : waiting[i] = h /\ underway >= i
    /\ cleared = {} => \A h \in Handlers : got[h] # -1 => got[h] > asked[h]
    /\ kept \/ (waiting = <<>> /\ ~stream /\ ~receiving)
=============================================================================
