------------------------------ MODULE Exchange ------------------------------
(***************************************************************************)
(* One request between its client, the server and a worker process: how    *)
(* the body goes up and the response comes down over the channel of the    *)
(* worker, or over the connection itself once one end gave it to the       *)
(* other, and how the request ends from either side.                       *)
(*                                                                         *)
(* The server's half is serve-request.ts with the message listener, the    *)
(* request listeners, the response timeout and the two hand-offs; the      *)
(* worker's half is its session with the contexts of the requests, the     *)
(* response sender, the upload and streamResponse.  Between them are the   *)
(* channel, which keeps the order of each direction, and the IPC channel   *)
(* of node for connections, which has no order with the other.  A step is  *)
(* one handler of one process.                                             *)
(***************************************************************************)
EXTENDS Naturals, Sequences, FiniteSets, SequencesExt, Queues

CONSTANTS
    Kinds,           \* of requests: "bare", "upload", "give" (hands over)
    Parts,           \* parts of an uploaded body
    Limited,         \* limitRequestBody is set, any part may exceed it
    Window,          \* RequestBodyWindow
    HighWater,       \* parts a reader may fall behind
    Chunks,          \* parts of a streamed response
    ResponseWindow,  \* window of streamResponse
    Timeout,         \* limitResponseTimeout is set
    Answers,         \* ways a worker answers: "plain", "stream", "ask"
    LeavesEarly,     \* the client may be gone before the request is served
    Awaits,          \* its function returns after its response is done
    SourceFails,     \* the source of a streamed response may fail
    IpcBusy,         \* the IPC channel may be held by another hand-off
    Exits            \* the process may end

ASSUME SizesAssumption ==
    /\ {Parts, Chunks} \subseteq Nat
    /\ {Window, HighWater, ResponseWindow} \subseteq Nat \ {0}

ASSUME ChoicesAssumption ==
    /\ Kinds \subseteq {"bare", "upload", "give"}
    /\ Answers \subseteq {"plain", "stream", "ask"}
    /\ {Limited, Timeout, LeavesEarly, Awaits, SourceFails, IpcBusy, Exits} \subseteq BOOLEAN

VARIABLES
    \* the client and its connection
    kind,        \* how the body of the request goes
    client,      \* "there" or "gone"
    owner,       \* of the connection: "server", "wire", "worker", "closed"
    got,         \* what the client received of a response
    \* the server
    arrived,     \* parts of the body that were read
    bodyDone,    \* the end of the body was passed on
    paused,      \* the request is not read
    unacked,     \* unacknowledged: parts the worker has not taken
    response,    \* "open", "started", "ended", "finished" or "destroyed"
    unwritten,   \* written to the response, not taken by the client yet
    timer,       \* of the response: "unset", "armed" or "cleared"
    logged,      \* lines of the access log with its response
    leased,      \* the lease and the listeners of the request are there
    handing,     \* hand-off of the response: "no", "head", "active", "done"
    giving,      \* hand-off of the request: "no", "active" or "done"
    sending,     \* lease.handOff: "no", "queued" or "sent"
    \* the ways between the two processes
    toWorker, toServer,
    ipc,         \* messages of the IPC channel, with or without connection
    \* the worker process
    process,     \* "up", "gone" or "closed" (and its close was handled)
    running,     \* the function of the worker: "no", "yes" or "returned"
    answer,      \* how far the response is: "none" (not responded),
                 \* "sent" (in one message), "asking" (for the
                 \* connection), "streaming" or "piping" (under way,
                 \* through the server or on the connection), "closing"
                 \* (the connection is done, the server not told),
                 \* "last" (the end was sent) or "over"
    produced,    \* parts of the response that were handed over
    stream,      \* the context of the request has its stream
    aborted,     \* stream.aborted
    waiting,     \* the parts whose promise is not settled, 0 for the end
    upload,      \* stream of the body: "none", "open", "ended", "destroyed"
    buffer,      \* its parts that were not read yet
    owed,        \* its parts that were not acknowledged as it was full
    taken        \* the parts that the worker read

clientVars == <<kind, client, owner, got>>
uploadVars == <<arrived, bodyDone, paused, unacked>>
serverVars == <<response, unwritten, timer, leased>>
handVars == <<handing, giving, sending>>
wires == <<toWorker, toServer, ipc>>
answerVars == <<running, answer, produced, stream, aborted, waiting>>
readerVars == <<upload, buffer, owed, taken>>
workerVars == <<process, answerVars, readerVars>>

vars == <<clientVars, uploadVars, serverVars, handVars, wires, workerVars>>
all == <<vars, logged>>

(* a response in one message, and a text of the server, among the parts    *)
Whole == 0
ErrorText == Chunks + 1

Msg(type) == [type |-> type, part |-> 0]
(* serveRequest has subscribed, armed the timer and sent the request: as a *)
(* message, or with the connection (createRequestHandOff.start).  A client *)
(* that left while the file of the request was looked for is not noticed:  *)
(* its response closed before anything listened to it.                     *)
Init ==
    /\ kind \in Kinds
    /\ client \in {"there"} \cup {c \in {"gone"} : LeavesEarly /\ kind # "give"}
    /\ got = <<>>
    /\ arrived = 0
    /\ bodyDone = FALSE
    /\ paused = FALSE
    /\ unacked = 0
    /\ response = IF client = "gone" THEN "destroyed" ELSE "open"
    /\ unwritten = <<>>
    /\ logged = 0
    /\ timer = IF kind = "give" THEN "cleared" ELSE IF Timeout THEN "armed" ELSE "unset"
    /\ leased = TRUE
    /\ handing = "no"
    /\ giving = IF kind = "give" THEN "active" ELSE "no"
    /\ sending = IF kind = "give" THEN "queued" ELSE "no"
    /\ owner = IF client = "gone" THEN "closed" ELSE "server"
    /\ ipc = <<>>
    /\ toWorker = IF kind = "give" THEN <<>> ELSE <<Msg("request")>>
    /\ toServer = <<>>
    /\ process = "up"
    /\ running = "no"
    /\ answer = "none"
    /\ produced = 0
    /\ stream = FALSE
    /\ aborted = FALSE
    /\ waiting = <<>>
    /\ upload = "none"
    /\ buffer = <<>>
    /\ owed = 0
    /\ taken = <<>>

-----------------------------------------------------------------------------
(* The end of a request in the server                                      *)

IsActive == handing = "active" \/ giving = "active"
IsHandedOff == handing \in {"active", "done"} \/ giving \in {"active", "done"}

(* lease.send: the channel of a worker that ended is forgotten             *)
Sent(queue, message) == IF process = "closed" THEN queue ELSE Append(queue, message)

ArmTimer == timer' = IF Timeout /\ timer = "unset" THEN "armed" ELSE timer

(* mutant: the worker is given back while it has the connection            *)
CleanupAtOnce(out) ==
    /\ timer' = "cleared"
    /\ leased' = FALSE
    /\ paused' = FALSE
    /\ toWorker' = IF response' # "finished" /\ ~IsHandedOff'
                   THEN Sent(out, Msg("abort")) ELSE out

(* cleanupConnection, after the rest of the handler has put its own        *)
(* messages in out: nothing is given back while the worker has the         *)
(* connection, and a worker that may still stream is told to stop.  What   *)
(* comes of the body after it is read and dropped.                         *)
Cleanup(out) ==
    /\ timer' = "cleared"
    /\ IF IsActive'
       THEN UNCHANGED <<leased, paused>> /\ toWorker' = out
       ELSE /\ leased' = FALSE
            /\ paused' = FALSE
            /\ toWorker' = IF response' # "finished" /\ ~IsHandedOff'
                           THEN Sent(out, Msg("abort")) ELSE out

(* failRequest: a text when nothing was sent yet, else the response is cut *)
FailRequest ==
    /\ IF response = "open"
       THEN response' = "ended" /\ unwritten' = Append(unwritten, ErrorText)
       ELSE /\ response' = IF response = "finished" THEN response ELSE "destroyed"
            /\ UNCHANGED unwritten
    /\ owner' = IF response' = "destroyed" /\ owner = "server" THEN "closed" ELSE owner
    /\ Cleanup(toWorker)

NotHanded == UNCHANGED <<giving, handing, sending>>

TimerFires ==
    /\ timer = "armed"
    /\ NotHanded
    /\ FailRequest
    /\ UNCHANGED <<kind, client, got, arrived, bodyDone, unacked, toServer, ipc, workerVars>>

-----------------------------------------------------------------------------
(* The client                                                              *)

(* mutant: the request is read on while the worker is behind               *)
UploadPartUnpaused ==
    /\ kind = "upload" /\ client = "there" /\ owner = "server"
    /\ leased /\ ~paused
    /\ arrived < Parts
    /\ arrived' = arrived + 1
    /\ toWorker' = Sent(toWorker, [type |-> "body", part |-> arrived'])
    /\ unacked' = unacked + 1
    /\ UNCHANGED <<paused, response, unwritten, owner, leased>>
    /\ ArmTimer
    /\ UNCHANGED <<kind, client, got, bodyDone, handVars, toServer, ipc, workerVars>>

(* bodyForwarder.part, with the answer to a body that is too big           *)
UploadPart ==
    /\ kind = "upload" /\ client = "there" /\ owner = "server"
    /\ leased /\ ~paused
    /\ arrived < Parts
    /\ arrived' = arrived + 1
    /\ NotHanded
    /\ \/ Limited /\ FailRequest /\ UNCHANGED unacked
       \/ /\ toWorker' = Sent(toWorker, [type |-> "body", part |-> arrived'])
          /\ unacked' = unacked + 1
          /\ paused' = (unacked' >= Window)
          /\ ArmTimer
          /\ UNCHANGED <<response, unwritten, owner, leased>>
    /\ UNCHANGED <<kind, client, got, bodyDone, toServer, ipc, workerVars>>

UploadEnd ==
    /\ kind = "upload" /\ client = "there" /\ owner = "server"
    /\ leased /\ ~paused
    /\ arrived = Parts /\ ~bodyDone
    /\ bodyDone' = TRUE
    /\ toWorker' = Sent(toWorker, Msg("body"))
    /\ UNCHANGED <<clientVars, arrived, paused, unacked, serverVars, handVars>>
    /\ UNCHANGED <<toServer, ipc, workerVars>>

(* what a write of a part does once it was written, or failed              *)
Written(part) ==
    IF part \in 1..Chunks
    THEN toWorker' = Sent(toWorker, Msg("ack")) /\ ArmTimer
    ELSE UNCHANGED <<toWorker, timer>>

ClientTakes ==
    /\ client = "there" /\ owner = "server"
    /\ response \in {"started", "ended"}
    /\ unwritten # <<>>
    /\ got' = Append(got, Head(unwritten))
    /\ unwritten' = Tail(unwritten)
    /\ Written(Head(unwritten))
    /\ UNCHANGED <<kind, client, owner, uploadVars, response, leased, handVars>>
    /\ UNCHANGED <<toServer, ipc, workerVars>>

(* node calls the callbacks of the writes that failed, or never does       *)
WriteFails ==
    /\ response = "destroyed"
    /\ unwritten # <<>>
    /\ unwritten' = Tail(unwritten)
    /\ Written(Head(unwritten))
    /\ UNCHANGED <<clientVars, uploadVars, response, leased, handVars>>
    /\ UNCHANGED <<toServer, ipc, workerVars>>

(* the finish of the response, which closes when the body was too big      *)
Finish ==
    /\ response = "ended" /\ unwritten = <<>>
    /\ client = "there" /\ owner = "server"
    /\ response' = "finished"
    /\ owner' \in {owner} \cup {o \in {"closed"} : Limited /\ Contains(got, ErrorText)}
    /\ NotHanded
    /\ IF leased THEN Cleanup(toWorker) ELSE UNCHANGED <<timer, leased, paused, toWorker>>
    /\ UNCHANGED <<kind, client, got, arrived, bodyDone, unacked, unwritten>>
    /\ UNCHANGED <<toServer, ipc, workerVars>>

(* The client goes away.  The server learns of it on a connection that it  *)
(* still reads, by the aborted request and the close of the response; the  *)
(* worker on one that it has.  A hand-off that waits for nothing else in   *)
(* the IPC channel leaves in the step that asks for it.                    *)
ClientLeaves ==
    /\ client = "there"
    /\ sending = "queued" => IpcBusy \/ giving = "active"
    /\ client' = "gone"
    /\ IF owner = "server" /\ giving # "active"
       THEN /\ owner' = "closed"
            /\ response' = IF response = "finished" THEN response ELSE "destroyed"
            /\ NotHanded
            /\ IF leased /\ response # "finished"
               THEN Cleanup(toWorker)
               ELSE UNCHANGED <<timer, leased, paused, toWorker>>
       ELSE UNCHANGED <<owner, response, handVars, timer, leased, paused, toWorker>>
    /\ UNCHANGED <<kind, got, arrived, bodyDone, unacked, unwritten, toServer, ipc, workerVars>>

-----------------------------------------------------------------------------
(* What the server does with the messages of the worker                    *)

Receives(type) ==
    /\ toServer # <<>>
    /\ Head(toServer).type = type
    /\ toServer' = Tail(toServer)
    /\ UNCHANGED <<kind, client, got, arrived, bodyDone, ipc, workerVars>>

(* nobody is subscribed to the request any more                            *)
ServerDrops ==
    /\ ~leased
    /\ \E type \in {"response", "emit", "bodyAck", "ask", "done"} : Receives(type)
    /\ UNCHANGED <<owner, paused, unacked, serverVars, handVars, toWorker>>

BodyTaken ==
    /\ leased /\ Receives("bodyAck")
    /\ unacked' = unacked - 1
    /\ paused' = (paused /\ unacked' >= Window)
    /\ ArmTimer
    /\ UNCHANGED <<owner, response, unwritten, leased, handVars, toWorker>>

(* what is written to a response that is destroyed is for nobody           *)
Unless(progress) == IF response = "destroyed" THEN "destroyed" ELSE progress

Respond ==
    /\ leased /\ Receives("response")
    /\ response' = Unless("ended")
    /\ unwritten' = Append(unwritten, Whole)
    /\ ArmTimer
    /\ UNCHANGED <<owner, paused, unacked, leased, handVars, toWorker>>

(* mutant: a part goes before the ones that wait                           *)
EmitInFront ==
    /\ leased /\ handing # "active" /\ Receives("emit")
    /\ LET part == Head(toServer).part IN
         IF part = 0
         THEN /\ response' = Unless("ended")
              /\ toWorker' = Sent(toWorker, Msg("ack"))
              /\ UNCHANGED unwritten
         ELSE /\ response' = Unless("started")
              /\ unwritten' = <<part>> \o unwritten
              /\ UNCHANGED toWorker
    /\ ArmTimer
    /\ UNCHANGED <<owner, paused, unacked, leased, handVars>>

(* emit: the worker waits for the acknowledgement of each part             *)
Emit ==
    /\ leased /\ handing # "active" /\ Receives("emit")
    /\ LET part == Head(toServer).part IN
         IF part = 0
         THEN /\ response' = Unless("ended")
              /\ toWorker' = Sent(toWorker, Msg("ack"))
              /\ UNCHANGED unwritten
         ELSE /\ response' = Unless("started")
              /\ unwritten' = Append(unwritten, part)
              /\ UNCHANGED toWorker
    /\ ArmTimer
    /\ UNCHANGED <<owner, paused, unacked, leased, handVars>>

(* emitAfterHandOff: the worker is done with the connection                *)
EmitAfterHandOff ==
    /\ leased /\ handing = "active" /\ Receives("emit")
    /\ Head(toServer).part = 0
    /\ handing' = "done"
    /\ UNCHANGED <<giving, sending, owner, response, unwritten, unacked>>
    /\ Cleanup(Sent(toWorker, Msg("ack")))

(* handOff.start up to its first await: what the request or the head does  *)
(* not allow is refused, before or after the head was written              *)
StartHandOff ==
    /\ leased /\ Receives("ask")
    /\ \/ /\ toWorker' = Sent(toWorker, Msg("refuse"))
          /\ response' \in {response} \cup {r \in {"started"} : response = "open"}
          /\ UNCHANGED handing
       \/ /\ kind = "bare" /\ response = "open"
          /\ response' = "started"
          /\ handing' = "head"
          /\ UNCHANGED toWorker
    /\ ArmTimer
    /\ UNCHANGED <<owner, paused, unacked, unwritten, leased, giving, sending>>

RequestHandOffDone ==
    /\ leased /\ Receives("done")
    /\ giving' = "done"
    /\ UNCHANGED <<handing, sending, owner, response, unwritten, unacked>>
    /\ Cleanup(toWorker)

-----------------------------------------------------------------------------
(* Hand-offs of the connection in the server                               *)

(* handOff.start after the head was written: the client may be gone        *)
HeadWritten ==
    /\ handing = "head"
    /\ IF owner = "closed"
       THEN handing' = "no" /\ UNCHANGED <<sending, timer>>
       ELSE handing' = "active" /\ sending' = "queued" /\ timer' = "cleared"
    /\ UNCHANGED <<clientVars, uploadVars, response, unwritten, leased, giving, wires, workerVars>>

(* The message leaves, at once when the IPC channel waits for nothing      *)
(* else.  Node sends the message alone when the socket was destroyed by    *)
(* then, and reports no error.                                             *)
SendConnection ==
    /\ sending = "queued" /\ process = "up"
    /\ sending' = "sent"
    /\ ipc' = Append(ipc, [type |-> IF handing = "active" THEN "response" ELSE "request",
                           with |-> owner = "server"])
    /\ owner' = IF owner = "server" THEN "wire" ELSE owner
    /\ UNCHANGED <<kind, client, got, uploadVars, serverVars, handing, giving>>
    /\ UNCHANGED <<toWorker, toServer, workerVars>>

(* the message was sent: socket.destroy(), with which the response closes  *)
ConnectionSent ==
    /\ sending = "sent"
    /\ sending' = "no"
    /\ response' = IF response = "finished" THEN response ELSE "destroyed"
    /\ UNCHANGED <<handing, giving>>
    /\ IF leased THEN Cleanup(toWorker) ELSE UNCHANGED <<timer, leased, paused, toWorker>>
    /\ UNCHANGED <<clientVars, arrived, bodyDone, unacked, unwritten, toServer, ipc, workerVars>>

(* the promise of lease.handOff rejects, the connection is still here      *)
ConnectionNotSent ==
    /\ sending = "queued" /\ process # "up"
    /\ sending' = "no"
    /\ handing' = "no" /\ giving' = "no"
    /\ IF leased
       THEN FailRequest
       ELSE UNCHANGED <<response, unwritten, owner, timer, leased, paused, toWorker>>
    /\ UNCHANGED <<kind, client, got, arrived, bodyDone, unacked, toServer, ipc, workerVars>>

-----------------------------------------------------------------------------
(* The session of the worker                                               *)

Gets(type) ==
    /\ process = "up"
    /\ toWorker # <<>>
    /\ Head(toWorker).type = type
    /\ toWorker' = Tail(toWorker)
    /\ UNCHANGED <<clientVars, uploadVars, serverVars, handVars, ipc, process>>

StartRequest ==
    /\ Gets("request")
    /\ running' = "yes"
    /\ stream' = TRUE
    /\ upload' = IF kind = "upload" THEN "open" ELSE "none"
    /\ UNCHANGED <<answer, produced, aborted, waiting, buffer, owed, taken, toServer>>

(* upload.receive: a part is acknowledged once the reader has room for it, *)
(* one that comes after the stream is gone is dropped                      *)
BodyPart ==
    /\ Gets("body")
    /\ LET part == Head(toWorker).part IN
         /\ upload' = IF upload = "open" /\ part = 0 THEN "ended" ELSE upload
         /\ IF upload = "open" /\ part # 0
            THEN /\ buffer' = Append(buffer, part)
                 /\ IF Len(buffer') < HighWater
                    THEN toServer' = Append(toServer, Msg("bodyAck")) /\ UNCHANGED owed
                    ELSE owed' = owed + 1 /\ UNCHANGED toServer
            ELSE UNCHANGED <<buffer, owed, toServer>>
    /\ UNCHANGED <<answerVars, taken>>

(* an acknowledgement settles the oldest promise of the stream             *)
Acknowledged ==
    /\ Gets("ack")
    /\ IF stream /\ waiting # <<>>
       THEN waiting' = Tail(waiting) /\ stream' = (Head(waiting) # 0)
       ELSE UNCHANGED <<waiting, stream>>
    /\ UNCHANGED <<running, answer, produced, aborted, readerVars, toServer>>

DestroyUpload == upload' = IF upload = "open" THEN "destroyed" ELSE upload

(* mutant: the parts that wait are not told                                *)
AbortUnsettled ==
    /\ Gets("abort")
    /\ DestroyUpload
    /\ answer' = IF answer = "asking" THEN "streaming" ELSE answer
    /\ aborted' = (aborted \/ stream)
    /\ UNCHANGED <<waiting, stream, running, produced, buffer, owed, taken, toServer>>

(* mutant: a body that was cut ends like a complete one                    *)
AbortEndsUpload ==
    /\ Gets("abort")
    /\ upload' = IF upload = "open" THEN "ended" ELSE upload
    /\ answer' = IF answer = "asking" THEN "streaming" ELSE answer
    /\ aborted' = (aborted \/ stream)
    /\ waiting' = <<>>
    /\ stream' = (stream /\ ~Contains(waiting, 0))
    /\ UNCHANGED <<running, produced, buffer, owed, taken, toServer>>

(* abortRequest: the question for a connection ends without one, the body  *)
(* is cut, and every promise of the stream settles with false              *)
AbortRequest ==
    /\ Gets("abort")
    /\ DestroyUpload
    /\ answer' = IF answer = "asking" THEN "streaming" ELSE answer
    /\ IF stream
       THEN /\ aborted' = TRUE
            /\ waiting' = <<>>
            /\ stream' = ~Contains(waiting, 0)
       ELSE UNCHANGED <<aborted, waiting, stream>>
    /\ UNCHANGED <<running, produced, buffer, owed, taken, toServer>>

Refused ==
    /\ Gets("refuse")
    /\ answer' = IF answer = "asking" THEN "streaming" ELSE answer
    /\ UNCHANGED <<running, produced, stream, aborted, waiting, readerVars, toServer>>

(* a request that came with its connection: the body is read from it and   *)
(* the response written to it                                              *)
StartHandedRequest == owner' = "worker" /\ running' = "yes" /\ UNCHANGED answer

(* receiveHandOff: a connection that nobody waits for is closed, a message *)
(* that came without one is ignored                                        *)
ReceiveConnection ==
    /\ process = "up" /\ ipc # <<>>
    /\ ipc' = Tail(ipc)
    /\ LET message == Head(ipc) IN
         \/ /\ ~message.with
            /\ UNCHANGED <<owner, answer, running>>
         \/ /\ message.with /\ message.type = "request"
            /\ StartHandedRequest
         \/ /\ message.with /\ message.type = "response"
            /\ IF answer = "asking"
               THEN owner' = "worker" /\ answer' = "piping"
               ELSE owner' = "closed" /\ UNCHANGED answer
            /\ UNCHANGED running
    /\ UNCHANGED <<kind, client, got, uploadVars, serverVars, handVars, toWorker, toServer>>
    /\ UNCHANGED <<process, produced, stream, aborted, waiting, readerVars>>

-----------------------------------------------------------------------------
(* What the function of the worker may do                                  *)

Works ==
    /\ process = "up"
    /\ running \in {"yes"} \cup {r \in {"returned"} : ~Awaits}
    /\ UNCHANGED <<kind, client, uploadVars, serverVars, handVars, toWorker, ipc, process>>

(* It reads the body.  Reading makes room, and the parts that waited for   *)
(* it are acknowledged.  A body on the connection itself is read from it.  *)
ReadBody ==
    /\ Works
    /\ upload \in {"open", "ended"} /\ buffer # <<>>
    /\ taken' = Append(taken, Head(buffer))
    /\ buffer' = Tail(buffer)
    /\ IF Len(buffer') < HighWater
       THEN toServer' = toServer \o [i \in 1..owed |-> Msg("bodyAck")] /\ owed' = 0
       ELSE UNCHANGED <<toServer, owed>>
    /\ UNCHANGED <<got, owner, upload, answerVars>>

ReadHandedBody ==
    /\ Works
    /\ kind = "give" /\ owner = "worker" /\ client = "there"
    /\ Len(taken) < Parts
    /\ taken' = Append(taken, Len(taken) + 1)
    /\ UNCHANGED <<got, owner, toServer, upload, buffer, owed, answerVars>>

(* sendResponse: the request is over for the worker                        *)
SendResponse ==
    /\ Works
    /\ "plain" \in Answers /\ kind # "give"
    /\ answer = "none"
    /\ answer' = "sent"
    /\ stream' = FALSE
    /\ toServer' = Append(toServer, Msg("response"))
    /\ DestroyUpload
    /\ UNCHANGED <<got, owner, running, produced, aborted, waiting, buffer, owed, taken>>

(* streamResponse asks for the connection first when it knows the length   *)
AskForConnection ==
    /\ Works
    /\ "ask" \in Answers /\ kind # "give"
    /\ answer = "none"
    /\ IF aborted
       THEN answer' = "streaming" /\ UNCHANGED toServer
       ELSE answer' = "asking" /\ toServer' = Append(toServer, Msg("ask"))
    /\ UNCHANGED <<got, owner, running, produced, stream, aborted, waiting, readerVars>>

(* sendResponsePart, for a part of a streamed response within the window   *)
(* of streamResponse; an aborted stream takes no more parts                *)
StreamPart ==
    /\ Works
    /\ answer = "streaming" \/ (answer = "none" /\ "stream" \in Answers /\ kind # "give")
    /\ produced < Chunks
    /\ Len(waiting) < ResponseWindow
    /\ IF aborted
       THEN answer' = "over" /\ UNCHANGED <<produced, stream, waiting, toServer>>
       ELSE /\ answer' = "streaming"
            /\ produced' = produced + 1
            /\ stream' = TRUE
            /\ waiting' = Append(waiting, produced')
            /\ toServer' = Append(toServer, [type |-> "emit", part |-> produced'])
    /\ UNCHANGED <<got, owner, running, aborted, readerVars>>

(* the end of the response: after the last part, after an error of the     *)
(* source, or to tell the server that the connection is done               *)
StreamEnd ==
    /\ Works
    /\ \/ answer = "streaming" /\ (produced = Chunks \/ SourceFails)
       \/ answer = "closing"
    /\ IF aborted
       THEN answer' = "over" /\ UNCHANGED <<stream, waiting, toServer, upload>>
       ELSE /\ answer' = "last"
            /\ stream' = TRUE
            /\ waiting' = Append(waiting, 0)
            /\ toServer' = Append(toServer, Msg("emit"))
            /\ DestroyUpload
    /\ UNCHANGED <<got, owner, running, produced, aborted, buffer, owed, taken>>

StreamSettled ==
    /\ Works
    /\ answer = "last" /\ waiting = <<>>
    /\ answer' = "over"
    /\ UNCHANGED <<got, owner, toServer, running, produced, stream, aborted, waiting, readerVars>>

(* writeToSocket and the responder of a handed request: a part of the body *)
(* goes to the client                                                      *)
WriteToSocket ==
    /\ Works
    /\ owner = "worker" /\ client = "there"
    /\ answer = "piping" \/ (kind = "give" /\ answer = "none")
    /\ produced < Chunks
    /\ answer' = "piping"
    /\ produced' = produced + 1
    /\ got' = Append(got, produced')
    /\ UNCHANGED <<owner, toServer, running, stream, aborted, waiting, readerVars>>

(* writeToSocket: the connection is closed, however that came about, and   *)
(* streamResponse goes on to tell the server                               *)
SocketWritten == answer' = "closing" /\ UNCHANGED toServer

(* The connection closes: after the last byte, when the client is gone,    *)
(* when nothing moved on it for the timeout, or by an error of the source. *)
(* For a handed request that is the end of it, the server is told at once. *)
CloseSocket ==
    /\ process = "up"
    /\ owner = "worker"
    /\ \/ answer = "piping" /\ (produced = Chunks \/ SourceFails)
       \/ client = "gone"
       \/ Timeout
    /\ owner' = "closed"
    /\ IF kind = "give"
       THEN answer' = "over" /\ toServer' = Append(toServer, Msg("done"))
       ELSE SocketWritten
    /\ UNCHANGED <<kind, client, got, uploadVars, serverVars, handVars, toWorker, ipc>>
    /\ UNCHANGED <<process, running, produced, stream, aborted, waiting, readerVars>>

(* The function is done.  It may not have answered; the context keeps a    *)
(* stream whose parts still wait.                                          *)
Return ==
    /\ Works
    /\ running = "yes"
    /\ Awaits => answer \in {"none", "sent", "over"}
    /\ running' = "returned"
    /\ stream' = (stream /\ waiting # <<>>)
    /\ UNCHANGED <<got, owner, toServer, answer, produced, aborted, waiting, readerVars>>

(* it throws: a worker that has not responded answers with a 500           *)
Throw ==
    /\ Works
    /\ running = "yes"
    /\ answer = "none"
    /\ kind # "give"
    /\ answer' = "sent"
    /\ running' = "returned"
    /\ stream' = FALSE
    /\ toServer' = Append(toServer, Msg("response"))
    /\ DestroyUpload
    /\ UNCHANGED <<got, owner, produced, aborted, waiting, buffer, owed, taken>>

-----------------------------------------------------------------------------
(* The end of the process                                                  *)

Exit ==
    /\ Exits
    /\ process = "up"
    /\ process' = "gone"
    /\ owner' = IF owner \in {"worker", "wire"} THEN "closed" ELSE owner
    /\ ipc' = <<>>
    /\ UNCHANGED <<kind, client, got, uploadVars, serverVars, handVars, toWorker, toServer>>
    /\ UNCHANGED <<answerVars, readerVars>>

(* mutant: the hand-off is not reset                                       *)
ClosedUnreset ==
    /\ process = "gone" /\ toServer = <<>>
    /\ process' = "closed"
    /\ NotHanded
    /\ IF leased
       THEN FailRequest
       ELSE UNCHANGED <<response, unwritten, owner, timer, leased, paused, toWorker>>
    /\ UNCHANGED <<kind, client, got, arrived, bodyDone, unacked, toServer, ipc>>
    /\ UNCHANGED <<answerVars, readerVars>>

(* node reports the close after the last message was read; the requests    *)
(* that still hold the worker fail                                         *)
Closed ==
    /\ process = "gone" /\ toServer = <<>>
    /\ process' = "closed"
    /\ UNCHANGED sending
    /\ IF leased
       THEN handing' = "no" /\ giving' = "no" /\ FailRequest
       ELSE UNCHANGED <<handing, giving, response, unwritten, owner, timer, leased, paused, toWorker>>
    /\ UNCHANGED <<kind, client, got, arrived, bodyDone, unacked, toServer, ipc>>
    /\ UNCHANGED <<answerVars, readerVars>>

-----------------------------------------------------------------------------

ServerStep ==
    \/ UploadPart \/ UploadEnd
    \/ ServerDrops \/ BodyTaken \/ Respond \/ Emit \/ EmitAfterHandOff \/ StartHandOff
    \/ RequestHandOffDone \/ HeadWritten \/ ConnectionSent \/ ConnectionNotSent
    \/ Finish \/ Closed

SessionStep ==
    \/ StartRequest \/ BodyPart \/ Acknowledged \/ AbortRequest \/ Refused
    \/ ReceiveConnection

WorkerStep ==
    \/ SendResponse \/ AskForConnection \/ StreamPart \/ StreamEnd \/ StreamSettled
    \/ WriteToSocket \/ Return \/ Throw

(* The access log hears of a response that finished, of one that closed as *)
(* its body is the worker's to write, and of one the worker wrote itself   *)
(* as the request was handed over, once the worker is done.                *)
AccessLogs ==
    LET finishes == response # "finished" /\ response' = "finished"
        closes == response # "destroyed" /\ response' = "destroyed"
        done == giving # "done" /\ giving' = "done"
    IN  logged' = IF finishes \/ done \/ (closes /\ handing' \in {"active", "done"})
                  THEN logged + 1 ELSE logged

Step ==
    \/ ServerStep \/ SessionStep \/ WorkerStep
    \/ ClientTakes \/ WriteFails \/ ClientLeaves \/ TimerFires
    \/ SendConnection \/ ReadBody \/ ReadHandedBody \/ CloseSocket \/ Exit

Next == Step /\ AccessLogs

Spec == Init /\ [][Next]_all

(* Both processes handle what has come, the connections are passed on, and *)
(* a timer that is armed fires when nothing moves any more.  Nothing is    *)
(* assumed of the client or of the function of the worker.                 *)
FairSpec ==
    /\ Spec
    /\ WF_vars(ServerStep)
    /\ WF_vars(SessionStep)
    /\ WF_vars(SendConnection)
    /\ WF_vars(TimerFires)
    /\ WF_vars(CloseSocket)
    /\ WF_vars(StreamEnd)

-----------------------------------------------------------------------------
(* What holds                                                              *)

BodyParts == Among(toWorker, [type : {"body"}, part : 1..Parts])
BodyAcks == Among(toServer, [type : {"bodyAck"}, part : Nat])

(* The pace of the upload is the worker's.  Each part that the server      *)
(* counts as unacknowledged is on its way, is owed by the stream that is   *)
(* full, or its acknowledgement is on its way: none is lost or counted     *)
(* twice while the body is taken.  The window holds, and what was          *)
(* acknowledged without having been read fits the stream, so that the      *)
(* parts in memory are bounded however slow the worker is, and a client    *)
(* that is paused is resumed once the worker reads.                        *)
UploadPaced ==
    (kind = "upload" /\ leased) =>
        /\ unacked <= Window
        /\ paused = (unacked = Window)
        /\ upload # "destroyed" =>
              /\ unacked = BodyParts + owed + BodyAcks
              /\ arrived - Len(taken) < Window + HighWater

(* While the process has the connection of the client the server counts    *)
(* the request as its load, so it is not stopped or evicted meanwhile.     *)
LeaseOutlivesConnection ==
    (process = "up" /\ owner \in {"wire", "worker"}) => leased

(* A request that is over for the server is over for the worker: no part   *)
(* waits for an acknowledgement, nobody waits for a connection, and the    *)
(* context is dropped with the end of the function.  Its response is in    *)
(* the access log once when it finished or the worker has written it, and  *)
(* never twice (access-logs.ts:64), however the hand-offs end.             *)
NothingForgotten ==
    /\ (~leased /\ process = "up" /\ toWorker = <<>> /\ toServer = <<>> /\ unwritten = <<>>) =>
          /\ waiting = <<>>
          /\ answer # "asking"
          /\ running = "returned" => ~stream /\ upload # "open"
    /\ logged <= 1
    /\ response = "finished" \/ giving = "done" => logged = 1
    /\ handing \in {"active", "done"} /\ response = "destroyed" => logged = 1

(* The client left while the hand-off of its response waited in the IPC    *)
(* channel, which another one held: the cleanup took it for a connection   *)
(* that the worker has, with no timer any more, and the message went       *)
(* without one, which the worker passes over and goes on waiting for.      *)
Stranded ==
    /\ handing = "active" /\ sending = "no" /\ timer = "cleared"
    /\ client = "gone" /\ owner = "closed" /\ response = "destroyed"
    /\ process = "up" /\ answer = "asking"

(* The worker is given back in the end, when there is a limit for the      *)
(* response: the client may take nothing or leave, the function may never  *)
(* answer or never return, the process may exit (serve-request.ts:28       *)
(* "until the request is over and the worker and the slot are given        *)
(* back").  The one exception is a request that stays stranded.            *)
WorkerIsGivenBack == <>[](~leased \/ Stranded)

(* The response, as the client sees it: it is complete when it finished or *)
(* the worker wrote all of it, and cut when the connection is gone before  *)
(* or a text of the server stands in for it.  One without parts is over    *)
(* only when it is ended.                                                  *)
Numbers(n) == [i \in 1..n |-> i]
IsFailed == Contains(IF owner = "server" THEN got \o unwritten ELSE got, ErrorText)

Response == INSTANCE Delivery WITH
    Part <- 0..Chunks,
    given <- IF answer = "sent" THEN <<Whole>> ELSE Numbers(produced),
    ended <- produced \in {Chunks} \ {0} \/ answer \in {"sent", "closing", "last", "over"},
    taken <- IF got = <<ErrorText>> THEN <<>> ELSE got,
    outcome <- IF IsFailed THEN "cut"
               ELSE IF response = "finished" THEN "complete"
               ELSE IF owner # "server" /\ Len(got) \in {Chunks} \ {0} THEN "complete"
               ELSE IF client = "gone" \/ owner = "closed" THEN "cut"
               ELSE "open"

ResponseIsDelivered == Response!Spec

(* The body, as the worker sees it: it is complete when its stream ends.   *)
(* One that the worker reads from the connection itself is not passed on.  *)
Upload == INSTANCE Delivery WITH
    Part <- 1..Parts,
    given <- Numbers(arrived),
    ended <- bodyDone,
    taken <- IF kind = "give" THEN <<>> ELSE taken,
    outcome <- IF upload = "ended" /\ buffer = <<>> THEN "complete"
               ELSE IF upload = "destroyed" \/ process # "up" THEN "cut"
               ELSE "open"

UploadIsDelivered == Upload!Spec
=============================================================================
