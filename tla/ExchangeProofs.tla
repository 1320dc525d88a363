--------------------------- MODULE ExchangeProofs ---------------------------
(***************************************************************************)
(* One request: its lease, then what its end leaves in the access log and  *)
(* in the worker.                                                          *)
(*                                                                         *)
(* The lease of a request outlives the connection in the worker, for every *)
(* size of a body, a window or a response and every choice of the request. *)
(* LeaseOutlivesConnection is not inductive.  A lease ends in one place,   *)
(* Cleanup, which spares it while a hand-off is active; so a hand-off must *)
(* be active as long as the connection is not the server's, and may only   *)
(* end when the connection was closed.  What ends it is a message of the   *)
(* worker, the last part of a streamed response or "done", and these mean  *)
(* that only if no other such message is still under way: nothing of a     *)
(* response goes before the answer to the question for the connection.     *)
(* Once the process has ended nothing is left to be shown.                 *)
(***************************************************************************)
EXTENDS Exchange, QueueProofs

Message ==
    [type : {"request", "body", "abort", "ack", "refuse", "response", "emit", "bodyAck",
             "ask", "done"},
     part : Nat]

HandOff == [type : {"request", "response"}, with : BOOLEAN]

TypeOK ==
    /\ kind \in {"bare", "upload", "give"}
    /\ client \in {"there", "gone"}
    /\ owner \in {"server", "wire", "worker", "closed"}
    /\ response \in {"open", "started", "ended", "finished", "destroyed"}
    /\ leased \in BOOLEAN
    /\ handing \in {"no", "head", "active", "done"}
    /\ giving \in {"no", "active", "done"}
    /\ sending \in {"no", "queued", "sent"}
    /\ toWorker \in Seq(Message)
    /\ toServer \in Seq(Message)
    /\ ipc \in Seq(HandOff)
    /\ process \in {"up", "gone", "closed"}
    /\ answer \in {"none", "sent", "asking", "streaming", "piping", "closing", "last", "over"}
    /\ arrived \in Nat /\ produced \in Nat /\ owed \in Nat

(* which way a request may be handed over                                  *)
Ways ==
    /\ kind = "give" => handing = "no" /\ answer \in {"none", "piping", "over"}
    /\ kind # "give" =>
          /\ giving = "no" /\ ~Has(toServer, "done")
          /\ handing \in {"no", "head"} => sending = "no"
    /\ handing # "no" => kind = "bare"

(* what the worker has sent, by how far its response is                    *)
SentSoFar ==
    /\ answer \in {"none", "asking", "piping", "closing"} => ~Has(toServer, "emit")
    /\ Has(toServer, "response") => answer = "sent"
    /\ Has(toServer, "ask") => answer # "none"
    /\ Once(toServer, "ask") /\ Once(toWorker, "refuse")

(* one question for the connection, and one answer to it                   *)
Question ==
    leased =>
        /\ Has(toServer, "ask") =>
              answer = "asking" /\ handing = "no" /\ ~Has(toWorker, "refuse")
        /\ Has(toWorker, "refuse") => answer = "asking" /\ handing = "no"
        /\ ~Has(toWorker, "abort")

(* one connection, which is on the wire as long as its message is          *)
Carried ==
    /\ \A i \in 1..Len(ipc) :
          ipc[i].with => owner = "wire" /\ (ipc[i].type = "request" <=> kind = "give")
    /\ \A i, j \in 1..Len(ipc) : ipc[i].with /\ ipc[j].with => i = j

(* the head of a response is written for the hand-off                      *)
HeadFirst ==
    handing = "head" =>
        /\ owner \in {"server", "closed"}
        /\ IF leased THEN answer = "asking" /\ response = "started" ELSE owner = "closed"

(* the connection of an active hand-off, by how far the response is        *)
Handed ==
    /\ handing = "active" =>
          /\ answer \in {"asking", "piping", "closing", "last", "over"}
          /\ sending = "queued" => answer = "asking"
          /\ answer \in {"closing", "last", "over"} => owner = "closed"
    /\ kind # "give" => (owner = "worker" <=> answer = "piping")
    /\ Has(toServer, "done") => owner = "closed" /\ sending # "queued"

(* the lease lasts as long as a hand-off, and that as the connection       *)
Lease ==
    /\ IsActive => leased
    /\ owner \in {"wire", "worker"} => IsActive
    /\ sending = "queued" => IsActive /\ owner \in {"server", "closed"}
    /\ handing = "done" => ~leased

Up == Ways /\ SentSoFar /\ Question /\ Carried /\ HeadFirst /\ Handed /\ Lease

IInv == TypeOK /\ (process = "up" => Up)

-----------------------------------------------------------------------------
(* Queues                                                                  *)

(* a message more at the end                                               *)
LEMMA Appended ==
    \A queue \in Seq(Message), m \in Message :
        /\ Append(queue, m) \in Seq(Message)
        /\ \A type : Has(Append(queue, m), type) <=> Has(queue, type) \/ m.type = type
        /\ \A type : Once(queue, type) /\ (m.type # type \/ ~Has(queue, type))
                        => Once(Append(queue, m), type)
  BY QueueAppended, HasAppended

(* the message at the head is taken                                        *)
LEMMA Taken ==
    \A queue \in Seq(Message) : queue # <<>> =>
        /\ Tail(queue) \in Seq(Message) /\ Head(queue) \in Message
        /\ \A type : Has(queue, type) <=> Head(queue).type = type \/ Has(Tail(queue), type)
        /\ \A type : Once(queue, type) =>
              /\ Once(Tail(queue), type)
              /\ Head(queue).type = type => ~Has(Tail(queue), type)
  BY QueueTaken, HasTaken

(* the acknowledgements that were owed go together                         *)
LEMMA Joined ==
    \A queue \in Seq(Message), n \in Nat :
        LET more == queue \o [i \in 1..n |-> Msg("bodyAck")] IN
        /\ more \in Seq(Message)
        /\ \A type : Has(more, type) => Has(queue, type) \/ type = "bodyAck"
        /\ \A type : Once(queue, type) /\ type # "bodyAck" => Once(more, type)
  <1> SUFFICES ASSUME NEW queue \in Seq(Message), NEW n \in Nat
               PROVE  LET more == queue \o [i \in 1..n |-> Msg("bodyAck")] IN
                      /\ more \in Seq(Message)
                      /\ \A type : Has(more, type) => Has(queue, type) \/ type = "bodyAck"
                      /\ \A type : Once(queue, type) /\ type # "bodyAck" => Once(more, type)
    OBVIOUS
  <1> DEFINE acks == [i \in 1..n |-> Msg("bodyAck")]
             more == queue \o acks
  <1>1. acks \in Seq(Message) /\ Len(acks) = n /\ \A i \in 1..n : acks[i].type = "bodyAck"
    BY DEF Message, Msg
  <1> HIDE DEF acks
  <1>2. /\ more \in Seq(Message) /\ Len(queue) \in Nat /\ Len(more) = Len(queue) + n
        /\ \A i \in 1..(Len(queue) + n) :
              more[i] = IF i <= Len(queue) THEN queue[i] ELSE acks[i - Len(queue)]
    <2>1. \A s, t \in Seq(Message) :
             /\ s \o t \in Seq(Message) /\ Len(s \o t) = Len(s) + Len(t)
             /\ \A i \in 1..(Len(s) + Len(t)) :
                   (s \o t)[i] = IF i <= Len(s) THEN s[i] ELSE t[i - Len(s)]
      BY ConcatProperties, Zenon
    <2>2. Len(queue) \in Nat OBVIOUS
    <2> QED BY <1>1, <2>1, <2>2
  <1> HIDE DEF more
  <1>3. \A i \in 1..Len(more) :
           \/ i \in 1..Len(queue) /\ more[i] = queue[i]
           \/ more[i].type = "bodyAck"
    BY <1>1, <1>2
  <1>4. \A type : Has(more, type) => Has(queue, type) \/ type = "bodyAck" BY <1>3 DEF Has
  <1>5. \A type : Once(queue, type) /\ type # "bodyAck" => Once(more, type) BY <1>3 DEF Once
  <1> QED BY <1>2, <1>4, <1>5 DEF more, acks

-----------------------------------------------------------------------------

LEMMA Initially == Init => IInv
  <1> SUFFICES ASSUME Init PROVE IInv OBVIOUS
  <1>1. TypeOK
    <2>1. Msg("request") \in Message BY DEF Msg, Message
    <2>2. toWorker \in Seq(Message) /\ toServer \in Seq(Message) /\ ipc \in Seq(HandOff)
      BY <2>1 DEF Init
    <2> QED BY <2>2, ChoicesAssumption DEF Init, TypeOK
  <1>2. /\ toServer = <<>> /\ ipc = <<>>
        /\ toWorker = <<>> \/ toWorker = <<Msg("request")>>
    BY DEF Init
  <1>3. /\ \A type : ~Has(toServer, type) /\ Once(toServer, type)
        /\ \A type : (Has(toWorker, type) => type = "request") /\ Once(toWorker, type)
    BY <1>2 DEF Has, Once, Msg
  <1>4. Ways /\ SentSoFar /\ Question BY <1>3 DEF Init, Ways, SentSoFar, Question
  <1>5. Carried BY <1>2 DEF Carried
  <1>6. HeadFirst /\ Handed /\ Lease BY <1>3 DEF Init, HeadFirst, Handed, Lease, IsActive
  <1> QED BY <1>1, <1>4, <1>5, <1>6 DEF IInv, Up

-----------------------------------------------------------------------------
(* What the parts of a step do                                             *)

LEMMA MessagesTyped ==
    /\ \A type \in {"request", "body", "abort", "ack", "refuse", "response", "emit", "bodyAck",
                    "ask", "done"} : Msg(type) \in Message /\ Msg(type).type = type
    /\ \A n \in Nat : [type |-> "body", part |-> n] \in Message
    /\ \A n \in Nat : [type |-> "emit", part |-> n] \in Message
  BY DEF Msg, Message

(* a message to the worker is added, or forgotten                          *)
LEMMA SentToWorker ==
    \A queue \in Seq(Message), m \in Message :
        /\ Sent(queue, m) \in Seq(Message)
        /\ process = "up" => Sent(queue, m) = Append(queue, m)
  BY Appended DEF Sent

(* the lease ends unless a hand-off is active, and an abort may be sent    *)
LEMMA CleanupDoes ==
    ASSUME TypeOK, NEW out \in Seq(Message), Cleanup(out)
    PROVE  /\ toWorker' \in Seq(Message)
           /\ leased' = (leased /\ IsActive')
           /\ IsActive' => toWorker' = out
           /\ \A type : Once(out, type) /\ type # "abort" => Once(toWorker', type)
  <1>1. Msg("abort") \in Message /\ Msg("abort").type = "abort" BY MessagesTyped
  <1>2. toWorker' = out \/ toWorker' = Append(out, Msg("abort")) BY DEF Cleanup, Sent
  <1>3. leased' = (leased /\ IsActive') /\ (IsActive' => toWorker' = out)
    BY DEF Cleanup, TypeOK
  <1>4. toWorker' \in Seq(Message) BY <1>1, <1>2, Appended
  <1>5. \A type : Once(out, type) /\ type # "abort" => Once(toWorker', type)
    BY <1>1, <1>2, Appended
  <1> QED BY <1>3, <1>4, <1>5

(* A step that gives the worker back, unless a hand-off is active, and     *)
(* that closes at most a connection of the server.                         *)
LEMMA CleanupKeeps ==
    ASSUME IInv, TypeOK', Cleanup(toWorker),
           UNCHANGED <<kind, handing, giving, sending, toServer, ipc, process, answer>>,
           owner' = owner \/ (owner = "server" /\ owner' = "closed"),
           (Up /\ process = "up" /\ handing = "head") => owner' = "closed"
    PROVE  IInv'
  <1>1. /\ leased' = (leased /\ IsActive')
        /\ IsActive' => toWorker' = toWorker
        /\ \A type : Once(toWorker, type) /\ type # "abort" => Once(toWorker', type)
    BY CleanupDoes DEF IInv, TypeOK
  <1>2. ASSUME process' = "up" PROVE Up'
    <2>1. Up BY <1>2 DEF IInv
    <2>2. IsActive' = IsActive BY DEF IsActive
    <2>3. Ways' BY <2>1 DEF Up, Ways
    <2>4. SentSoFar' BY <1>1, <2>1 DEF Up, SentSoFar
    <2>5. Question' BY <1>1, <2>1, <2>2 DEF Up, Question
    <2>6. Carried' BY <2>1 DEF Up, Carried
    <2>7. HeadFirst' BY <1>1, <1>2, <2>1, <2>2 DEF Up, Ways, HeadFirst, IsActive
    <2>8. Handed' BY <2>1 DEF Up, Handed
    <2>9. Lease' BY <1>1, <2>1, <2>2 DEF Up, Lease
    <2> QED BY <2>3, <2>4, <2>5, <2>6, <2>7, <2>8, <2>9 DEF Up
  <1> QED BY <1>2 DEF IInv

(* A step that only takes a message that no hand-off waits for, or adds    *)
(* one.                                                                    *)
LEMMA QuietKeeps ==
    ASSUME IInv, TypeOK',
           UNCHANGED <<kind, owner, leased, handing, giving, sending, ipc, process, answer>>,
           \A type \in {"ask", "emit", "response", "done"} :
               Has(toServer', type) => Has(toServer, type),
           \A type \in {"refuse", "abort"} : Has(toWorker', type) => Has(toWorker, type),
           Once(toServer, "ask") => Once(toServer', "ask"),
           Once(toWorker, "refuse") => Once(toWorker', "refuse"),
           (Up /\ handing = "head" /\ leased) => response' = response
    PROVE  IInv'
  <1>1. ASSUME process' = "up" PROVE Up'
    <2>1. Up BY <1>1 DEF IInv
    <2>2. IsActive' = IsActive BY DEF IsActive
    <2>3. Ways' BY <2>1 DEF Up, Ways
    <2>4. SentSoFar' BY <2>1 DEF Up, SentSoFar
    <2>5. Question' BY <2>1 DEF Up, Question
    <2>6. Carried' BY <2>1 DEF Up, Carried
    <2>7. HeadFirst' BY <2>1 DEF Up, HeadFirst
    <2>8. Handed' BY <2>1 DEF Up, Handed
    <2>9. Lease' BY <2>1, <2>2 DEF Up, Lease
    <2> QED BY <2>3, <2>4, <2>5, <2>6, <2>7, <2>8, <2>9 DEF Up
  <1> QED BY <1>1 DEF IInv

(* A step that at most closes a connection of the server.                  *)
LEMMA ClosesKeeps ==
    ASSUME IInv, TypeOK',
           UNCHANGED <<kind, leased, handing, giving, sending, toWorker, toServer, ipc, process,
                       answer>>,
           owner' = owner \/ (owner = "server" /\ owner' = "closed"),
           (Up /\ handing = "head" /\ leased) => response' = response
    PROVE  IInv'
  <1>1. ASSUME process' = "up" PROVE Up'
    <2>1. Up BY <1>1 DEF IInv
    <2>2. IsActive' = IsActive BY DEF IsActive
    <2>3. Ways' /\ SentSoFar' /\ Question' BY <2>1 DEF Up, Ways, SentSoFar, Question
    <2>4. Carried' BY <2>1 DEF Up, Carried
    <2>5. HeadFirst' BY <2>1 DEF Up, HeadFirst
    <2>6. Handed' BY <2>1 DEF Up, Handed
    <2>7. Lease' BY <2>1, <2>2 DEF Up, Lease
    <2> QED BY <2>3, <2>4, <2>5, <2>6, <2>7 DEF Up
  <1> QED BY <1>1 DEF IInv

-----------------------------------------------------------------------------
(* Steps of the client and the server                                      *)

(* the limit of the response: what it fails is not handed over             *)
LEMMA TimerFiresKeeps == ASSUME IInv, TimerFires PROVE IInv'
  <1> USE DEF TimerFires, FailRequest, NotHanded, workerVars, answerVars, readerVars
  <1>1. Cleanup(toWorker) /\ toWorker \in Seq(Message) BY DEF IInv, TypeOK
  <1>2. toWorker' \in Seq(Message) /\ leased' \in BOOLEAN BY <1>1, CleanupDoes DEF IInv, TypeOK
  <1>3. TypeOK' BY <1>2 DEF IInv, TypeOK
  <1>4. Up /\ handing = "head" => owner' = "closed" BY DEF IInv, TypeOK, Up, HeadFirst
  <1> QED BY <1>1, <1>3, <1>4, CleanupKeeps

(* a message of the kinds "body" and "ack" is sent to the worker           *)
LEMMA SentQuietly ==
    ASSUME TypeOK, NEW m \in Message, m.type \in {"body", "ack"},
           toWorker' \in {toWorker, Sent(toWorker, m)}
    PROVE  /\ toWorker' \in Seq(Message)
           /\ \A type \in {"refuse", "abort"} : Has(toWorker', type) => Has(toWorker, type)
           /\ Once(toWorker, "refuse") => Once(toWorker', "refuse")
  <1>1. CASE toWorker' = toWorker BY <1>1 DEF TypeOK
  <1>2. CASE toWorker' = Append(toWorker, m)
    <2>1. /\ toWorker' \in Seq(Message)
          /\ \A type : Has(toWorker', type) <=> Has(toWorker, type) \/ m.type = type
          /\ \A type : Once(toWorker, type) /\ m.type # type => Once(toWorker', type)
      BY <1>2, Appended DEF TypeOK
    <2> QED BY <2>1
  <1> QED BY <1>1, <1>2 DEF Sent

(* a part of the body is passed on, or the body is refused as too big      *)
LEMMA UploadPartKeeps == ASSUME IInv, UploadPart PROVE IInv'
  <1> USE DEF UploadPart, NotHanded, workerVars, answerVars, readerVars
  <1>1. CASE FailRequest
    <2> USE <1>1 DEF FailRequest
    <2>1. Cleanup(toWorker) /\ toWorker \in Seq(Message) BY DEF IInv, TypeOK
    <2>2. toWorker' \in Seq(Message) /\ leased' \in BOOLEAN BY <2>1, CleanupDoes DEF IInv, TypeOK
    <2>3. TypeOK' BY <2>2 DEF IInv, TypeOK
    <2>4. Up => handing # "head" BY DEF Up, Ways
    <2> QED BY <2>1, <2>3, <2>4, CleanupKeeps
  <1>2. CASE /\ toWorker' = Sent(toWorker, [type |-> "body", part |-> arrived'])
             /\ UNCHANGED <<response, unwritten, owner, leased>>
    <2> DEFINE part == [type |-> "body", part |-> arrived']
    <2>1. part \in Message /\ part.type = "body" BY DEF Message, IInv, TypeOK
    <2>2. toWorker' = Sent(toWorker, part) BY <1>2
    <2> HIDE DEF part
    <2>3. /\ toWorker' \in Seq(Message)
          /\ \A type \in {"refuse", "abort"} : Has(toWorker', type) => Has(toWorker, type)
          /\ Once(toWorker, "refuse") => Once(toWorker', "refuse")
      BY <2>1, <2>2, SentQuietly DEF IInv
    <2>4. TypeOK' BY <1>2, <2>3 DEF IInv, TypeOK
    <2> QED BY <1>2, <2>3, <2>4, QuietKeeps
  <1> QED BY <1>1, <1>2

LEMMA UploadEndKeeps == ASSUME IInv, UploadEnd PROVE IInv'
  <1> USE DEF UploadEnd, uploadVars, clientVars, serverVars, handVars, workerVars, answerVars,
              readerVars
  <1>1. Msg("body") \in Message /\ Msg("body").type = "body" BY MessagesTyped
  <1>2. /\ toWorker' \in Seq(Message)
        /\ \A type \in {"refuse", "abort"} : Has(toWorker', type) => Has(toWorker, type)
        /\ Once(toWorker, "refuse") => Once(toWorker', "refuse")
    BY <1>1, SentQuietly DEF IInv
  <1>3. TypeOK' BY <1>2 DEF IInv, TypeOK
  <1> QED BY <1>2, <1>3, QuietKeeps

(* the client takes a part, or its write fails                             *)
LEMMA WrittenKeeps == ASSUME IInv, ClientTakes \/ WriteFails PROVE IInv'
  <1> USE DEF ClientTakes, WriteFails, Written, ArmTimer, uploadVars, clientVars, handVars,
              workerVars, answerVars, readerVars
  <1>1. Msg("ack") \in Message /\ Msg("ack").type = "ack" BY MessagesTyped
  <1>2. toWorker' \in {toWorker, Sent(toWorker, Msg("ack"))} OBVIOUS
  <1>3. /\ toWorker' \in Seq(Message)
        /\ \A type \in {"refuse", "abort"} : Has(toWorker', type) => Has(toWorker, type)
        /\ Once(toWorker, "refuse") => Once(toWorker', "refuse")
    BY <1>1, <1>2, SentQuietly DEF IInv
  <1>4. TypeOK' BY <1>3 DEF IInv, TypeOK
  <1> QED BY <1>3, <1>4, QuietKeeps

LEMMA FinishKeeps == ASSUME IInv, Finish PROVE IInv'
  <1> USE DEF Finish, NotHanded, workerVars, answerVars, readerVars
  <1>1. CASE leased
    <2>1. Cleanup(toWorker) /\ toWorker \in Seq(Message) BY <1>1 DEF IInv, TypeOK
    <2>2. toWorker' \in Seq(Message) /\ leased' \in BOOLEAN BY <2>1, CleanupDoes DEF IInv, TypeOK
    <2>3. TypeOK' BY <2>2 DEF IInv, TypeOK
    <2>4. Up => handing # "head" BY <1>1 DEF Up, HeadFirst
    <2> QED BY <2>1, <2>3, <2>4, CleanupKeeps
  <1>2. CASE ~leased
    <2>1. UNCHANGED <<timer, leased, paused, toWorker>> BY <1>2
    <2>2. TypeOK' BY <2>1 DEF IInv, TypeOK
    <2> QED BY <1>2, <2>1, <2>2, ClosesKeeps
  <1> QED BY <1>1, <1>2

LEMMA ClientLeavesKeeps == ASSUME IInv, ClientLeaves PROVE IInv'
  <1> USE DEF ClientLeaves, NotHanded, handVars, workerVars, answerVars, readerVars
  <1>1. CASE owner = "server" /\ giving # "active" /\ leased /\ response # "finished"
    <2>1. Cleanup(toWorker) /\ toWorker \in Seq(Message) BY <1>1 DEF IInv, TypeOK
    <2>2. toWorker' \in Seq(Message) /\ leased' \in BOOLEAN BY <2>1, CleanupDoes DEF IInv, TypeOK
    <2>3. TypeOK' BY <1>1, <2>2 DEF IInv, TypeOK
    <2> QED BY <1>1, <2>1, <2>3, CleanupKeeps
  <1>2. CASE ~(owner = "server" /\ giving # "active" /\ leased /\ response # "finished")
    <2>1. /\ UNCHANGED <<leased, toWorker>>
          /\ owner' = owner \/ (owner = "server" /\ owner' = "closed")
      BY <1>2
    <2>2. TypeOK' BY <2>1 DEF IInv, TypeOK
    <2>3. (Up /\ handing = "head" /\ leased) => response' = response BY <1>2 DEF Up, Ways, HeadFirst
    <2> QED BY <2>1, <2>2, <2>3, ClosesKeeps
  <1> QED BY <1>1, <1>2

(* a message of the worker is taken                                        *)
LEMMA Received ==
    ASSUME TypeOK, toServer # <<>>, toServer' = Tail(toServer)
    PROVE  /\ toServer' \in Seq(Message) /\ Head(toServer) \in Message
           /\ \A type : Has(toServer', type) => Has(toServer, type)
           /\ \A type : Once(toServer, type) => Once(toServer', type)
           /\ \A type : Once(toServer, type) /\ Head(toServer).type = type => ~Has(toServer', type)
           /\ Has(toServer, Head(toServer).type)
  BY Taken DEF TypeOK

(* what takes a message of the worker and tells it at most of its progress *)
LEMMA ReportKeeps == ASSUME IInv, ServerDrops \/ BodyTaken \/ Respond \/ Emit PROVE IInv'
  <1> USE DEF ServerDrops, BodyTaken, Respond, Emit, Receives, Unless, ArmTimer, uploadVars,
              serverVars, handVars, workerVars, answerVars, readerVars
  <1>1. toServer # <<>> /\ toServer' = Tail(toServer) OBVIOUS
  <1>2. /\ toServer' \in Seq(Message)
        /\ \A type : Has(toServer', type) => Has(toServer, type)
        /\ \A type : Once(toServer, type) => Once(toServer', type)
        /\ Has(toServer, Head(toServer).type)
    BY <1>1, Received DEF IInv
  <1>3. toWorker' \in {toWorker, Sent(toWorker, Msg("ack"))} OBVIOUS
  <1>4. Msg("ack") \in Message /\ Msg("ack").type = "ack" BY MessagesTyped
  <1>5. /\ toWorker' \in Seq(Message)
        /\ \A type \in {"refuse", "abort"} : Has(toWorker', type) => Has(toWorker, type)
        /\ Once(toWorker, "refuse") => Once(toWorker', "refuse")
    BY <1>3, <1>4, SentQuietly DEF IInv
  <1>6. UNCHANGED <<kind, client, owner, leased, handing, giving, sending, ipc, process, answer,
                    arrived, produced, owed>>
    OBVIOUS
  <1>7. response' \in {response, "ended", "destroyed", "started"} OBVIOUS
  <1>8. TypeOK' BY <1>2, <1>5, <1>6, <1>7 DEF IInv, TypeOK
  <1>9. (Up /\ handing = "head" /\ leased) => response' = response
    BY <1>2 DEF Up, HeadFirst, SentSoFar
  <1> QED BY <1>2, <1>5, <1>6, <1>8, <1>9, QuietKeeps

(* The worker says that a connection it was given is done.  It does so     *)
(* after the close of it, and sends nothing like it before.                *)
LEMMA EmitAfterHandOffKeeps == ASSUME IInv, EmitAfterHandOff PROVE IInv'
  <1> DEFINE out == Sent(toWorker, Msg("ack"))
  <1> USE DEF EmitAfterHandOff, Receives, workerVars, answerVars, readerVars
  <1>1. Msg("ack") \in Message /\ Msg("ack").type = "ack" BY MessagesTyped
  <1>2. /\ out \in Seq(Message)
        /\ Once(toWorker, "refuse") /\ process = "up" => Once(out, "refuse")
    <2>1. toWorker \in Seq(Message) BY DEF IInv, TypeOK
    <2>2. out \in Seq(Message) /\ (process = "up" => out = Append(toWorker, Msg("ack")))
      BY <1>1, <2>1, SentToWorker
    <2>3. Once(toWorker, "refuse") => Once(Append(toWorker, Msg("ack")), "refuse")
      BY <1>1, <2>1, Appended
    <2> QED BY <2>2, <2>3
  <1>3. Cleanup(out) OBVIOUS
  <1> HIDE DEF out
  <1>4. /\ toWorker' \in Seq(Message) /\ leased' = (leased /\ IsActive')
        /\ \A type : Once(out, type) /\ type # "abort" => Once(toWorker', type)
    BY <1>2, <1>3, CleanupDoes DEF IInv
  <1>5. toServer # <<>> /\ toServer' = Tail(toServer) OBVIOUS
  <1>6. /\ toServer' \in Seq(Message)
        /\ \A type : Has(toServer', type) => Has(toServer, type)
        /\ \A type : Once(toServer, type) => Once(toServer', type)
        /\ Has(toServer, "emit")
    BY <1>5, Received DEF IInv
  <1>7. /\ leased /\ handing = "active" /\ handing' = "done"
        /\ UNCHANGED <<kind, client, owner, response, giving, sending, ipc, process, answer,
                       arrived, produced, owed>>
    OBVIOUS
  <1>8. TypeOK' BY <1>4, <1>6, <1>7 DEF IInv, TypeOK
  <1> HIDE DEF EmitAfterHandOff
  <1>9. ASSUME process' = "up" PROVE Up'
    <2>1. Up /\ process = "up" BY <1>7, <1>9 DEF IInv
    <2>2. /\ owner = "closed" /\ sending # "queued" /\ kind = "bare" /\ giving = "no"
      BY <1>6, <1>7, <2>1 DEF Up, Ways, SentSoFar, Handed
    <2>3. ~IsActive' /\ ~leased' BY <1>4, <1>7, <2>2 DEF IsActive
    <2>4. Ways' BY <1>6, <1>7, <2>1, <2>2 DEF Up, Ways
    <2>5. SentSoFar' BY <1>2, <1>4, <1>6, <1>7, <2>1 DEF Up, SentSoFar
    <2>6. Question' BY <2>3 DEF Question
    <2>7. Carried' BY <1>7, <2>1 DEF Up, Carried
    <2>8. HeadFirst' BY <1>7 DEF HeadFirst
    <2>9. Handed' BY <1>6, <1>7, <2>1, <2>2 DEF Up, Ways, Handed
    <2>10. Lease' BY <1>7, <2>2, <2>3 DEF Lease
    <2> QED BY <2>4, <2>5, <2>6, <2>7, <2>8, <2>9, <2>10 DEF Up
  <1> QED BY <1>8, <1>9 DEF IInv

(* a request that was handed over is done                                  *)
LEMMA RequestHandOffDoneKeeps == ASSUME IInv, RequestHandOffDone PROVE IInv'
  <1> USE DEF RequestHandOffDone, Receives, workerVars, answerVars, readerVars
  <1>1. Cleanup(toWorker) /\ toWorker \in Seq(Message) BY DEF IInv, TypeOK
  <1>2. /\ toWorker' \in Seq(Message) /\ leased' = (leased /\ IsActive')
        /\ \A type : Once(toWorker, type) /\ type # "abort" => Once(toWorker', type)
    BY <1>1, CleanupDoes DEF IInv
  <1>3. toServer # <<>> /\ toServer' = Tail(toServer) OBVIOUS
  <1>4. /\ toServer' \in Seq(Message)
        /\ \A type : Has(toServer', type) => Has(toServer, type)
        /\ \A type : Once(toServer, type) => Once(toServer', type)
        /\ Has(toServer, "done")
    BY <1>3, Received DEF IInv
  <1>5. /\ leased /\ giving' = "done"
        /\ UNCHANGED <<kind, client, owner, response, handing, sending, ipc, process, answer,
                       arrived, produced, owed>>
    OBVIOUS
  <1>6. TypeOK' BY <1>2, <1>4, <1>5 DEF IInv, TypeOK
  <1> HIDE DEF RequestHandOffDone
  <1>7. ASSUME process' = "up" PROVE Up'
    <2>1. Up /\ process = "up" BY <1>5, <1>7 DEF IInv
    <2>2. /\ owner = "closed" /\ sending # "queued" /\ kind = "give" /\ handing = "no"
      BY <1>4, <1>5, <2>1 DEF Up, Ways, Handed
    <2>3. ~IsActive' /\ ~leased' BY <1>2, <1>5, <2>2 DEF IsActive
    <2>4. Ways' BY <1>5, <2>1, <2>2 DEF Up, Ways
    <2>5. SentSoFar' BY <1>2, <1>4, <1>5, <2>1 DEF Up, SentSoFar
    <2>6. Question' BY <2>3 DEF Question
    <2>7. Carried' BY <1>5, <2>1 DEF Up, Carried
    <2>8. HeadFirst' BY <1>5, <2>2 DEF HeadFirst
    <2>9. Handed' BY <1>5, <2>2 DEF Handed
    <2>10. Lease' BY <1>5, <2>2, <2>3 DEF Lease
    <2> QED BY <2>4, <2>5, <2>6, <2>7, <2>8, <2>9, <2>10 DEF Up
  <1> QED BY <1>6, <1>7 DEF IInv

(* the question for the connection is refused, or the head is written      *)
LEMMA StartHandOffKeeps == ASSUME IInv, StartHandOff PROVE IInv'
  <1> USE DEF StartHandOff, Receives, ArmTimer, workerVars, answerVars, readerVars
  <1>1. toServer # <<>> /\ toServer' = Tail(toServer) /\ Head(toServer).type = "ask" OBVIOUS
  <1>2. /\ toServer' \in Seq(Message)
        /\ \A type : Has(toServer', type) => Has(toServer, type)
        /\ \A type : Once(toServer, type) => Once(toServer', type)
        /\ Once(toServer, "ask") => ~Has(toServer', "ask")
        /\ Has(toServer, "ask")
    BY <1>1, Received DEF IInv
  <1>3. Msg("refuse") \in Message /\ Msg("refuse").type = "refuse" BY MessagesTyped
  <1>4. /\ leased /\ leased' = leased
        /\ UNCHANGED <<kind, client, owner, giving, sending, ipc, process, answer, arrived,
                       produced, owed>>
    OBVIOUS
  <1>5. \/ /\ toWorker' = Sent(toWorker, Msg("refuse"))
           /\ response' \in {response, "started"} /\ handing' = handing
        \/ /\ kind = "bare" /\ response' = "started" /\ handing' = "head"
           /\ toWorker' = toWorker
    OBVIOUS
  <1> HIDE DEF StartHandOff
  <1>6. TypeOK'
    <2>1. toWorker' \in Seq(Message) BY <1>3, <1>5, SentToWorker DEF IInv, TypeOK
    <2> QED BY <1>2, <1>4, <1>5, <2>1 DEF IInv, TypeOK
  <1>7. ASSUME process' = "up" PROVE Up'
    <2>1. Up /\ process = "up" BY <1>4, <1>7 DEF IInv
    <2>2. /\ answer = "asking" /\ handing = "no" /\ ~Has(toWorker, "refuse")
          /\ ~Has(toWorker, "abort") /\ ~Has(toServer', "ask")
      BY <1>2, <1>4, <2>1 DEF Up, SentSoFar, Question
    <2>3. IsActive' = IsActive BY <1>4, <1>5, <2>2 DEF IsActive
    <2>4. CASE toWorker' = Sent(toWorker, Msg("refuse")) /\ handing' = handing
      <3>1. toWorker' = Append(toWorker, Msg("refuse"))
        BY <1>3, <2>1, <2>4, SentToWorker DEF IInv, TypeOK
      <3>2. ~Has(toWorker', "abort") /\ (Once(toWorker, "refuse") => Once(toWorker', "refuse"))
        BY <1>3, <2>2, <3>1, Appended DEF IInv, TypeOK
      <3>3. Ways' BY <1>2, <1>4, <2>1, <2>4 DEF Up, Ways
      <3>4. SentSoFar' BY <1>2, <1>4, <2>1, <3>2 DEF Up, SentSoFar
      <3>5. Question' BY <1>4, <2>2, <2>4, <3>2 DEF Question
      <3>6. Carried' /\ HeadFirst' BY <1>4, <2>1, <2>2, <2>4 DEF Up, Carried, HeadFirst
      <3>7. Handed' BY <1>2, <1>4, <2>1, <2>4 DEF Up, Handed
      <3>8. Lease' BY <1>4, <2>1, <2>2, <2>3, <2>4 DEF Up, Lease
      <3> QED BY <3>3, <3>4, <3>5, <3>6, <3>7, <3>8 DEF Up
    <2>5. CASE kind = "bare" /\ response' = "started" /\ handing' = "head" /\ toWorker' = toWorker
      <3>1. Ways' BY <1>2, <1>4, <2>1, <2>2, <2>5 DEF Up, Ways
      <3>2. SentSoFar' BY <1>2, <1>4, <2>1, <2>5 DEF Up, SentSoFar
      <3>3. Question' BY <1>4, <2>2, <2>5 DEF Question
      <3>4. Carried' BY <1>4, <2>1 DEF Up, Carried
      <3>5. ~IsActive BY <2>1, <2>2, <2>5 DEF Up, Ways, IsActive
      <3>6. HeadFirst' BY <1>4, <2>1, <2>2, <2>5, <3>5 DEF Up, Lease, HeadFirst, IInv, TypeOK
      <3>7. Handed' BY <1>2, <1>4, <2>1, <2>5 DEF Up, Handed
      <3>8. Lease' BY <1>4, <2>1, <2>3, <2>5 DEF Up, Lease
      <3> QED BY <3>1, <3>2, <3>3, <3>4, <3>6, <3>7, <3>8 DEF Up
    <2> QED BY <1>5, <2>4, <2>5
  <1> QED BY <1>6, <1>7 DEF IInv

-----------------------------------------------------------------------------
(* Steps of a hand-off                                                     *)

LEMMA HeadWrittenKeeps == ASSUME IInv, HeadWritten PROVE IInv'
  <1> USE DEF HeadWritten, clientVars, uploadVars, wires, workerVars, answerVars, readerVars
  <1>1. /\ handing = "head"
        /\ UNCHANGED <<kind, client, owner, response, leased, giving, toWorker, toServer, ipc,
                       process, answer, arrived, produced, owed>>
        /\ \/ owner = "closed" /\ handing' = "no" /\ sending' = sending
           \/ owner # "closed" /\ handing' = "active" /\ sending' = "queued"
    OBVIOUS
  <1> HIDE DEF HeadWritten
  <1>2. TypeOK' BY <1>1 DEF IInv, TypeOK
  <1>3. ASSUME process' = "up" PROVE Up'
    <2>1. Up BY <1>1, <1>3 DEF IInv
    <2>2. /\ kind = "bare" /\ giving = "no" /\ sending = "no" /\ owner \in {"server", "closed"}
          /\ owner # "closed" => leased /\ answer = "asking"
          /\ leased => answer = "asking" /\ ~Has(toServer, "ask") /\ ~Has(toWorker, "refuse")
      BY <1>1, <2>1 DEF Up, Ways, Question, HeadFirst
    <2>3. Ways' BY <1>1, <2>1, <2>2 DEF Up, Ways
    <2>4. SentSoFar' BY <1>1, <2>1 DEF Up, SentSoFar
    <2>5. Question' BY <1>1, <2>1, <2>2 DEF Up, Question
    <2>6. Carried' BY <1>1, <2>1 DEF Up, Carried
    <2>7. HeadFirst' BY <1>1 DEF HeadFirst
    <2>8. Handed' BY <1>1, <2>1, <2>2 DEF Up, Ways, Handed
    <2>9. Lease' BY <1>1, <2>2 DEF Lease, IsActive
    <2> QED BY <2>3, <2>4, <2>5, <2>6, <2>7, <2>8, <2>9 DEF Up
  <1> QED BY <1>2, <1>3 DEF IInv

(* the connection leaves, or a message without it when it was closed       *)
LEMMA SendConnectionKeeps == ASSUME IInv, SendConnection PROVE IInv'
  <1> DEFINE type == IF handing = "active" THEN "response" ELSE "request"
             message == [type |-> type, with |-> owner = "server"]
  <1>1. /\ sending = "queued" /\ sending' = "sent" /\ ipc' = Append(ipc, message)
        /\ owner' = IF owner = "server" THEN "wire" ELSE owner
        /\ UNCHANGED <<kind, client, response, leased, handing, giving, toWorker, toServer,
                       process, answer, arrived, produced, owed>>
    BY DEF SendConnection, uploadVars, serverVars, workerVars, answerVars, readerVars
  <1>2. /\ message \in HandOff /\ message.with = (owner = "server") /\ message.type = type
    BY DEF HandOff
  <1> HIDE DEF message
  <1>3. /\ ipc' \in Seq(HandOff) /\ Len(ipc) \in Nat /\ Len(ipc') = Len(ipc) + 1
        /\ ipc'[Len(ipc) + 1] = message /\ \A i \in 1..Len(ipc) : ipc'[i] = ipc[i]
    BY <1>1, <1>2 DEF IInv, TypeOK
  <1>4. TypeOK' BY <1>1, <1>3 DEF IInv, TypeOK
  <1>5. ASSUME process' = "up" PROVE Up'
    <2>1. Up BY <1>1, <1>5 DEF IInv
    <2>2. /\ IsActive /\ leased /\ owner \in {"server", "closed"}
          /\ \A i \in 1..Len(ipc) : ~ipc[i].with
      BY <1>1, <2>1 DEF Up, Lease, Carried
    <2>3. kind = "give" <=> type = "request" BY <2>1, <2>2 DEF Up, Ways, IsActive
    <2>4. Ways' BY <1>1, <2>1, <2>2 DEF Up, Ways, IsActive
    <2>5. SentSoFar' /\ Question' BY <1>1, <2>1 DEF Up, SentSoFar, Question
    <2>6. Carried'
      <3>1. \A i \in 1..Len(ipc') : ipc'[i].with => i = Len(ipc) + 1
        BY <1>3, <2>2
      <3>2. message.with => owner' = "wire" /\ (message.type = "request" <=> kind' = "give")
        BY <1>1, <1>2, <2>3
      <3> QED BY <1>3, <3>1, <3>2 DEF Carried
    <2>7. HeadFirst' BY <1>1, <2>1, <2>2 DEF Up, Ways, HeadFirst, IsActive
    <2>8. Handed' BY <1>1, <2>1, <2>2 DEF Up, Ways, Handed, IsActive
    <2>9. Lease' BY <1>1, <2>1, <2>2 DEF Up, Lease, IsActive
    <2> QED BY <2>4, <2>5, <2>6, <2>7, <2>8, <2>9 DEF Up
  <1> QED BY <1>4, <1>5 DEF IInv

(* the server closes its end of the connection that it sent                *)
LEMMA ConnectionSentKeeps == ASSUME IInv, ConnectionSent PROVE IInv'
  <1>1. /\ sending = "sent" /\ sending' = "no" /\ response' \in {response, "destroyed"}
        /\ UNCHANGED <<kind, client, owner, handing, giving, toServer, ipc, process, answer,
                       arrived, produced, owed>>
        /\ IF leased THEN Cleanup(toWorker) ELSE UNCHANGED <<leased, toWorker>>
    BY DEF ConnectionSent, clientVars, workerVars, answerVars, readerVars
  <1>2. /\ toWorker' \in Seq(Message) /\ leased' = (leased /\ IsActive')
        /\ IsActive' /\ leased => toWorker' = toWorker
        /\ \A type : Once(toWorker, type) /\ type # "abort" => Once(toWorker', type)
    <2>1. CASE leased BY <1>1, <2>1, CleanupDoes DEF IInv, TypeOK
    <2>2. CASE ~leased BY <1>1, <2>2 DEF IInv, TypeOK
    <2> QED BY <2>1, <2>2
  <1>3. TypeOK' BY <1>1, <1>2 DEF IInv, TypeOK
  <1>4. ASSUME process' = "up" PROVE Up'
    <2>1. Up BY <1>1, <1>4 DEF IInv
    <2>2. IsActive' = IsActive BY <1>1 DEF IsActive
    <2>3. handing # "head" BY <1>1, <2>1 DEF Up, Ways
    <2>4. Ways' BY <1>1, <2>1 DEF Up, Ways
    <2>5. SentSoFar' BY <1>1, <1>2, <2>1 DEF Up, SentSoFar
    <2>6. Question' BY <1>1, <1>2, <2>1, <2>2 DEF Up, Question
    <2>7. Carried' /\ HeadFirst' BY <1>1, <2>1, <2>3 DEF Up, Carried, HeadFirst
    <2>8. Handed' BY <1>1, <2>1 DEF Up, Handed
    <2>9. Lease' BY <1>1, <1>2, <2>1, <2>2 DEF Up, Lease
    <2> QED BY <2>4, <2>5, <2>6, <2>7, <2>8, <2>9 DEF Up
  <1> QED BY <1>3, <1>4 DEF IInv

(* the process ends: nothing is left to be shown                           *)
LEMMA EndOfProcessKeeps == ASSUME IInv, ConnectionNotSent \/ Closed \/ Exit PROVE IInv'
  <1>1. process' # "up" /\ process' \in {"up", "gone", "closed"}
    BY DEF IInv, TypeOK, ConnectionNotSent, Closed, Exit, workerVars
  <1>2. TypeOK'
    <2>1. CASE Exit
      BY <2>1 DEF IInv, TypeOK, Exit, uploadVars, serverVars, handVars, answerVars, readerVars
    <2>2. CASE ConnectionNotSent \/ Closed
      <3>1. /\ response' \in {response, "ended", "destroyed"} /\ owner' \in {owner, "closed"}
            /\ Cleanup(toWorker) \/ UNCHANGED <<leased, toWorker>>
            /\ handing' \in {handing, "no"} /\ giving' \in {giving, "no"}
            /\ sending' \in {sending, "no"}
            /\ UNCHANGED <<kind, client, arrived, toServer, ipc, answer, produced, owed>>
        BY <2>2 DEF ConnectionNotSent, Closed, FailRequest, workerVars, answerVars, readerVars
      <3>2. toWorker' \in Seq(Message) /\ leased' \in BOOLEAN
        BY <3>1, CleanupDoes DEF IInv, TypeOK
      <3> QED BY <1>1, <3>1, <3>2 DEF IInv, TypeOK
    <2> QED BY <2>1, <2>2
  <1> QED BY <1>1, <1>2 DEF IInv

-----------------------------------------------------------------------------
(* Steps of the session in the worker                                      *)

(* a message of the server is taken                                        *)
LEMMA Got ==
    ASSUME TypeOK, toWorker # <<>>, toWorker' = Tail(toWorker)
    PROVE  /\ toWorker' \in Seq(Message) /\ Head(toWorker) \in Message
           /\ \A type : Has(toWorker', type) => Has(toWorker, type)
           /\ \A type : Once(toWorker, type) => Once(toWorker', type)
           /\ \A type : Once(toWorker, type) /\ Head(toWorker).type = type => ~Has(toWorker', type)
           /\ Has(toWorker, Head(toWorker).type)
  BY Taken DEF TypeOK

(* a message of no hand-off is sent to the server, or several              *)
LEMMA ToldQuietly ==
    ASSUME TypeOK,
           \/ toServer' = toServer \/ toServer' = Append(toServer, Msg("bodyAck"))
           \/ toServer' = toServer \o [i \in 1..owed |-> Msg("bodyAck")]
    PROVE  /\ toServer' \in Seq(Message)
           /\ \A type : type # "bodyAck" /\ Has(toServer', type) => Has(toServer, type)
           /\ \A type : type # "bodyAck" /\ Once(toServer, type) => Once(toServer', type)
  <1>1. CASE toServer' = toServer BY <1>1 DEF TypeOK
  <1>2. CASE toServer' = Append(toServer, Msg("bodyAck"))
    <2>1. Msg("bodyAck") \in Message /\ Msg("bodyAck").type = "bodyAck" BY MessagesTyped
    <2> QED BY <1>2, <2>1, Appended DEF TypeOK
  <1>3. CASE toServer' = toServer \o [i \in 1..owed |-> Msg("bodyAck")]
    BY <1>3, Joined DEF TypeOK
  <1> QED BY <1>1, <1>2, <1>3

(* the body, acknowledgements, and the request itself                      *)
LEMMA SessionKeeps == ASSUME IInv, StartRequest \/ BodyPart \/ Acknowledged PROVE IInv'
  <1>1. /\ toWorker # <<>> /\ toWorker' = Tail(toWorker)
        /\ UNCHANGED <<kind, client, owner, response, leased, handing, giving, sending, ipc,
                       process, answer, arrived, produced>>
        /\ toServer' = toServer \/ toServer' = Append(toServer, Msg("bodyAck"))
        /\ owed' \in {owed, owed + 1}
    BY DEF StartRequest, BodyPart, Acknowledged, Gets, clientVars, uploadVars, serverVars,
           handVars, answerVars, readerVars
  <1>2. /\ toServer' \in Seq(Message)
        /\ \A type : type # "bodyAck" /\ Has(toServer', type) => Has(toServer, type)
        /\ \A type : type # "bodyAck" /\ Once(toServer, type) => Once(toServer', type)
    BY <1>1, ToldQuietly DEF IInv
  <1>3. /\ toWorker' \in Seq(Message)
        /\ \A type : Has(toWorker', type) => Has(toWorker, type)
        /\ \A type : Once(toWorker, type) => Once(toWorker', type)
    BY <1>1, Got DEF IInv
  <1>4. TypeOK' BY <1>1, <1>2, <1>3 DEF IInv, TypeOK
  <1> QED BY <1>1, <1>2, <1>3, <1>4, QuietKeeps

(* The question for the connection is over without one, as the request was *)
(* aborted or the server has refused it.                                   *)
LEMMA RefusedKeeps == ASSUME IInv, AbortRequest \/ Refused PROVE IInv'
  <1>1. /\ process = "up" /\ toWorker # <<>> /\ toWorker' = Tail(toWorker)
        /\ Head(toWorker).type \in {"abort", "refuse"}
        /\ answer' = IF answer = "asking" THEN "streaming" ELSE answer
        /\ UNCHANGED <<kind, client, owner, response, leased, handing, giving, sending, ipc,
                       process, toServer, arrived, produced, owed>>
    BY DEF AbortRequest, Refused, Gets, clientVars, uploadVars, serverVars, handVars, answerVars,
           readerVars
  <1>2. /\ toWorker' \in Seq(Message)
        /\ \A type : Has(toWorker', type) => Has(toWorker, type)
        /\ Once(toWorker, "refuse") => Once(toWorker', "refuse")
        /\ Once(toWorker, "refuse") /\ Head(toWorker).type = "refuse" => ~Has(toWorker', "refuse")
        /\ Has(toWorker, "abort") \/ Has(toWorker, "refuse")
        /\ Has(toWorker, "abort") \/ Head(toWorker).type = "refuse"
    BY <1>1, Got DEF IInv
  <1>3. TypeOK' BY <1>1, <1>2 DEF IInv, TypeOK
  <1>4. Up BY <1>1 DEF IInv
  <1>5. leased => /\ handing = "no" /\ ~Has(toServer, "ask") /\ ~Has(toWorker, "abort")
                  /\ ~Has(toWorker', "refuse") /\ answer = "asking"
    BY <1>2, <1>4 DEF Up, Question, SentSoFar
  <1>6. handing # "active" BY <1>4, <1>5 DEF Up, Lease, IsActive
  <1>7. Ways' BY <1>1, <1>4 DEF Up, Ways
  <1>8. SentSoFar' BY <1>1, <1>2, <1>4 DEF Up, SentSoFar
  <1>9. Question' BY <1>1, <1>2, <1>5 DEF Question
  <1>10. Carried' BY <1>1, <1>4 DEF Up, Carried
  <1>11. HeadFirst' BY <1>1, <1>4, <1>5 DEF Up, HeadFirst
  <1>12. Handed' BY <1>1, <1>4, <1>6 DEF Up, Handed
  <1>13. Lease' BY <1>1, <1>4 DEF Up, Lease, IsActive
  <1> QED BY <1>3, <1>7, <1>8, <1>9, <1>10, <1>11, <1>12, <1>13 DEF IInv, Up

(* the connection arrives, or its message alone                            *)
LEMMA ReceiveConnectionKeeps == ASSUME IInv, ReceiveConnection PROVE IInv'
  <1> DEFINE message == Head(ipc)
  <1>1. /\ process = "up" /\ ipc # <<>> /\ ipc' = Tail(ipc)
        /\ UNCHANGED <<kind, client, response, leased, handing, giving, sending, toWorker, toServer,
                       process, arrived, produced, owed>>
        /\ \/ ~message.with /\ UNCHANGED <<owner, answer>>
           \/ message.with /\ message.type = "request" /\ owner' = "worker" /\ answer' = answer
           \/ /\ message.with /\ message.type = "response" /\ answer = "asking"
              /\ owner' = "worker" /\ answer' = "piping"
           \/ /\ message.with /\ message.type = "response" /\ answer # "asking"
              /\ owner' = "closed" /\ answer' = answer
    BY DEF ReceiveConnection, StartHandedRequest, uploadVars, serverVars, handVars, readerVars
  <1>2. /\ ipc' \in Seq(HandOff) /\ Len(ipc) \in Nat \ {0} /\ Len(ipc') = Len(ipc) - 1
        /\ message = ipc[1] /\ \A i \in 1..Len(ipc') : ipc'[i] = ipc[i + 1]
    BY <1>1, HeadTailProperties DEF IInv, TypeOK
  <1> HIDE DEF message
  <1>3. TypeOK' BY <1>1, <1>2 DEF IInv, TypeOK
  <1>4. Up BY <1>1 DEF IInv
  <1>5. \A i \in 1..Len(ipc') : i + 1 \in 1..Len(ipc) /\ ipc'[i] = ipc[i + 1] /\ i + 1 # 1
    BY <1>2
  <1>6. message.with =>
           /\ owner = "wire" /\ IsActive /\ leased /\ sending # "queued"
           /\ message.type = "request" <=> kind = "give"
           /\ \A i \in 1..Len(ipc') : ~ipc'[i].with
    <2>1. 1 \in 1..Len(ipc) BY <1>2
    <2> QED BY <1>2, <1>4, <1>5, <2>1 DEF Up, Carried, Lease
  <1>7. message.with /\ kind # "give" => answer = "asking" /\ handing = "active"
    BY <1>4, <1>6 DEF Up, Ways, Handed, IsActive
  <1>8. Carried'
    <2>1. CASE message.with BY <1>6, <2>1 DEF Carried
    <2>2. CASE ~message.with
      <3>1. UNCHANGED <<owner, kind>> BY <1>1, <2>2
      <3> QED BY <1>2, <1>4, <1>5, <3>1 DEF Up, Carried
    <2> QED BY <2>1, <2>2
  <1>9. Ways' BY <1>1, <1>4, <1>6 DEF Up, Ways
  <1>10. SentSoFar' BY <1>1, <1>4 DEF Up, SentSoFar
  <1>11. Question' BY <1>1, <1>4, <1>6, <1>7 DEF Up, Ways, Question
  <1>12. HeadFirst' BY <1>1, <1>4, <1>6 DEF Up, HeadFirst
  <1>13. Handed' BY <1>1, <1>4, <1>6, <1>7 DEF Up, Ways, Handed
  <1>14. Lease' BY <1>1, <1>4, <1>6 DEF Up, Lease, IsActive
  <1> QED BY <1>3, <1>8, <1>9, <1>10, <1>11, <1>12, <1>13, <1>14 DEF IInv, Up

-----------------------------------------------------------------------------
(* Steps of the function of the worker                                     *)

(* it reads the body, or returns                                           *)
LEMMA ReadKeeps == ASSUME IInv, ReadBody \/ ReadHandedBody \/ Return PROVE IInv'
  <1>1. /\ UNCHANGED <<kind, client, owner, response, leased, handing, giving, sending, toWorker,
                       ipc, process, answer, arrived, produced>>
        /\ toServer' = toServer \/ toServer' = toServer \o [i \in 1..owed |-> Msg("bodyAck")]
        /\ owed' \in {owed, 0}
    BY DEF ReadBody, ReadHandedBody, Return, Works, uploadVars, serverVars, handVars, answerVars,
           readerVars
  <1>2. /\ toServer' \in Seq(Message)
        /\ \A type : type # "bodyAck" /\ Has(toServer', type) => Has(toServer, type)
        /\ \A type : type # "bodyAck" /\ Once(toServer, type) => Once(toServer', type)
    BY <1>1, ToldQuietly DEF IInv
  <1>3. TypeOK' BY <1>1, <1>2 DEF IInv, TypeOK
  <1> QED BY <1>1, <1>2, <1>3, QuietKeeps

(* Its answer goes on, with at most one message: it is "response" or "ask" *)
(* only for the first thing that it does, and after the close of a         *)
(* connection only what is said at the end.                                *)
LEMMA AnswerKeeps ==
    ASSUME IInv, process = "up",
           SendResponse \/ AskForConnection \/ StreamPart \/ StreamEnd \/ StreamSettled \/ Throw
    PROVE  IInv'
  <1>1. /\ UNCHANGED <<kind, client, owner, response, leased, handing, giving, sending, toWorker,
                       ipc, process, arrived, owed>>
        /\ produced' \in {produced, produced + 1}
    BY DEF SendResponse, AskForConnection, StreamPart, StreamEnd, StreamSettled, Throw, Works,
           uploadVars, serverVars, handVars, answerVars, readerVars
  <1>2. Up BY DEF IInv
  <1>3. PICK message \in Message :
           /\ toServer' = toServer \/ toServer' = Append(toServer, message)
           /\ kind # "give"
           /\ \/ /\ answer = "none" /\ answer' = "sent"
                 /\ message.type = "response"
              \/ /\ answer = "none" /\ answer' = "asking"
                 /\ message.type = "ask"
              \/ /\ answer \in {"none", "streaming"} /\ answer' \in {"streaming", "last", "over"}
                 /\ message.type = "emit"
              \/ /\ answer \in {"closing", "last"} /\ answer' \in {"last", "over"}
                 /\ message.type = "emit"
    <2>1. /\ \A type \in {"response", "ask", "emit"} :
                Msg(type) \in Message /\ Msg(type).type = type
          /\ produced' \in Nat
          /\ answer \in {"streaming", "closing", "last"} => kind # "give"
      BY <1>1, <1>2, MessagesTyped DEF IInv, TypeOK, Up, Ways
    <2>2. CASE SendResponse \/ Throw
      BY <2>1, <2>2 DEF SendResponse, Throw
    <2>3. CASE AskForConnection
      <3>1. CASE aborted BY <2>1, <2>3, <3>1 DEF AskForConnection
      <3>2. CASE ~aborted BY <2>1, <2>3, <3>2 DEF AskForConnection
      <3> QED BY <3>1, <3>2
    <2>4. CASE StreamPart
      <3>1. CASE aborted BY <2>1, <2>4, <3>1 DEF StreamPart
      <3>2. CASE ~aborted
        <4> DEFINE part == [type |-> "emit", part |-> produced']
        <4>1. part \in Message /\ part.type = "emit" BY <2>1 DEF Message
        <4>2. toServer' = Append(toServer, part) /\ answer' = "streaming"
          BY <2>4, <3>2 DEF StreamPart
        <4>3. answer \in {"none", "streaming"} /\ kind # "give" BY <2>1, <2>4 DEF StreamPart
        <4> HIDE DEF part
        <4> QED BY <4>1, <4>2, <4>3
      <3> QED BY <3>1, <3>2
    <2>5. CASE StreamEnd
      <3>1. CASE aborted BY <2>1, <2>5, <3>1 DEF StreamEnd
      <3>2. CASE ~aborted BY <2>1, <2>5, <3>2 DEF StreamEnd
      <3> QED BY <3>1, <3>2
    <2>6. CASE StreamSettled BY <2>1, <2>6 DEF StreamSettled, Works, handVars
    <2> QED BY <2>2, <2>3, <2>4, <2>5, <2>6
  <1>4. /\ toServer' \in Seq(Message)
        /\ \A type : Has(toServer', type) => Has(toServer, type) \/ message.type = type
        /\ \A type : Once(toServer, type) /\ (message.type # type \/ ~Has(toServer, type))
                        => Once(toServer', type)
    <2>1. CASE toServer' = toServer BY <2>1 DEF IInv, TypeOK
    <2>2. CASE toServer' = Append(toServer, message) BY <2>2, Appended DEF IInv, TypeOK
    <2> QED BY <1>3, <2>1, <2>2
  <1>5. TypeOK' BY <1>1, <1>3, <1>4 DEF IInv, TypeOK
  <1>6. answer # "asking" BY <1>3
  <1>7. leased => /\ handing # "head" /\ ~Has(toServer, "ask") /\ ~Has(toWorker, "refuse")
                  /\ answer = "none" => handing = "no"
    BY <1>2, <1>6 DEF Up, Question, HeadFirst, Handed, Lease, IInv, TypeOK
  <1>8. Ways' BY <1>1, <1>2, <1>3, <1>4 DEF Up, Ways
  <1>9. SentSoFar' BY <1>1, <1>2, <1>3, <1>4 DEF Up, SentSoFar
  <1>10. Question' BY <1>1, <1>2, <1>3, <1>4, <1>7 DEF Up, Question
  <1>11. Carried' BY <1>1, <1>2 DEF Up, Carried
  <1>12. HeadFirst' BY <1>1, <1>2, <1>7 DEF Up, HeadFirst
  <1>13. Handed' BY <1>1, <1>2, <1>3, <1>4 DEF Up, Ways, Handed
  <1>14. Lease' BY <1>1, <1>2 DEF Up, Lease, IsActive
  <1> QED BY <1>5, <1>8, <1>9, <1>10, <1>11, <1>12, <1>13, <1>14 DEF IInv, Up

(* a part goes to the client on the connection itself                      *)
LEMMA WriteToSocketKeeps == ASSUME IInv, process = "up", WriteToSocket PROVE IInv'
  <1>1. /\ UNCHANGED <<kind, client, owner, response, leased, handing, giving, sending, toWorker,
                       toServer, ipc, process, arrived, owed>>
        /\ produced' = produced + 1 /\ owner = "worker" /\ answer' = "piping"
        /\ answer = "piping" \/ (kind = "give" /\ answer = "none")
    BY DEF WriteToSocket, Works, uploadVars, serverVars, handVars, readerVars
  <1>2. TypeOK' BY <1>1 DEF IInv, TypeOK
  <1>3. Up BY DEF IInv
  <1>4. Ways' BY <1>1, <1>3 DEF Up, Ways
  <1>5. SentSoFar' BY <1>1, <1>3 DEF Up, SentSoFar
  <1>6. Question' BY <1>1, <1>3 DEF Up, Ways, Question, SentSoFar
  <1>7. Carried' /\ HeadFirst' BY <1>1, <1>3 DEF Up, Carried, HeadFirst
  <1>8. Handed' BY <1>1, <1>3 DEF Up, Ways, Handed
  <1>9. Lease' BY <1>1, <1>3 DEF Up, Lease, IsActive
  <1> QED BY <1>2, <1>3, <1>4, <1>5, <1>6, <1>7, <1>8, <1>9 DEF IInv, Up

(* the connection closes, and with a request that came with it the request *)
LEMMA CloseSocketKeeps == ASSUME IInv, CloseSocket PROVE IInv'
  <1>1. /\ UNCHANGED <<kind, client, response, leased, handing, giving, sending, toWorker, ipc,
                       process, arrived, produced, owed>>
        /\ process = "up" /\ owner = "worker" /\ owner' = "closed"
        /\ \/ kind = "give" /\ answer' = "over" /\ toServer' = Append(toServer, Msg("done"))
           \/ kind # "give" /\ answer' = "closing" /\ toServer' = toServer
    BY DEF CloseSocket, SocketWritten, uploadVars, serverVars, handVars, readerVars
  <1>2. Up BY <1>1 DEF IInv
  <1>3. /\ toServer' \in Seq(Message)
        /\ \A type : Has(toServer', type) => Has(toServer, type) \/ (kind = "give" /\ type = "done")
        /\ \A type : Once(toServer, type) /\ type # "done" => Once(toServer', type)
    <2>1. Msg("done") \in Message /\ Msg("done").type = "done" BY MessagesTyped
    <2>2. CASE toServer' = toServer BY <2>2 DEF IInv, TypeOK
    <2>3. CASE kind = "give" /\ toServer' = Append(toServer, Msg("done"))
      BY <2>1, <2>3, Appended DEF IInv, TypeOK
    <2> QED BY <1>1, <2>2, <2>3
  <1>4. TypeOK' BY <1>1, <1>3 DEF IInv, TypeOK
  <1>5. /\ IsActive /\ leased /\ sending # "queued" /\ handing # "head"
        /\ kind # "give" => answer = "piping"
        /\ kind = "give" => answer # "sent" /\ answer # "asking" /\ handing = "no"
        /\ \A i \in 1..Len(ipc) : ~ipc[i].with
    BY <1>1, <1>2 DEF Up, Ways, Carried, HeadFirst, Handed, Lease
  <1>6. Ways' BY <1>1, <1>2, <1>3 DEF Up, Ways
  <1>7. SentSoFar' BY <1>1, <1>2, <1>3, <1>5 DEF Up, SentSoFar
  <1>8. Question' BY <1>1, <1>2, <1>3, <1>5 DEF Up, Question
  <1>9. Carried' /\ HeadFirst' BY <1>1, <1>5 DEF Carried, HeadFirst
  <1>10. Handed' BY <1>1, <1>2, <1>5 DEF Up, Handed
  <1>11. Lease' BY <1>1, <1>2, <1>5 DEF Up, Lease, IsActive
  <1> QED BY <1>4, <1>6, <1>7, <1>8, <1>9, <1>10, <1>11 DEF IInv, Up

-----------------------------------------------------------------------------

LEMMA StepKeeps == IInv /\ [Next]_all => IInv'
  <1> SUFFICES ASSUME IInv, [Next]_all PROVE IInv' OBVIOUS
  <1>1. CASE ServerStep
    BY <1>1, UploadPartKeeps, UploadEndKeeps, ReportKeeps, EmitAfterHandOffKeeps,
       StartHandOffKeeps, RequestHandOffDoneKeeps, HeadWrittenKeeps, ConnectionSentKeeps,
       EndOfProcessKeeps, FinishKeeps
    DEF ServerStep
  <1>2. CASE SessionStep
    BY <1>2, SessionKeeps, RefusedKeeps, ReceiveConnectionKeeps DEF SessionStep
  <1>3. CASE WorkerStep
    <2>1. process = "up"
      BY <1>3 DEF WorkerStep, SendResponse, AskForConnection, StreamPart, StreamEnd, StreamSettled,
                  WriteToSocket, Return, Throw, Works
    <2> QED BY <1>3, <2>1, AnswerKeeps, WriteToSocketKeeps, ReadKeeps DEF WorkerStep
  <1>4. CASE \/ ClientTakes \/ WriteFails \/ ClientLeaves \/ TimerFires
             \/ SendConnection \/ ReadBody \/ ReadHandedBody \/ CloseSocket \/ Exit
    BY <1>4, WrittenKeeps, ClientLeavesKeeps, TimerFiresKeeps, SendConnectionKeeps, ReadKeeps,
       CloseSocketKeeps, EndOfProcessKeeps
  <1>5. CASE UNCHANGED all
    <2>1. UNCHANGED <<kind, client, owner, response, leased, handing, giving, sending, toWorker,
                      toServer, ipc, process, answer, arrived, produced, owed>>
      BY <1>5 DEF all, vars, clientVars, uploadVars, serverVars, handVars, wires, workerVars,
                  answerVars, readerVars
    <2>2. TypeOK' BY <2>1 DEF IInv, TypeOK
    <2> QED BY <2>1, <2>2, QuietKeeps
  <1> QED BY <1>1, <1>2, <1>3, <1>4, <1>5 DEF Next, Step

(* While the process of the worker runs and has the connection of the      *)
(* client, or it is on its way there, the server counts the request as     *)
(* its load: the only place where a lease ends, Cleanup                    *)
(* (serve-request.ts, cleanupConnection), comes after the close of it.     *)
THEOREM LeaseOutlives == Spec => []LeaseOutlivesConnection
  <1>1. IInv => LeaseOutlivesConnection BY DEF IInv, Up, Lease, LeaseOutlivesConnection
  <1> QED BY <1>1, Initially, StepKeeps, PTL DEF Spec

-----------------------------------------------------------------------------
(***************************************************************************)
(* The end of a request leaves nothing behind, for every size of a body, a *)
(* window or a response, however hand-off, abort and end meet.             *)
(*                                                                         *)
(* The access log (LogInv): a response is noted in the step in which it    *)
(* finishes, is cut after its hand-off, or the worker is done with the     *)
(* request; none of these comes after another.                             *)
(*                                                                         *)
(* The promises of the worker (EndInv): each part of a response that waits *)
(* has the part, its place at the client, or the acknowledgement under     *)
(* way.  A lease ends with an abort on its way, which settles them all, or *)
(* when the last part of the response has come, after which nothing that   *)
(* is sent can be dropped.                                                 *)
(***************************************************************************)

Over == {"sent", "last", "over"}

EndTypeOK ==
    /\ unwritten \in Seq(Nat) /\ waiting \in Seq(Nat)
    /\ stream \in BOOLEAN /\ aborted \in BOOLEAN
    /\ timer \in {"unset", "armed", "cleared"}
    /\ running \in {"no", "yes", "returned"}
    /\ upload \in {"none", "open", "ended", "destroyed"}
    /\ produced \in 0..Chunks
    /\ logged \in Nat

-----------------------------------------------------------------------------
(* The access log                                                          *)

(* The line is there when there is something to note, and nothing is noted *)
(* twice.                                                                  *)
Noted ==
    \/ response = "finished" \/ giving = "done"
    \/ handing \in {"active", "done"} /\ response = "destroyed"
LoggedOnce ==
    /\ logged \in {0, 1}
    /\ Noted => logged = 1
    /\ logged = 1 => response \in {"finished", "destroyed"} \/ giving = "done"
    /\ leased => response # "finished"

(* the connection of a response that was cut is not the server's           *)
CutOff ==
    /\ response = "destroyed" => owner # "server"
    /\ process # "up" => owner \in {"server", "closed"}
    /\ sending = "sent" => owner # "server"

(* what a request that is given away may be about                          *)
Given ==
    /\ kind # "give" => giving = "no" /\ ~Has(toServer, "done")
    /\ kind = "give" =>
          /\ handing = "no" /\ timer = "cleared"
          /\ ~stream /\ waiting = <<>> /\ upload = "none" /\ ~Has(toWorker, "request")
          /\ \A type : Has(toServer, type) => type = "done"
    /\ giving = "active" => logged = 0 /\ response \in {"open", "destroyed"}
    /\ giving = "done" => ~leased /\ owner # "server" /\ sending # "queued"
    /\ Once(toServer, "done")
    /\ Has(toServer, "done") => giving = "active" /\ owner = "closed" /\ sending # "queued"

(* a response that is handed over goes no other way                        *)
OneWay ==
    leased =>
        /\ handing \in {"head", "active"} => response \in {"started", "destroyed"}
        /\ Has(toServer, "ask") \/ handing = "head" => ~Has(toServer, "emit")
        /\ Has(toServer, "ask") \/ handing \in {"head", "active"} => ~Has(toServer, "response")

LogInv == LoggedOnce /\ CutOff /\ Given /\ OneWay

-----------------------------------------------------------------------------
(* The promises                                                            *)

(* The request is the first message.                                       *)
Begun ==
    /\ OnlyFirst(toWorker, "request")
    /\ running = "no" <=> Has(toWorker, "request")
    /\ running = "no" =>
          ~stream /\ waiting = <<>> /\ answer = "none" /\ ~aborted /\ upload = "none"

(* What is left of the stream, by how far the response is.                 *)
Streamed ==
    /\ ~stream \/ aborted \/ answer \in {"none", "sent", "over"} => waiting = <<>>
    /\ running = "yes" /\ ~stream => answer \in Over
    /\ running = "returned" => ~stream /\ answer \in {"none"} \cup Over
    /\ aborted \/ answer \in Over => upload # "open"
    /\ \A i \in 1..Len(waiting) : waiting[i] = 0 => i = Len(waiting) /\ answer \in {"last", "over"}

(* the parts of a response before its end, by how far it is                *)
PartsOf(queue, how) ==
    \A i \in 1..Len(queue) : queue[i].type = "emit" =>
        /\ queue[i].part \in 0..Chunks
        /\ queue[i].part = 0 =>
              /\ how \in {"last", "over"}
              /\ \A j \in (i + 1)..Len(queue) : queue[j].type # "emit"

(* how it is over                                                          *)
Ended ==
    /\ PartsOf(toServer, answer)
    /\ answer = "sent" => ~Has(toServer, "emit")
    /\ leased /\ response = "ended" => answer \in Over /\ ~Has(toServer, "emit")
    /\ ~leased \/ handing = "active" => timer = "cleared"

EmitMessage == [type : {"emit"}, part : Nat]
AckOfPart == [type : {"ack"}, part : Nat]
Promised ==
    Among(toServer, EmitMessage) + Among(toWorker, AckOfPart) + Among(unwritten, 1..Chunks)

(* As long as no abort is on its way, each promise has something under way *)
(* that settles it, and a worker that was given back has nothing to send.  *)
Settling ==
    ~Has(toWorker, "abort") =>
        /\ Len(waiting) <= Promised
        /\ ~leased =>
              /\ running # "no" /\ answer # "asking" /\ upload # "open"
              /\ \/ aborted \/ ~stream
                 \/ answer \in Over /\ ~Has(toServer, "emit")

EndInv == kind # "give" /\ process = "up" => Begun /\ Streamed /\ Ended /\ Settling

-----------------------------------------------------------------------------
(* Types                                                                   *)

LEMMA EndTypedInitially == Init => EndTypeOK
  <1> SUFFICES ASSUME Init PROVE EndTypeOK OBVIOUS
  <1>1. waiting \in Seq(Nat) /\ unwritten \in Seq(Nat) BY DEF Init
  <1>2. produced \in 0..Chunks BY SizesAssumption DEF Init
  <1>3. timer \in {"unset", "armed", "cleared"} BY DEF Init
  <1>4. stream \in BOOLEAN /\ aborted \in BOOLEAN /\ logged \in Nat BY DEF Init
  <1>5. running \in {"no", "yes", "returned"} /\ upload \in {"none", "open", "ended", "destroyed"}
    BY DEF Init
  <1> QED BY <1>1, <1>2, <1>3, <1>4, <1>5 DEF EndTypeOK

LEMMA TimerTyped == ASSUME EndTypeOK, ArmTimer PROVE timer' \in {"unset", "armed", "cleared"}
  BY DEF EndTypeOK, ArmTimer

LEMMA LogTyped == ASSUME EndTypeOK, AccessLogs PROVE logged' \in Nat
  BY DEF EndTypeOK, AccessLogs

LEMMA FailTyped ==
    ASSUME EndTypeOK, FailRequest
    PROVE  unwritten' \in Seq(Nat) /\ timer' \in {"unset", "armed", "cleared"}
  <1>1. ErrorText \in Nat BY SizesAssumption DEF ErrorText
  <1>2. unwritten' = unwritten \/ unwritten' = Append(unwritten, ErrorText) BY DEF FailRequest
  <1>3. timer' = "cleared" BY DEF FailRequest, Cleanup
  <1>4. unwritten \in Seq(Nat) BY DEF EndTypeOK
  <1>5. Append(unwritten, ErrorText) \in Seq(Nat) BY <1>1, <1>4, QueueAppended
  <1>6. unwritten' \in Seq(Nat) BY <1>2, <1>4, <1>5, Zenon
  <1> QED BY <1>3, <1>6

LEMMA ServerTyped ==
    ASSUME TypeOK, EndTypeOK, AccessLogs,
           \/ UploadPart \/ UploadEnd \/ ServerDrops \/ BodyTaken \/ Respond \/ Emit
           \/ EmitAfterHandOff \/ StartHandOff \/ RequestHandOffDone \/ HeadWritten
           \/ ConnectionSent \/ ConnectionNotSent \/ Finish \/ Closed
           \/ ClientTakes \/ WriteFails \/ ClientLeaves \/ TimerFires \/ SendConnection \/ Exit
    PROVE  EndTypeOK'
  <1>1. UNCHANGED <<waiting, stream, aborted, running, upload, produced>>
    BY DEF UploadPart, UploadEnd, ServerDrops, BodyTaken, Respond, Emit, EmitAfterHandOff, StartHandOff,
           RequestHandOffDone, HeadWritten, ConnectionSent, ConnectionNotSent, Finish, Closed,
           ClientTakes, WriteFails, ClientLeaves, TimerFires, SendConnection, Exit, Receives,
           workerVars, answerVars, readerVars
  <1>2. unwritten' \in Seq(Nat)
    <2>1. CASE Respond
      BY <2>1 DEF Respond, Whole, EndTypeOK
    <2>2. CASE Emit
      <3>1. Head(toServer).part \in Nat
        <4>1. Head(toServer) \in Message BY <2>2, Taken DEF Emit, Receives, TypeOK
        <4> QED BY <4>1 DEF Message
      <3>2. unwritten' = unwritten \/ unwritten' = Append(unwritten, Head(toServer).part)
        BY <2>2 DEF Emit
      <3>3. \A n \in Nat : Append(unwritten, n) \in Seq(Nat) BY DEF EndTypeOK
      <3> QED BY <3>1, <3>2, <3>3 DEF EndTypeOK
    <2>3. CASE ClientTakes \/ WriteFails
      <3>1. unwritten # <<>> /\ unwritten' = Tail(unwritten) BY <2>3 DEF ClientTakes, WriteFails
      <3> QED BY <3>1 DEF EndTypeOK
    <2>4. CASE TimerFires \/ UploadPart \/ ConnectionNotSent \/ Closed
      <3>1. FailRequest \/ UNCHANGED unwritten
        BY <2>4 DEF TimerFires, UploadPart, ConnectionNotSent, Closed
      <3> QED BY <3>1, FailTyped DEF EndTypeOK
    <2>5. CASE \/ UploadEnd \/ ServerDrops \/ BodyTaken \/ EmitAfterHandOff \/ StartHandOff
               \/ RequestHandOffDone \/ HeadWritten \/ ConnectionSent \/ Finish \/ ClientLeaves
               \/ SendConnection \/ Exit
      <3>1. UNCHANGED unwritten
        BY <2>5 DEF UploadEnd, ServerDrops, BodyTaken, EmitAfterHandOff, StartHandOff, RequestHandOffDone,
                    HeadWritten, ConnectionSent, Finish, ClientLeaves, SendConnection, Exit, serverVars
      <3> QED BY <3>1 DEF EndTypeOK
    <2> QED BY <2>1, <2>2, <2>3, <2>4, <2>5
  <1>3. timer' \in {"unset", "armed", "cleared"}
    <2>1. CASE BodyTaken \/ Respond \/ Emit \/ StartHandOff
      BY <2>1, TimerTyped DEF BodyTaken, Respond, Emit, StartHandOff
    <2>2. CASE ClientTakes \/ WriteFails
      <3>1. ArmTimer \/ timer' = timer BY <2>2 DEF ClientTakes, WriteFails, Written
      <3> QED BY <3>1, TimerTyped DEF EndTypeOK
    <2>3. CASE TimerFires \/ UploadPart \/ ConnectionNotSent \/ Closed
      <3>1. FailRequest \/ ArmTimer \/ timer' = timer
        BY <2>3 DEF TimerFires, UploadPart, ConnectionNotSent, Closed
      <3> QED BY <3>1, FailTyped, TimerTyped DEF EndTypeOK
    <2>4. CASE \/ UploadEnd \/ ServerDrops \/ EmitAfterHandOff
               \/ RequestHandOffDone \/ HeadWritten \/ ConnectionSent \/ Finish \/ ClientLeaves
               \/ SendConnection \/ Exit
      <3>1. timer' \in {timer, "cleared"}
        BY <2>4 DEF UploadEnd, ServerDrops, EmitAfterHandOff, RequestHandOffDone, HeadWritten,
                    ConnectionSent, Finish, ClientLeaves, SendConnection, Exit, serverVars, Cleanup
      <3> QED BY <3>1 DEF EndTypeOK
    <2> QED BY <2>1, <2>2, <2>3, <2>4
  <1>4. logged' \in Nat BY LogTyped
  <1> QED BY <1>1, <1>2, <1>3, <1>4 DEF EndTypeOK

LEMMA WorkerTyped ==
    ASSUME TypeOK, EndTypeOK, AccessLogs,
           \/ SessionStep \/ WorkerStep \/ ReadBody \/ ReadHandedBody \/ CloseSocket
    PROVE  EndTypeOK'
  <1>1. UNCHANGED <<unwritten, timer>>
    BY DEF SessionStep, WorkerStep, ReadBody, ReadHandedBody, CloseSocket, StartRequest, BodyPart,
           Acknowledged, AbortRequest, Refused, ReceiveConnection, Gets, SendResponse, AskForConnection,
           StreamPart, StreamEnd, StreamSettled, WriteToSocket, Return, Throw, Works, serverVars
  <1>2. waiting' \in Seq(Nat) /\ produced' \in 0..Chunks
    <2>1. CASE StreamPart
      <3>1. produced \in 0..Chunks /\ Chunks \in Nat BY SizesAssumption DEF EndTypeOK
      <3>2. produced' \in 0..Chunks BY <2>1, <3>1 DEF StreamPart
      <3>3. produced' \in Nat BY <3>1, <3>2
      <3>4. waiting' = waiting \/ waiting' = Append(waiting, produced') BY <2>1 DEF StreamPart
      <3>5. waiting' \in Seq(Nat)
        <4>1. \A n \in Nat : Append(waiting, n) \in Seq(Nat) BY DEF EndTypeOK
        <4> QED BY <3>3, <3>4, <4>1 DEF EndTypeOK
      <3> QED BY <3>2, <3>5
    <2>2. CASE StreamEnd
      <3>1. waiting' = waiting \/ waiting' = Append(waiting, 0) BY <2>2 DEF StreamEnd
      <3>2. produced' = produced BY <2>2 DEF StreamEnd
      <3>3. \A n \in Nat : Append(waiting, n) \in Seq(Nat) BY DEF EndTypeOK
      <3> QED BY <3>1, <3>2, <3>3 DEF EndTypeOK
    <2>3. CASE WriteToSocket
      BY <2>3, SizesAssumption DEF WriteToSocket, EndTypeOK
    <2>4. CASE Acknowledged \/ AbortRequest
      <3>1. waiting' \in {waiting, <<>>} \/ (waiting # <<>> /\ waiting' = Tail(waiting))
        BY <2>4 DEF Acknowledged, AbortRequest
      <3>2. produced' = produced BY <2>4 DEF Acknowledged, AbortRequest
      <3>3. <<>> \in Seq(Nat) /\ (waiting # <<>> => Tail(waiting) \in Seq(Nat)) BY DEF EndTypeOK
      <3> QED BY <3>1, <3>2, <3>3 DEF EndTypeOK
    <2>5. CASE \/ StartRequest \/ BodyPart \/ Refused \/ ReceiveConnection \/ SendResponse
               \/ AskForConnection \/ StreamSettled \/ Return \/ Throw
               \/ ReadBody \/ ReadHandedBody \/ CloseSocket
      <3>1. UNCHANGED <<waiting, produced>>
        BY <2>5 DEF StartRequest, BodyPart, Refused, ReceiveConnection, SendResponse, AskForConnection,
                    StreamSettled, Return, Throw, ReadBody, ReadHandedBody, CloseSocket, answerVars
      <3> QED BY <3>1 DEF EndTypeOK
    <2> QED BY <2>1, <2>2, <2>3, <2>4, <2>5 DEF SessionStep, WorkerStep
  <1>3. /\ stream' \in BOOLEAN /\ aborted' \in BOOLEAN /\ running' \in {"no", "yes", "returned"}
        /\ upload' \in {"none", "open", "ended", "destroyed"}
    BY DEF EndTypeOK, SessionStep, WorkerStep, ReadBody, ReadHandedBody, CloseSocket, StartRequest, BodyPart,
           Acknowledged, AbortRequest, Refused, ReceiveConnection, StartHandedRequest, SendResponse,
           AskForConnection, StreamPart, StreamEnd, StreamSettled, WriteToSocket, Return, Throw,
           DestroyUpload, answerVars, readerVars
  <1>4. logged' \in Nat BY LogTyped
  <1> QED BY <1>1, <1>2, <1>3, <1>4 DEF EndTypeOK

-----------------------------------------------------------------------------
(* Steps of the log                                                        *)

LEMMA LogInitially == Init => LogInv
  <1> SUFFICES ASSUME Init PROVE LogInv OBVIOUS
  <1>1. /\ \A type : ~Has(toServer, type) /\ Once(toServer, type)
        /\ kind = "give" => \A type : ~Has(toWorker, type)
    BY DEF Init, Has, Once
  <1>2. LoggedOnce BY DEF Init, LoggedOnce, Noted
  <1>3. CutOff BY DEF Init, CutOff
  <1>4. Given BY <1>1 DEF Init, Given
  <1>5. OneWay BY <1>1 DEF Init, OneWay
  <1> QED BY <1>2, <1>3, <1>4, <1>5 DEF LogInv

(* at most one message of the worker is handled                            *)
TakesOne == toServer' = toServer \/ (toServer # <<>> /\ toServer' = Tail(toServer))

LEMMA LessForServer ==
    ASSUME TypeOK, TakesOne
    PROVE  \A type : /\ Has(toServer', type) => Has(toServer, type)
                     /\ Once(toServer, type) => Once(toServer', type)
  <1>1. CASE toServer' = toServer BY <1>1
  <1>2. CASE toServer # <<>> /\ toServer' = Tail(toServer)
    <2>1. \A type : /\ Has(toServer, type) <=> Head(toServer).type = type \/ Has(Tail(toServer), type)
                    /\ Once(toServer, type) => Once(Tail(toServer), type)
      BY <1>2, Taken DEF TypeOK
    <2> QED BY <1>2, <2>1
  <1> QED BY <1>1, <1>2 DEF TakesOne

(* what the server sends is no request                                     *)
LEMMA CleanupSends ==
    ASSUME TypeOK, NEW out \in Seq(Message), Cleanup(out)
    PROVE  Has(toWorker', "request") => Has(out, "request")
  <1>1. Msg("abort") \in Message /\ Msg("abort").type = "abort" BY MessagesTyped
  <1>2. toWorker' = out \/ toWorker' = Append(out, Msg("abort")) BY DEF Cleanup, Sent
  <1> QED BY <1>1, <1>2, Appended

LEMMA SendsNoRequest ==
    ASSUME TypeOK, NEW m \in Message, m.type # "request"
    PROVE  /\ Sent(toWorker, m) \in Seq(Message)
           /\ Has(Sent(toWorker, m), "request") => Has(toWorker, "request")
  <1>1. Sent(toWorker, m) = toWorker \/ Sent(toWorker, m) = Append(toWorker, m) BY DEF Sent
  <1>2. toWorker \in Seq(Message) BY DEF TypeOK
  <1>3. /\ Append(toWorker, m) \in Seq(Message)
        /\ Has(Append(toWorker, m), "request") <=> Has(toWorker, "request") \/ m.type = "request"
    BY <1>2, Appended
  <1> QED BY <1>1, <1>2, <1>3

LEMMA ServerSends ==
    ASSUME TypeOK, EndTypeOK,
           \/ UploadPart \/ UploadEnd \/ ServerDrops \/ BodyTaken \/ Respond \/ Emit
           \/ EmitAfterHandOff \/ StartHandOff \/ RequestHandOffDone \/ HeadWritten
           \/ ConnectionSent \/ ConnectionNotSent \/ Finish \/ Closed
           \/ ClientTakes \/ WriteFails \/ ClientLeaves \/ TimerFires \/ SendConnection
    PROVE  /\ TakesOne
           /\ UNCHANGED <<kind, waiting, stream, upload>>
           /\ Has(toWorker', "request") => Has(toWorker, "request")
  <1>1. TakesOne /\ UNCHANGED <<kind, waiting, stream, upload>>
    BY DEF TakesOne, UploadPart, UploadEnd, ServerDrops, BodyTaken, Respond, Emit, EmitAfterHandOff,
           StartHandOff, RequestHandOffDone, HeadWritten, ConnectionSent, ConnectionNotSent, Finish,
           Closed, ClientTakes, WriteFails, ClientLeaves, TimerFires, SendConnection, Receives,
           workerVars, answerVars, readerVars, clientVars, wires
  <1>2. toWorker \in Seq(Message) BY DEF TypeOK
  <1>3. Cleanup(toWorker) \/ toWorker' = toWorker => (Has(toWorker', "request") => Has(toWorker, "request"))
    BY <1>2, CleanupSends
  <1>4. CASE \/ TimerFires \/ ClientLeaves \/ Finish \/ ConnectionSent \/ ConnectionNotSent \/ Closed
             \/ RequestHandOffDone \/ ServerDrops \/ BodyTaken \/ Respond \/ HeadWritten \/ SendConnection
    BY <1>1, <1>3, <1>4 DEF TimerFires, ClientLeaves, Finish, ConnectionSent, ConnectionNotSent, Closed,
            RequestHandOffDone, ServerDrops, BodyTaken, Respond, HeadWritten, SendConnection, FailRequest, wires
  <1>5. CASE UploadPart
    <2> DEFINE part == [type |-> "body", part |-> arrived']
    <2>1. part \in Message /\ part.type = "body" BY <1>5 DEF UploadPart, Message, TypeOK
    <2>2. FailRequest \/ toWorker' = Sent(toWorker, part) BY <1>5 DEF UploadPart
    <2> HIDE DEF part
    <2>3. Cleanup(toWorker) \/ toWorker' = Sent(toWorker, part) BY <2>2 DEF FailRequest
    <2> QED BY <1>1, <1>3, <2>1, <2>3, SendsNoRequest
  <1>6. CASE UploadEnd \/ Emit \/ StartHandOff \/ ClientTakes \/ WriteFails
    <2>1. \/ toWorker' = toWorker \/ toWorker' = Sent(toWorker, Msg("body"))
          \/ toWorker' = Sent(toWorker, Msg("ack")) \/ toWorker' = Sent(toWorker, Msg("refuse"))
      BY <1>6 DEF UploadEnd, Emit, StartHandOff, ClientTakes, WriteFails, Written
    <2> QED BY <1>1, <2>1, MessagesTyped, SendsNoRequest
  <1>7. CASE EmitAfterHandOff
    <2> DEFINE out == Sent(toWorker, Msg("ack"))
    <2>1. Cleanup(out) BY <1>7 DEF EmitAfterHandOff
    <2>2. out \in Seq(Message) /\ (Has(out, "request") => Has(toWorker, "request"))
      BY MessagesTyped, SendsNoRequest
    <2> HIDE DEF out
    <2> QED BY <1>1, <2>1, <2>2, CleanupSends
  <1> QED BY <1>4, <1>5, <1>6, <1>7

(* A server step that leaves the response and the hand-offs alone, or      *)
(* moves them as said.                                                     *)
LEMMA GivenServer ==
    ASSUME TypeOK, Given, TakesOne, UNCHANGED <<kind, waiting, stream, upload>>,
           Has(toWorker', "request") => Has(toWorker, "request"),
           kind = "give" => handing' = "no" /\ timer' = "cleared",
           kind # "give" => giving' = "no",
           giving' = "active" =>
               giving = "active" /\ logged' = 0 /\ response' \in {"open", "destroyed"},
           giving' = "done" => ~leased' /\ owner' # "server" /\ sending' # "queued",
           Has(toServer', "done") =>
               giving' = "active" /\ owner' = "closed" /\ sending' # "queued"
    PROVE  Given'
  <1>1. \A type : /\ Has(toServer', type) => Has(toServer, type)
                  /\ Once(toServer, type) => Once(toServer', type)
    BY LessForServer
  <1> QED BY <1>1 DEF Given

(* a request fails: with a text, or by cutting its response                *)
LEMMA FailLogs ==
    ASSUME IInv, LogInv, FailRequest, AccessLogs, handing' = handing, giving' = giving,
           sending' = sending, process' = process, kind' = kind, toServer' = toServer,
           kind # "give", handing = "active" => ~leased \/ response # "open"
    PROVE  /\ LoggedOnce' /\ CutOff' /\ OneWay'
           /\ leased' => leased /\ IsActive
           /\ timer' = "cleared"
  <1>1. leased' = (leased /\ IsActive') /\ IsActive' = IsActive
    BY CleanupDoes DEF IInv, TypeOK, FailRequest, IsActive
  <1>2. giving = "no" BY DEF LogInv, Given
  <1>3. LoggedOnce'
    <2>1. leased' => response' # "finished" BY <1>1, Zenon DEF FailRequest, LogInv, LoggedOnce
    <2>2. response' = IF response = "open" THEN "ended"
                      ELSE IF response = "finished" THEN "finished" ELSE "destroyed"
      BY DEF FailRequest
    <2>3. logged \in {0, 1} /\ (Noted => logged = 1) /\ (logged = 1 => response \in {"finished", "destroyed"})
      BY <1>2 DEF LogInv, LoggedOnce
    <2>4. logged' = IF response # "destroyed" /\ response' = "destroyed" /\ handing \in {"active", "done"}
                    THEN logged + 1 ELSE logged
      BY <1>2, <2>2 DEF AccessLogs
    <2>5. CASE response = "destroyed" BY <1>2, <2>2, <2>3, <2>4, <2>5, <2>1 DEF LoggedOnce, Noted
    <2>6. CASE response # "destroyed" BY <1>2, <2>2, <2>3, <2>4, <2>6, <2>1 DEF LoggedOnce, Noted
    <2> QED BY <2>5, <2>6
  <1>4. CutOff' BY DEF FailRequest, LogInv, CutOff
  <1>5. OneWay' BY <1>1 DEF FailRequest, LogInv, OneWay
  <1>6. timer' = "cleared" BY DEF FailRequest, Cleanup
  <1> QED BY <1>1, <1>3, <1>4, <1>5, <1>6

LEMMA QuietLog ==
    ASSUME IInv, LogInv, AccessLogs, TakesOne,
           UNCHANGED <<kind, waiting, stream, upload, owner, response, leased, handing, giving, sending,
                       process>>,
           Has(toWorker', "request") => Has(toWorker, "request"),
           timer = "cleared" => timer' = "cleared"
    PROVE  LogInv'
  <1>1. logged' = logged BY DEF AccessLogs
  <1>2. \A type : Has(toServer', type) => Has(toServer, type) BY LessForServer DEF IInv
  <1>3. LoggedOnce' BY <1>1 DEF LogInv, LoggedOnce, Noted
  <1>4. CutOff' BY DEF LogInv, CutOff
  <1>5. Given' BY <1>1, <1>2, GivenServer DEF IInv, LogInv, Given
  <1>6. OneWay' BY <1>2 DEF LogInv, OneWay
  <1> QED BY <1>3, <1>4, <1>5, <1>6 DEF LogInv

LEMMA ArmedNotCleared == ArmTimer /\ timer = "cleared" => timer' = "cleared"
  BY DEF ArmTimer

LEMMA QuietServerLogs ==
    ASSUME IInv, LogInv, EndTypeOK, AccessLogs,
           UploadEnd \/ ClientTakes \/ WriteFails \/ ServerDrops \/ BodyTaken
    PROVE  LogInv'
  <1>1. /\ TakesOne /\ UNCHANGED <<kind, waiting, stream, upload>>
        /\ Has(toWorker', "request") => Has(toWorker, "request")
    BY ServerSends DEF IInv
  <1>2. UNCHANGED <<owner, response, leased, handing, giving, sending, process>>
    BY DEF UploadEnd, ClientTakes, WriteFails, ServerDrops, BodyTaken, Receives, clientVars, serverVars,
           handVars, workerVars
  <1>3. timer = "cleared" => timer' = "cleared"
    BY ArmedNotCleared DEF UploadEnd, ClientTakes, WriteFails, ServerDrops, BodyTaken, Written, serverVars
  <1> QED BY <1>1, <1>2, <1>3, QuietLog

(* the limit of the response or of the body                                *)
LEMMA FailStepsLog ==
    ASSUME IInv, LogInv, EndTypeOK, AccessLogs, TimerFires \/ UploadPart
    PROVE  LogInv'
  <1>1. /\ TakesOne /\ UNCHANGED <<kind, waiting, stream, upload>>
        /\ Has(toWorker', "request") => Has(toWorker, "request")
    BY ServerSends DEF IInv
  <1>2. UNCHANGED <<handing, giving, sending, process, toServer>>
    BY DEF TimerFires, UploadPart, NotHanded, workerVars
  <1>3. kind # "give"
    BY DEF TimerFires, UploadPart, LogInv, Given
  <1>4. CASE FailRequest
    <2>1. handing = "active" => ~leased \/ response # "open" BY DEF LogInv, OneWay
    <2>2. LoggedOnce' /\ CutOff' /\ OneWay' BY <1>1, <1>2, <1>3, <1>4, <2>1, FailLogs
    <2>3. giving' = "no" /\ ~Has(toServer', "done") BY <1>2, <1>3 DEF LogInv, Given
    <2>4. Given' BY <1>1, <1>3, <2>3, GivenServer DEF IInv, LogInv
    <2> QED BY <2>2, <2>4 DEF LogInv
  <1>5. CASE UploadPart /\ ~FailRequest
    <2>1. UNCHANGED <<owner, response, leased>> /\ ArmTimer BY <1>5 DEF UploadPart
    <2> QED BY <1>1, <1>2, <2>1, ArmedNotCleared, QuietLog
  <1> QED BY <1>4, <1>5 DEF TimerFires

(* a response begins, goes on or ends                                      *)
LEMMA ProgressLogs ==
    ASSUME IInv, LogInv, EndTypeOK, AccessLogs, Respond \/ Emit \/ StartHandOff
    PROVE  LogInv'
  <1>1. /\ TakesOne /\ UNCHANGED <<kind, waiting, stream, upload>>
        /\ Has(toWorker', "request") => Has(toWorker, "request")
    BY ServerSends DEF IInv
  <1>2. /\ leased /\ leased' = leased /\ UNCHANGED <<owner, giving, sending, process>>
        /\ timer = "cleared" => timer' = "cleared"
    BY ArmedNotCleared DEF Respond, Emit, StartHandOff, Receives, handVars, workerVars
  <1>3. \/ Has(toServer, "ask") /\ response' \in {response, "started"} /\ response' # "finished"
           /\ (response' = "started" => response # "destroyed") /\ StartHandOff
           /\ (handing' = handing \/ (handing' = "head" /\ response' = "started"))
        \/ Has(toServer, "response") /\ response' \in {"destroyed", "ended"}
           /\ (response = "destroyed" <=> response' = "destroyed") /\ handing' = handing
        \/ Has(toServer, "emit") /\ response' \in {"destroyed", "ended", "started"}
           /\ (response = "destroyed" <=> response' = "destroyed") /\ handing' = handing
           /\ handing # "active"
    <2>1. \A type : Receives(type) => Has(toServer, type)
      <3> SUFFICES ASSUME NEW type, Receives(type) PROVE Has(toServer, type) OBVIOUS
      <3>1. toServer # <<>> /\ Head(toServer).type = type BY DEF Receives
      <3> QED BY <3>1, Taken DEF IInv, TypeOK
    <2>2. response # "finished" BY <1>2 DEF LogInv, LoggedOnce
    <2>3. CASE Respond BY <2>1, <2>3 DEF Respond, Unless, handVars
    <2>4. CASE Emit BY <2>1, <2>4 DEF Emit, Unless, handVars
    <2>5. CASE StartHandOff BY <2>1, <2>2, <2>5 DEF StartHandOff
    <2> QED BY <2>3, <2>4, <2>5
  <1>4. kind # "give" /\ giving = "no" /\ ~Has(toServer, "done")
    BY <1>3 DEF LogInv, Given
  <1>5. \A type : Has(toServer', type) => Has(toServer, type) BY <1>1, LessForServer DEF IInv
  <1>6. logged' = logged
    BY <1>2, <1>3, <1>4 DEF AccessLogs
  <1>7. LoggedOnce'
    <2>1. leased' => response' # "finished" BY <1>3 
    <2>2. Noted' => Noted
      BY <1>2, <1>3, <1>4 DEF Noted
    <2>3. response \in {"finished", "destroyed"} => response' \in {"finished", "destroyed"}
      BY <1>2, <1>3 DEF LogInv, LoggedOnce
    <2> QED BY <1>2, <1>6, <2>1, <2>2, <2>3, Zenon DEF LogInv, LoggedOnce
  <1>8. CutOff' BY <1>2, <1>3 DEF LogInv, CutOff
  <1>9. Given' BY <1>1, <1>2, <1>4, <1>5, GivenServer DEF IInv, LogInv
  <1>10. OneWay'
    <2>1. CASE Has(toServer, "ask")
      <3>1. ~Has(toServer', "emit") /\ ~Has(toServer', "response")
        BY <1>2, <1>5, <2>1 DEF LogInv, OneWay
      <3>2. ~Has(toServer, "emit") /\ ~Has(toServer, "response")
        BY <1>2, <2>1 DEF LogInv, OneWay
      <3>3. handing' \in {"head", "active"} => response' \in {"started", "destroyed"}
        BY <1>2, <1>3, <3>2 DEF LogInv, OneWay
      <3> QED BY <3>1, <3>3 DEF OneWay
    <2>2. CASE ~Has(toServer, "ask")
      <3>1. handing' \notin {"head", "active"} /\ ~Has(toServer', "ask")
        BY <1>2, <1>3, <1>5, <2>2 DEF LogInv, OneWay
      <3> QED BY <3>1 DEF OneWay
    <2> QED BY <2>1, <2>2
  <1> QED BY <1>7, <1>8, <1>9, <1>10 DEF LogInv

(* a hand-off begins, or the client is gone                                *)
LEMMA HeadWrittenLogs ==
    ASSUME IInv, LogInv, EndTypeOK, AccessLogs, HeadWritten
    PROVE  LogInv'
  <1>1. /\ TakesOne /\ UNCHANGED <<kind, waiting, stream, upload>>
        /\ Has(toWorker', "request") => Has(toWorker, "request")
    BY ServerSends DEF IInv
  <1>2. UNCHANGED <<owner, response, leased, giving, process, toServer>>
    BY DEF HeadWritten, clientVars, wires, workerVars
  <1>3. kind # "give" /\ handing = "head" /\ giving = "no" /\ ~Has(toServer, "done")
    BY DEF HeadWritten, LogInv, Given
  <1>4. logged' = logged BY <1>2 DEF AccessLogs
  <1>5. \/ handing' = "no" /\ sending' = sending /\ owner = "closed"
        \/ handing' = "active" /\ sending' = "queued" /\ owner # "closed"
    BY DEF HeadWritten
  <1>6. handing' = "active" => response # "destroyed"
    <2>1. owner \in {"server", "closed"}
      BY <1>3 DEF IInv, Up, HeadFirst, LogInv, CutOff
    <2> QED BY <1>5, <2>1 DEF LogInv, CutOff
  <1>7. LoggedOnce'
    <2>1. Noted' => Noted BY <1>2, <1>5, <1>6 DEF Noted
    <2> QED BY <1>2, <1>4, <2>1 DEF LogInv, LoggedOnce
  <1>8. CutOff' BY <1>2, <1>5 DEF LogInv, CutOff
  <1>9. Given' BY <1>1, <1>2, <1>3, GivenServer DEF IInv, LogInv
  <1>10. OneWay' BY <1>2, <1>3, <1>5 DEF LogInv, OneWay
  <1> QED BY <1>7, <1>8, <1>9, <1>10 DEF LogInv

(* the connection leaves                                                   *)
LEMMA SendConnectionLogs ==
    ASSUME IInv, LogInv, EndTypeOK, AccessLogs, SendConnection
    PROVE  LogInv'
  <1>1. /\ TakesOne /\ UNCHANGED <<kind, waiting, stream, upload>>
        /\ Has(toWorker', "request") => Has(toWorker, "request")
    BY ServerSends DEF IInv
  <1>2. /\ UNCHANGED <<response, leased, timer, handing, giving, process, toServer>>
        /\ sending = "queued" /\ sending' = "sent" /\ process = "up"
        /\ owner' # "server"
    BY DEF SendConnection, serverVars, workerVars
  <1>3. logged' = logged BY <1>2 DEF AccessLogs
  <1>4. LoggedOnce' BY <1>2, <1>3 DEF LogInv, LoggedOnce, Noted
  <1>5. CutOff' BY <1>2 DEF LogInv, CutOff
  <1>6. Given' BY <1>1, <1>2, <1>3, GivenServer DEF IInv, LogInv, Given
  <1>7. OneWay' BY <1>2 DEF LogInv, OneWay
  <1> QED BY <1>4, <1>5, <1>6, <1>7 DEF LogInv

(* the connection has left, and the response closes                        *)
LEMMA ConnectionSentLogs ==
    ASSUME IInv, LogInv, EndTypeOK, AccessLogs, ConnectionSent
    PROVE  LogInv'
  <1>1. /\ TakesOne /\ UNCHANGED <<kind, waiting, stream, upload>>
        /\ Has(toWorker', "request") => Has(toWorker, "request")
    BY ServerSends DEF IInv
  <1>2. /\ UNCHANGED <<owner, handing, giving, process, toServer>>
        /\ sending = "sent" /\ sending' = "no"
        /\ response' = IF response = "finished" THEN "finished" ELSE "destroyed"
    BY DEF ConnectionSent, clientVars, workerVars
  <1>3. leased' => leased
    BY CleanupDoes DEF ConnectionSent, IInv, TypeOK
  <1>4. timer = "cleared" => timer' = "cleared" BY DEF ConnectionSent, Cleanup
  <1>5. leased => response # "finished" BY DEF LogInv, LoggedOnce
  <1>6. logged' = IF response \notin {"finished", "destroyed"} /\ handing \in {"active", "done"}
                  THEN logged + 1 ELSE logged
    BY <1>2 DEF AccessLogs
  <1>7. LoggedOnce'
    <2>1. handing \in {"active", "done"} => giving = "no" BY DEF LogInv, Given
    <2>2. logged \in {0, 1} /\ (Noted => logged = 1)
          /\ (logged = 1 => response \in {"finished", "destroyed"} \/ giving = "done")
      BY DEF LogInv, LoggedOnce
    <2>3. leased' => response' # "finished" BY <1>2, <1>3, <1>5, Zenon
    <2>4. CASE response \notin {"finished", "destroyed"} /\ handing \in {"active", "done"}
      BY <1>2, <1>6, <2>1, <2>2, <2>3, <2>4 DEF LoggedOnce, Noted
    <2>5. CASE ~(response \notin {"finished", "destroyed"} /\ handing \in {"active", "done"})
      BY <1>2, <1>6, <2>2, <2>3, <2>5 DEF LoggedOnce, Noted
    <2> QED BY <2>4, <2>5
  <1>8. CutOff' BY <1>2 DEF LogInv, CutOff
  <1>9. Given' BY <1>1, <1>2, <1>3, <1>4, <1>6, GivenServer DEF IInv, LogInv, Given
  <1>10. OneWay' BY <1>2, <1>3, <1>5 DEF LogInv, OneWay
  <1> QED BY <1>7, <1>8, <1>9, <1>10 DEF LogInv

(* a process that ended takes nothing over                                 *)
LEMMA TakenBackLogs ==
    ASSUME IInv, LogInv, FailRequest, AccessLogs, TakesOne,
           UNCHANGED <<kind, waiting, stream, upload, toServer>>,
           Has(toWorker', "request") => Has(toWorker, "request"),
           handing' = "no", giving' = "no", sending' \in {sending, "no"},
           process # "up", process' # "up",
           ~Has(toServer, "done"), giving # "done"
    PROVE  LogInv'
  <1>1. ~leased' /\ timer' = "cleared" BY DEF FailRequest, Cleanup, IsActive
  <1>2. response' = IF response = "open" THEN "ended"
                    ELSE IF response = "finished" THEN "finished" ELSE "destroyed"
    BY DEF FailRequest
  <1>3. logged' = logged BY <1>2 DEF AccessLogs
  <1>4. LoggedOnce' BY <1>1, <1>2, <1>3 DEF LogInv, LoggedOnce, Noted
  <1>5. CutOff' BY DEF FailRequest, LogInv, CutOff
  <1>6. Given' BY <1>1, GivenServer DEF IInv, LogInv
  <1>7. OneWay' BY <1>1 DEF OneWay
  <1> QED BY <1>4, <1>5, <1>6, <1>7 DEF LogInv

LEMMA ConnectionNotSentLogs ==
    ASSUME IInv, LogInv, EndTypeOK, AccessLogs, ConnectionNotSent
    PROVE  LogInv'
  <1>1. /\ TakesOne /\ UNCHANGED <<kind, waiting, stream, upload>>
        /\ Has(toWorker', "request") => Has(toWorker, "request")
    BY ServerSends DEF IInv
  <1>2. /\ UNCHANGED <<process, toServer>> /\ process # "up"
        /\ sending = "queued" /\ sending' = "no" /\ handing' = "no" /\ giving' = "no"
    BY DEF ConnectionNotSent, workerVars
  <1>3. ~Has(toServer, "done") /\ giving # "done" BY <1>2 DEF LogInv, Given
  <1>4. CASE FailRequest BY <1>1, <1>2, <1>3, <1>4, TakenBackLogs
  <1>5. CASE ~leased /\ UNCHANGED <<response, owner, timer, leased>>
    <2>1. logged' = logged BY <1>2, <1>5 DEF AccessLogs
    <2>2. LoggedOnce' BY <1>2, <1>3, <1>5, <2>1 DEF LogInv, LoggedOnce, Noted
    <2>3. CutOff' BY <1>2, <1>5 DEF LogInv, CutOff
    <2>4. Given' BY <1>1, <1>2, <1>3, <1>5, GivenServer DEF IInv, LogInv, Given
    <2>5. OneWay' BY <1>5 DEF OneWay
    <2> QED BY <2>2, <2>3, <2>4, <2>5 DEF LogInv
  <1> QED BY <1>4, <1>5 DEF ConnectionNotSent

LEMMA ClosedLogs ==
    ASSUME IInv, LogInv, EndTypeOK, AccessLogs, Closed
    PROVE  LogInv'
  <1>1. /\ TakesOne /\ UNCHANGED <<kind, waiting, stream, upload>>
        /\ Has(toWorker', "request") => Has(toWorker, "request")
    BY ServerSends DEF IInv
  <1>2. /\ UNCHANGED <<toServer, sending>> /\ process # "up" /\ process' # "up"
        /\ toServer = <<>>
    BY DEF Closed
  <1>3. ~Has(toServer, "done") BY <1>2 DEF Has
  <1>4. CASE leased
    <2>1. FailRequest /\ handing' = "no" /\ giving' = "no" BY <1>4 DEF Closed
    <2>2. giving # "done" BY <1>4 DEF LogInv, Given
    <2> QED BY <1>1, <1>2, <1>3, <2>1, <2>2, TakenBackLogs
  <1>5. CASE ~leased
    <2>0. UNCHANGED <<response, owner, timer, leased, handing, giving>> BY <1>5 DEF Closed
    <2>1. logged' = logged BY <2>0 DEF AccessLogs
    <2>2. LoggedOnce' BY <2>0, <2>1 DEF LogInv, LoggedOnce, Noted
    <2>3. CutOff' BY <1>2, <2>0 DEF LogInv, CutOff
    <2>4. Given' BY <1>1, <1>2, <1>3, <2>0, <2>1, GivenServer DEF IInv, LogInv, Given
    <2>5. OneWay' BY <1>5, <2>0 DEF OneWay
    <2> QED BY <2>2, <2>3, <2>4, <2>5 DEF LogInv
  <1> QED BY <1>4, <1>5

(* the response finishes                                                   *)
LEMMA FinishLogs ==
    ASSUME IInv, LogInv, EndTypeOK, AccessLogs, Finish
    PROVE  LogInv'
  <1>1. /\ TakesOne /\ UNCHANGED <<kind, waiting, stream, upload>>
        /\ Has(toWorker', "request") => Has(toWorker, "request")
    BY ServerSends DEF IInv
  <1>2. /\ UNCHANGED <<handing, giving, sending, process, toServer>>
        /\ response = "ended" /\ response' = "finished" /\ owner = "server"
        /\ owner' \in {"server", "closed"}
    BY DEF Finish, NotHanded, workerVars
  <1>3. giving = "no" /\ ~Has(toServer, "done")
    BY <1>2 DEF LogInv, Given, IInv, TypeOK
  <1>4. ~leased'
    <2>1. leased => ~IsActive BY <1>2, <1>3 DEF LogInv, OneWay, IsActive
    <2>2. leased' => leased /\ IsActive'
      BY CleanupDoes DEF Finish, IInv, TypeOK
    <2> QED BY <1>2, <2>1, <2>2 DEF IsActive
  <1>5. logged = 0 /\ logged' = 1
    <2>1. logged = 0 BY <1>2, <1>3 DEF LogInv, LoggedOnce
    <2>2. logged' = logged + 1 BY <1>2 DEF AccessLogs
    <2> QED BY <2>1, <2>2
  <1>6. LoggedOnce' BY <1>2, <1>4, <1>5 DEF LoggedOnce
  <1>7. CutOff' BY <1>2 DEF LogInv, CutOff
  <1>8. timer = "cleared" => timer' = "cleared" BY DEF Finish, Cleanup
  <1>9. Given' BY <1>1, <1>2, <1>3, <1>8, GivenServer DEF IInv, LogInv, Given
  <1>10. OneWay' BY <1>4 DEF OneWay
  <1> QED BY <1>6, <1>7, <1>9, <1>10 DEF LogInv

(* the client goes away                                                    *)
LEMMA ClientLeavesLogs ==
    ASSUME IInv, LogInv, EndTypeOK, AccessLogs, ClientLeaves
    PROVE  LogInv'
  <1>1. /\ TakesOne /\ UNCHANGED <<kind, waiting, stream, upload>>
        /\ Has(toWorker', "request") => Has(toWorker, "request")
    BY ServerSends DEF IInv
  <1>2. UNCHANGED <<handing, giving, sending, process, toServer>>
    BY DEF ClientLeaves, NotHanded, handVars, workerVars
  <1>3. CASE owner = "server" /\ giving # "active"
    <2>1. /\ owner' = "closed"
          /\ response' = IF response = "finished" THEN "finished" ELSE "destroyed"
      BY <1>3 DEF ClientLeaves
    <2>2. giving = "no" /\ ~Has(toServer, "done")
      BY <1>3 DEF LogInv, Given, IInv, TypeOK
    <2>3. leased' => leased BY CleanupDoes DEF ClientLeaves, IInv, TypeOK
    <2>4. leased => response # "finished" BY DEF LogInv, LoggedOnce
    <2>5. logged' = IF response \notin {"finished", "destroyed"} /\ handing \in {"active", "done"}
                    THEN logged + 1 ELSE logged
      BY <1>2, <2>1 DEF AccessLogs
    <2>6. LoggedOnce'
      <3>1. logged \in {0, 1} /\ (Noted => logged = 1)
            /\ (logged = 1 => response \in {"finished", "destroyed"})
        BY <2>2 DEF LogInv, LoggedOnce
      <3>2. leased' => response' # "finished" BY <2>1, <2>3, <2>4, Zenon
      <3>3. CASE response \notin {"finished", "destroyed"} /\ handing \in {"active", "done"}
        BY <1>2, <2>1, <2>2, <2>5, <3>1, <3>2, <3>3 DEF LoggedOnce, Noted
      <3>4. CASE ~(response \notin {"finished", "destroyed"} /\ handing \in {"active", "done"})
        BY <1>2, <2>1, <2>2, <2>5, <3>1, <3>2, <3>4 DEF LoggedOnce, Noted
      <3> QED BY <3>3, <3>4
    <2>7. CutOff' BY <1>2, <2>1 DEF LogInv, CutOff
    <2>8. timer = "cleared" => timer' = "cleared" BY DEF ClientLeaves, Cleanup
    <2>9. Given' BY <1>1, <1>2, <2>2, <2>8, GivenServer DEF IInv, LogInv, Given
    <2>10. OneWay' BY <1>2, <2>1, <2>3, <2>4 DEF LogInv, OneWay
    <2> QED BY <2>6, <2>7, <2>9, <2>10 DEF LogInv
  <1>4. CASE ~(owner = "server" /\ giving # "active")
    <2>1. UNCHANGED <<owner, response, timer, leased>> BY <1>4 DEF ClientLeaves
    <2> QED BY <1>1, <1>2, <2>1, QuietLog
  <1> QED BY <1>3, <1>4

(* the worker is done with the connection                                  *)
LEMMA HandedLogs ==
    ASSUME IInv, LogInv, EndTypeOK, AccessLogs, EmitAfterHandOff \/ RequestHandOffDone
    PROVE  LogInv'
  <1>1. /\ TakesOne /\ UNCHANGED <<kind, waiting, stream, upload>>
        /\ Has(toWorker', "request") => Has(toWorker, "request")
    BY ServerSends DEF IInv
  <1>2. UNCHANGED <<owner, response, sending, process>> /\ leased /\ timer' = "cleared"
        /\ toServer # <<>> /\ toServer' = Tail(toServer)
    BY DEF EmitAfterHandOff, RequestHandOffDone, Receives, Cleanup, workerVars
  <1>3. CASE EmitAfterHandOff
    <2>1. handing = "active" /\ handing' = "done" /\ giving' = giving
      BY <1>3 DEF EmitAfterHandOff
    <2>2. kind # "give" /\ giving = "no" /\ ~Has(toServer, "done") BY <2>1 DEF LogInv, Given
    <2>3. ~leased' BY <1>3, <2>1, <2>2 DEF EmitAfterHandOff, Cleanup, IsActive
    <2>4. logged' = logged BY <1>2, <2>1 DEF AccessLogs
    <2>5. LoggedOnce' BY <1>2, <2>1, <2>3, <2>4 DEF LogInv, LoggedOnce, Noted
    <2>6. CutOff' BY <1>2 DEF LogInv, CutOff
    <2>7. \A type : Has(toServer', type) => Has(toServer, type) BY <1>1, LessForServer DEF IInv
    <2>8. Given' BY <1>1, <2>1, <2>2, <2>7, GivenServer DEF IInv, LogInv
    <2> QED BY <2>3, <2>5, <2>6, <2>8 DEF LogInv, OneWay
  <1>4. CASE RequestHandOffDone
    <2>1. handing' = handing /\ giving' = "done" /\ Head(toServer).type = "done"
      BY <1>4 DEF RequestHandOffDone, Receives
    <2>2. Has(toServer, "done") /\ ~Has(Tail(toServer), "done")
      <3>1. /\ Has(toServer, "done") <=> Head(toServer).type = "done" \/ Has(Tail(toServer), "done")
            /\ Once(toServer, "done") /\ Head(toServer).type = "done" => ~Has(Tail(toServer), "done")
        BY <1>2, Taken DEF IInv, TypeOK
      <3> QED BY <2>1, <3>1 DEF LogInv, Given
    <2>3. /\ giving = "active" /\ owner = "closed" /\ sending # "queued"
          /\ kind = "give" /\ handing = "no" /\ logged = 0
      BY <2>2 DEF LogInv, Given
    <2>4. ~leased' BY <1>4, <2>1, <2>3 DEF RequestHandOffDone, Cleanup, IsActive
    <2>5. logged' = 1
      <3>1. logged' = logged + 1 BY <2>1, <2>3 DEF AccessLogs
      <3> QED BY <2>3, <3>1
    <2>6. LoggedOnce' BY <2>1, <2>4, <2>5 DEF LoggedOnce
    <2>7. CutOff' BY <1>2 DEF LogInv, CutOff
    <2>8. Given'
      <3>1. ~Has(toServer', "done") BY <1>2, <2>2
      <3> QED BY <1>1, <1>2, <2>1, <2>3, <2>4, <3>1, GivenServer DEF IInv, LogInv
    <2> QED BY <2>4, <2>6, <2>7, <2>8 DEF LogInv, OneWay
  <1> QED BY <1>3, <1>4

(* the process ends                                                        *)
LEMMA ExitLogs == ASSUME IInv, LogInv, AccessLogs, Exit PROVE LogInv'
  <1>1. UNCHANGED <<kind, response, timer, leased, handing, giving, sending, toServer, toWorker,
                    waiting, stream, upload>>
    BY DEF Exit, serverVars, handVars, answerVars, readerVars
  <1>2. /\ owner' = IF owner \in {"worker", "wire"} THEN "closed" ELSE owner
        /\ process' = "gone"
    BY DEF Exit
  <1>3. logged' = logged BY <1>1 DEF AccessLogs
  <1>4. LoggedOnce' BY <1>1, <1>3 DEF LogInv, LoggedOnce, Noted
  <1>5. owner' \in {"server", "closed"} /\ (owner # "server" => owner' # "server")
    BY <1>2 DEF IInv, TypeOK
  <1>6. CutOff' BY <1>1, <1>5 DEF LogInv, CutOff
  <1>7. Given' BY <1>1, <1>2, <1>3, <1>5 DEF LogInv, Given
  <1>8. OneWay' BY <1>1 DEF LogInv, OneWay
  <1> QED BY <1>4, <1>6, <1>7, <1>8 DEF LogInv

(* what the worker does                                                    *)
LEMMA WorkerLogs ==
    ASSUME IInv, IInv', LogInv, EndTypeOK, AccessLogs,
           \/ SessionStep \/ WorkerStep \/ ReadBody \/ ReadHandedBody \/ CloseSocket
    PROVE  LogInv'
  <1>1. /\ UNCHANGED <<kind, response, timer, leased, handing, giving, sending, process>>
        /\ process = "up"
        /\ toWorker' = toWorker \/ (toWorker # <<>> /\ toWorker' = Tail(toWorker))
    BY DEF SessionStep, WorkerStep, ReadBody, ReadHandedBody, CloseSocket, StartRequest, BodyPart,
           Acknowledged, AbortRequest, Refused, ReceiveConnection, Gets, SendResponse, AskForConnection,
           StreamPart, StreamEnd, StreamSettled, WriteToSocket, Return, Throw, Works, serverVars,
           handVars, clientVars
  <1>2. Up /\ Up' BY <1>1 DEF IInv
  <1>3. owner' = owner \/ (owner \in {"wire", "worker"} /\ owner' \in {"worker", "closed"})
    <2>1. CASE ReceiveConnection
      <3>1. ipc # <<>> /\ Head(ipc) = ipc[1] /\ 1 \in 1..Len(ipc)
        BY <2>1 DEF ReceiveConnection, IInv, TypeOK
      <3>2. Head(ipc).with => owner = "wire" BY <1>2, <3>1 DEF Up, Carried
      <3>3. owner' = owner \/ (Head(ipc).with /\ owner' \in {"worker", "closed"})
        BY <2>1 DEF ReceiveConnection, StartHandedRequest
      <3> QED BY <3>2, <3>3
    <2>2. CASE CloseSocket BY <2>2 DEF CloseSocket
    <2>3. CASE SessionStep /\ ~ReceiveConnection
      BY <2>3 DEF SessionStep, StartRequest, BodyPart, Acknowledged, AbortRequest, Refused, Gets, clientVars
    <2>4. CASE WorkerStep \/ ReadBody \/ ReadHandedBody
      BY <2>4 DEF WorkerStep, ReadBody, ReadHandedBody, SendResponse, AskForConnection, StreamPart,
           StreamEnd, StreamSettled, WriteToSocket, Return, Throw
    <2> QED BY <2>1, <2>2, <2>3, <2>4
  <1>4. logged' = logged BY <1>1 DEF AccessLogs
  <1>5. LoggedOnce' BY <1>1, <1>4 DEF LogInv, LoggedOnce, Noted
  <1>6. CutOff' BY <1>1, <1>3 DEF LogInv, CutOff
  <1>7. OneWay'
    <2>1. /\ leased' /\ Has(toServer', "ask") => answer' = "asking"
          /\ leased' /\ handing' = "head" => answer' = "asking"
          /\ handing' = "active" => answer' # "sent"
          /\ answer' = "asking" => ~Has(toServer', "emit")
          /\ Has(toServer', "response") => answer' = "sent"
      BY <1>2 DEF Up, Question, HeadFirst, Handed, SentSoFar
    <2> QED BY <1>1, <2>1 DEF LogInv, OneWay
  <1>8. CASE kind # "give"
    <2>1. ~Has(toServer', "done") BY <1>1, <1>2, <1>8 DEF Up, Ways
    <2>2. Once(toServer', "done") BY <2>1 DEF Once, Has
    <2>3. giving = "no" BY <1>8 DEF LogInv, Given
    <2>4. Given' BY <1>1, <1>8, <2>1, <2>2, <2>3 DEF Given
    <2> QED BY <1>5, <1>6, <1>7, <2>4 DEF LogInv
  <1>9. CASE kind = "give"
    <2>1. /\ handing = "no" /\ timer = "cleared" /\ ~stream /\ waiting = <<>> /\ upload = "none"
          /\ ~Has(toWorker, "request")
          /\ answer \in {"none", "piping", "over"}
      BY <1>2, <1>9 DEF LogInv, Given, Up, Ways
    <2>2. ~Has(toWorker', "request")
      BY <1>1, <2>1, Taken DEF IInv, TypeOK
    <2>3. \/ SessionStep /\ ~StartRequest
          \/ WriteToSocket \/ Return \/ ReadHandedBody \/ CloseSocket
      <3>1. ~StartRequest
        <4>1. StartRequest => toWorker # <<>> /\ Head(toWorker).type = "request" BY DEF StartRequest, Gets
        <4> QED BY <2>1, <4>1, Taken DEF IInv, TypeOK
      <3>2. ~ReadBody BY <2>1 DEF ReadBody
      <3>3. ~SendResponse /\ ~AskForConnection /\ ~Throw
        BY <1>9 DEF SendResponse, AskForConnection, Throw
      <3>4. ~StreamPart /\ ~StreamEnd /\ ~StreamSettled
        BY <1>9, <2>1 DEF StreamPart, StreamEnd, StreamSettled
      <3> QED BY <3>1, <3>2, <3>3, <3>4 DEF WorkerStep
    <2>4. /\ ~stream' /\ waiting' = <<>> /\ upload' = "none"
          /\ toServer' = toServer \/ (CloseSocket /\ toServer' = Append(toServer, Msg("done")))
      <3>1. CASE SessionStep /\ ~StartRequest
        BY <2>1, <3>1 DEF SessionStep, BodyPart, Acknowledged, AbortRequest, Refused, ReceiveConnection,
                          DestroyUpload, answerVars, readerVars
      <3>2. CASE WriteToSocket \/ Return \/ ReadHandedBody
        <4>1. UNCHANGED <<waiting, upload, toServer>> /\ (stream' => stream)
          <5>1. CASE WriteToSocket BY <5>1 DEF WriteToSocket, readerVars
          <5>2. CASE ReadHandedBody BY <5>2 DEF ReadHandedBody, answerVars
          <5>3. CASE Return
            <6>1. UNCHANGED <<waiting, upload, toServer>> BY <5>3 DEF Return, readerVars
            <6>2. stream' => stream BY <5>3, Zenon DEF Return
            <6> QED BY <6>1, <6>2
          <5> QED BY <3>2, <5>1, <5>2, <5>3
        <4> QED BY <2>1, <4>1
      <3>3. CASE CloseSocket
        BY <1>9, <2>1, <3>3 DEF CloseSocket, readerVars
      <3> QED BY <2>3, <3>1, <3>2, <3>3
    <2>5. /\ \A type : Has(toServer', type) => type = "done"
          /\ Once(toServer', "done")
          /\ Has(toServer', "done") => giving = "active" /\ owner' = "closed" /\ sending # "queued"
      <3>1. /\ \A type : Has(toServer, type) => type = "done"
            /\ Once(toServer, "done")
            /\ Has(toServer, "done") => giving = "active" /\ owner = "closed" /\ sending # "queued"
        BY <1>9 DEF LogInv, Given
      <3>2. CASE toServer' = toServer BY <1>3, <3>1, <3>2
      <3>3. CASE CloseSocket /\ toServer' = Append(toServer, Msg("done"))
        <4>1. owner = "worker" /\ owner' = "closed" BY <3>3 DEF CloseSocket
        <4>2. ~Has(toServer, "done") BY <3>1, <4>1
        <4>3. giving = "active" /\ sending # "queued"
          BY <1>2, <2>1, <4>1 DEF Up, Lease, IsActive
        <4>4. Msg("done") \in Message /\ Msg("done").type = "done" BY MessagesTyped
        <4>5. /\ \A type : Has(toServer', type) <=> Has(toServer, type) \/ type = "done"
              /\ Once(toServer', "done")
          BY <3>1, <3>3, <4>2, <4>4, Appended DEF IInv, TypeOK
        <4> QED BY <3>1, <4>1, <4>3, <4>5
      <3> QED BY <2>4, <3>2, <3>3
    <2>6. Given'
      BY <1>1, <1>3, <1>4, <1>9, <2>1, <2>2, <2>4, <2>5 DEF LogInv, Given
    <2> QED BY <1>5, <1>6, <1>7, <2>6 DEF LogInv
  <1> QED BY <1>8, <1>9

LEMMA LogKept ==
    ASSUME IInv, IInv', LogInv, EndTypeOK, [Next]_all
    PROVE  LogInv'
  <1>1. CASE ServerStep /\ AccessLogs
    BY <1>1, QuietServerLogs, FailStepsLog, ProgressLogs, HandedLogs, HeadWrittenLogs, ConnectionSentLogs,
       ConnectionNotSentLogs, FinishLogs, ClosedLogs
    DEF ServerStep
  <1>2. CASE /\ \/ ClientTakes \/ WriteFails \/ ClientLeaves \/ TimerFires \/ SendConnection \/ Exit
             /\ AccessLogs
    BY <1>2, QuietServerLogs, FailStepsLog, ClientLeavesLogs, SendConnectionLogs, ExitLogs
  <1>3. CASE (SessionStep \/ WorkerStep \/ ReadBody \/ ReadHandedBody \/ CloseSocket) /\ AccessLogs
    BY <1>3, WorkerLogs
  <1>4. CASE UNCHANGED all
    <2>1. UNCHANGED <<kind, owner, response, timer, logged, leased, handing, giving, sending,
                      toWorker, toServer, process, stream, waiting, upload>>
      BY <1>4 DEF all, vars, clientVars, uploadVars, serverVars, handVars, wires, workerVars,
                  answerVars, readerVars
    <2> QED BY <2>1 DEF LogInv, LoggedOnce, Noted, CutOff, Given, OneWay
  <1> QED BY <1>1, <1>2, <1>3, <1>4 DEF Next, Step

-----------------------------------------------------------------------------
(* The parts and the acknowledgements on their way                         *)

LEMMA PartsAppended ==
    ASSUME NEW queue \in Seq(Message), NEW m \in Message, NEW how, PartsOf(queue, how),
           m.type # "emit"
    PROVE  PartsOf(Append(queue, m), how)
  <1> DEFINE more == Append(queue, m)
             n == Len(queue)
  <1>1. /\ n \in Nat /\ Len(more) = n + 1 /\ more[n + 1] = m
        /\ \A i \in 1..n : more[i] = queue[i]
    BY QueueAppended
  <1> HIDE DEF more, n
  <1>2. /\ Len(queue) = n
        /\ \A i \in 1..n : queue[i].type = "emit" =>
              /\ queue[i].part \in 0..Chunks
              /\ queue[i].part = 0 =>
                    how \in {"last", "over"} /\ \A j \in (i + 1)..n : queue[j].type # "emit"
    BY DEF PartsOf, n
  <1> SUFFICES ASSUME NEW i \in 1..Len(more), more[i].type = "emit"
               PROVE  /\ more[i].part \in 0..Chunks
                      /\ more[i].part = 0 =>
                            /\ how \in {"last", "over"}
                            /\ \A j \in (i + 1)..Len(more) : more[j].type # "emit"
    BY DEF PartsOf, more
  <1>3. i \in 1..n /\ more[i] = queue[i] BY <1>1
  <1>4. more[i].part \in 0..Chunks /\ (more[i].part = 0 => how \in {"last", "over"}) BY <1>2, <1>3
  <1>5. ASSUME more[i].part = 0, NEW j \in (i + 1)..Len(more) PROVE more[j].type # "emit"
    <2>1. CASE j = n + 1 BY <1>1, <2>1
    <2>2. CASE j # n + 1
      <3>1. j \in (i + 1)..n /\ j \in 1..n BY <1>1, <1>3, <2>2
      <3> QED BY <1>1, <1>2, <1>3, <1>5, <3>1
    <2> QED BY <2>1, <2>2
  <1> QED BY <1>4, <1>5

LEMMA PartsTaken ==
    ASSUME NEW queue \in Seq(Message), queue # <<>>, NEW how, PartsOf(queue, how)
    PROVE  /\ PartsOf(Tail(queue), how)
           /\ Head(queue).type = "emit" => Head(queue).part \in 0..Chunks
           /\ Head(queue).type = "emit" /\ Head(queue).part = 0 =>
                 how \in {"last", "over"} /\ ~Has(Tail(queue), "emit")
  <1> DEFINE rest == Tail(queue)
             n == Len(queue)
  <1>1. /\ n \in Nat \ {0} /\ Len(rest) = n - 1 /\ Head(queue) = queue[1]
        /\ \A i \in 1..(n - 1) : rest[i] = queue[i + 1]
    BY QueueTaken
  <1> HIDE DEF rest, n
  <1>2. /\ Len(queue) = n
        /\ \A i \in 1..n : queue[i].type = "emit" =>
              /\ queue[i].part \in 0..Chunks
              /\ queue[i].part = 0 =>
                    how \in {"last", "over"} /\ \A j \in (i + 1)..n : queue[j].type # "emit"
    BY DEF PartsOf, n
  <1>3. PartsOf(rest, how)
    <2> SUFFICES ASSUME NEW i \in 1..Len(rest), rest[i].type = "emit"
                 PROVE  /\ rest[i].part \in 0..Chunks
                        /\ rest[i].part = 0 =>
                              /\ how \in {"last", "over"}
                              /\ \A j \in (i + 1)..Len(rest) : rest[j].type # "emit"
      BY DEF PartsOf
    <2>1. i \in 1..(n - 1) /\ rest[i] = queue[i + 1] /\ i + 1 \in 1..n BY <1>1
    <2>2. rest[i].part \in 0..Chunks /\ (rest[i].part = 0 => how \in {"last", "over"}) BY <1>2, <2>1
    <2>3. ASSUME rest[i].part = 0, NEW j \in (i + 1)..Len(rest) PROVE rest[j].type # "emit"
      <3>1. j \in 1..(n - 1) /\ rest[j] = queue[j + 1] /\ j + 1 \in ((i + 1) + 1)..n BY <1>1, <2>1
      <3> QED BY <1>2, <2>1, <2>3, <3>1
    <2> QED BY <2>2, <2>3
  <1>4. 1 \in 1..n BY <1>1
  <1>5. Head(queue).type = "emit" => Head(queue).part \in 0..Chunks BY <1>1, <1>2, <1>4
  <1>6. ASSUME Head(queue).type = "emit", Head(queue).part = 0
        PROVE  how \in {"last", "over"} /\ ~Has(rest, "emit")
    <2>1. how \in {"last", "over"} /\ \A j \in (1 + 1)..n : queue[j].type # "emit"
      BY <1>1, <1>2, <1>4, <1>6
    <2>2. \A i \in 1..Len(rest) : rest[i].type # "emit"
      <3> SUFFICES ASSUME NEW i \in 1..Len(rest) PROVE rest[i].type # "emit" OBVIOUS
      <3>1. rest[i] = queue[i + 1] /\ i + 1 \in (1 + 1)..n BY <1>1
      <3> QED BY <2>1, <3>1
    <2> QED BY <2>1, <2>2 DEF Has
  <1> QED BY <1>3, <1>5, <1>6 DEF rest

(* what follows after parts of which none was the last                     *)
LEMMA PartAdded ==
    ASSUME NEW queue \in Seq(Message), NEW part \in 0..Chunks, NEW how, NEW later, PartsOf(queue, how),
           how \notin {"last", "over"}, part = 0 => later \in {"last", "over"}
    PROVE  PartsOf(Append(queue, [type |-> "emit", part |-> part]), later)
  <1> DEFINE m == [type |-> "emit", part |-> part]
             more == Append(queue, m)
             n == Len(queue)
  <1>0. m \in Message /\ m.type = "emit" /\ m.part = part BY SizesAssumption DEF Message
  <1> HIDE DEF m
  <1>1. /\ n \in Nat /\ Len(more) = n + 1 /\ more[n + 1] = m
        /\ \A i \in 1..n : more[i] = queue[i]
    BY <1>0, QueueAppended
  <1> HIDE DEF more, n
  <1>2. /\ Len(queue) = n
        /\ \A i \in 1..n : queue[i].type = "emit" =>
              /\ queue[i].part \in 0..Chunks
              /\ queue[i].part # 0
    BY DEF PartsOf, n
  <1>3. SUFFICES ASSUME NEW i \in 1..Len(more), more[i].type = "emit"
                 PROVE  /\ more[i].part \in 0..Chunks
                        /\ more[i].part = 0 =>
                              /\ later \in {"last", "over"}
                              /\ \A j \in (i + 1)..Len(more) : more[j].type # "emit"
    BY DEF PartsOf, more, m
  <1>4. CASE i \in 1..n BY <1>1, <1>2, <1>3, <1>4
  <1>5. CASE i = n + 1
    <2>1. \A j \in (i + 1)..Len(more) : FALSE BY <1>1, <1>5
    <2> QED BY <1>0, <1>1, <1>5, <2>1
  <1> QED BY <1>1, <1>4, <1>5

(* how far the response is does not fall back                              *)
LEMMA PartsStay ==
    ASSUME NEW queue, NEW how, NEW later, PartsOf(queue, how),
           how \in {"last", "over"} => later \in {"last", "over"}
    PROVE  PartsOf(queue, later)
  BY DEF PartsOf

LEMMA PartsNone ==
    ASSUME NEW queue, ~Has(queue, "emit"), NEW how
    PROVE  PartsOf(queue, how)
  BY DEF PartsOf, Has

(* acknowledgements for the parts of a body                                *)
LEMMA PartsJoined ==
    ASSUME NEW queue \in Seq(Message), NEW n \in Nat, NEW how, PartsOf(queue, how)
    PROVE  /\ PartsOf(queue \o [i \in 1..n |-> Msg("bodyAck")], how)
           /\ Among(queue \o [i \in 1..n |-> Msg("bodyAck")], EmitMessage) = Among(queue, EmitMessage)
           /\ Has(queue \o [i \in 1..n |-> Msg("bodyAck")], "emit") => Has(queue, "emit")
  <1> DEFINE acks == [i \in 1..n |-> Msg("bodyAck")]
             more == queue \o acks
             k == Len(queue)
  <1>1. acks \in Seq(Message) /\ Len(acks) = n /\ \A i \in 1..n : acks[i].type = "bodyAck"
    BY DEF Message, Msg
  <1> HIDE DEF acks
  <1>2. /\ k \in Nat /\ Len(more) = k + n
        /\ \A i \in 1..k : more[i] = queue[i]
        /\ \A i \in 1..n : more[k + i] = acks[i]
    <2>1. /\ k \in Nat /\ Len(more) = k + Len(acks)
          /\ \A i \in 1..k : more[i] = queue[i]
          /\ \A i \in 1..Len(acks) : more[k + i] = acks[i]
      <3>1. acks \in Seq(Message) BY <1>1
      <3> QED BY <3>1, QueueJoined
    <2> QED BY <1>1, <2>1
  <1>3. Among(more, EmitMessage) = Among(queue, EmitMessage)
    <2>1. \A i \in 1..Len(acks) : acks[i] \notin EmitMessage BY <1>1 DEF EmitMessage
    <2> QED BY <1>1, <2>1, CountJoined
  <1>4. Has(more, "emit") => Has(queue, "emit") 
    <2>1. \A type : Has(more, type) <=> Has(queue, type) \/ Has(acks, type) BY <1>1, HasJoined
    <2>2. ~Has(acks, "emit") BY <1>1 DEF Has
    <2> QED BY <2>1, <2>2
  <1> HIDE DEF more, k
  <1>5. /\ Len(queue) = k
        /\ \A i \in 1..k : queue[i].type = "emit" =>
              /\ queue[i].part \in 0..Chunks
              /\ queue[i].part = 0 =>
                    how \in {"last", "over"} /\ \A j \in (i + 1)..k : queue[j].type # "emit"
    BY DEF PartsOf, k
  <1>6. \A i \in (k + 1)..(k + n) : more[i].type = "bodyAck"
    <2> SUFFICES ASSUME NEW i \in (k + 1)..(k + n) PROVE more[i].type = "bodyAck" OBVIOUS
    <2>1. i - k \in 1..n /\ i = k + (i - k) BY <1>2
    <2> QED BY <1>1, <1>2, <2>1
  <1>7. PartsOf(more, how)
    <2> SUFFICES ASSUME NEW i \in 1..Len(more), more[i].type = "emit"
                 PROVE  /\ more[i].part \in 0..Chunks
                        /\ more[i].part = 0 =>
                              /\ how \in {"last", "over"}
                              /\ \A j \in (i + 1)..Len(more) : more[j].type # "emit"
      BY DEF PartsOf
    <2>1. i \in 1..k /\ more[i] = queue[i]
      <3>1. i \notin (k + 1)..(k + n) BY <1>6
      <3> QED BY <1>2, <3>1
    <2>2. more[i].part \in 0..Chunks /\ (more[i].part = 0 => how \in {"last", "over"}) BY <1>5, <2>1
    <2>3. ASSUME more[i].part = 0, NEW j \in (i + 1)..Len(more) PROVE more[j].type # "emit"
      <3>1. CASE j \in (k + 1)..(k + n) BY <1>6, <3>1
      <3>2. CASE j \notin (k + 1)..(k + n)
        <4>1. j \in (i + 1)..k /\ j \in 1..k BY <1>2, <2>1, <3>2
        <4> QED BY <1>2, <1>5, <2>1, <2>3, <4>1
      <3> QED BY <3>1, <3>2
    <2> QED BY <2>2, <2>3
  <1> QED BY <1>3, <1>4, <1>7 DEF more, acks

-----------------------------------------------------------------------------
(* What the server sends                                                   *)

(* the queue goes on with more, and with so many acknowledgements of parts *)
More(out, more, acks) ==
    /\ more \in Seq(Message)
    /\ Has(more, "request") <=> Has(out, "request")
    /\ OnlyFirst(out, "request") => OnlyFirst(more, "request")
    /\ Has(out, "abort") => Has(more, "abort")
    /\ Among(more, AckOfPart) = Among(out, AckOfPart) + acks

LEMMA MoreNone == ASSUME NEW out \in Seq(Message) PROVE More(out, out, 0)
  <1>1. Among(out, AckOfPart) \in Nat BY PlacesAreFinite
  <1> QED BY <1>1 DEF More

LEMMA MoreSent ==
    ASSUME process = "up", NEW out \in Seq(Message), NEW m \in Message, m.type # "request"
    PROVE  /\ More(out, Sent(out, m), IF m.type = "ack" THEN 1 ELSE 0)
           /\ m.type = "abort" => Has(Sent(out, m), "abort")
  <1>1. Sent(out, m) = Append(out, m) BY DEF Sent
  <1>2. /\ Append(out, m) \in Seq(Message)
        /\ \A type : Has(Append(out, m), type) <=> Has(out, type) \/ m.type = type
    BY Appended
  <1>3. OnlyFirst(out, "request") => OnlyFirst(Append(out, m), "request") BY EndsAppended
  <1>4. m \in AckOfPart <=> m.type = "ack" BY DEF AckOfPart, Message
  <1>5. Among(Append(out, m), AckOfPart) = Among(out, AckOfPart) + IF m \in AckOfPart THEN 1 ELSE 0
    BY CountAppended
  <1>6. Among(Append(out, m), AckOfPart) = Among(out, AckOfPart) + IF m.type = "ack" THEN 1 ELSE 0
    BY <1>4, <1>5
  <1> QED BY <1>1, <1>2, <1>3, <1>6 DEF More

LEMMA MoreTogether ==
    ASSUME NEW out \in Seq(Message), NEW more, NEW joined, NEW n \in Nat, NEW k \in Nat,
           More(out, more, n), More(more, joined, k)
    PROVE  More(out, joined, n + k)
  <1>1. Among(out, AckOfPart) \in Nat BY PlacesAreFinite
  <1>2. Among(joined, AckOfPart) = Among(out, AckOfPart) + (n + k) BY <1>1 DEF More
  <1> QED BY <1>2 DEF More

(* the end of a request tells the worker, unless it is over for it         *)
LEMMA CleanupTells ==
    ASSUME process = "up", process' = "up", NEW out \in Seq(Message), Cleanup(out)
    PROVE  /\ More(out, toWorker', 0)
           /\ \/ leased' = leased /\ IsActive'
              \/ ~leased' /\ Has(toWorker', "abort")
              \/ ~leased' /\ ~IsActive' /\ (response' = "finished" \/ IsHandedOff')
           /\ timer' = "cleared"
  <1>1. Msg("abort") \in Message /\ Msg("abort").type = "abort" BY MessagesTyped
  <1>2. /\ More(out, Sent(out, Msg("abort")), 0)
        /\ Has(Sent(out, Msg("abort")), "abort")
    BY <1>1, MoreSent
  <1>3. More(out, out, 0) BY MoreNone
  <1>4. \/ toWorker' = out /\ leased' = leased /\ IsActive'
        \/ toWorker' = out /\ ~leased' /\ ~IsActive' /\ (response' = "finished" \/ IsHandedOff')
        \/ toWorker' = Sent(out, Msg("abort")) /\ ~leased'
    BY DEF Cleanup
  <1>5. timer' = "cleared" BY DEF Cleanup
  <1> QED BY <1>2, <1>3, <1>4, <1>5

(* What the server adds to the queue, or takes from a queue, and the       *)
(* promises that this settles.                                             *)
LEMMA PromisesTyped ==
    ASSUME TypeOK, EndTypeOK
    PROVE  /\ Among(toServer, EmitMessage) \in Nat /\ Among(toWorker, AckOfPart) \in Nat
           /\ Among(unwritten, 1..Chunks) \in Nat
           /\ Len(waiting) \in Nat
  BY PlacesAreFinite DEF TypeOK, EndTypeOK

LEMMA PromisedSum ==
    ASSUME TypeOK, EndTypeOK, NEW e \in Nat, NEW a \in Nat, NEW u \in Nat,
           Among(toServer', EmitMessage) = e, Among(toWorker', AckOfPart) = a,
           Among(unwritten', 1..Chunks) = u,
           Among(toServer, EmitMessage) + Among(toWorker, AckOfPart) + Among(unwritten, 1..Chunks)
               <= e + a + u,
           waiting' = waiting, Len(waiting) <= Promised
    PROVE  Len(waiting') <= Promised'
  <1>1. Len(waiting) <= e + a + u BY PromisesTyped DEF Promised
  <1>2. Promised' = e + a + u BY DEF Promised
  <1>3. Len(waiting') = Len(waiting) OBVIOUS
  <1> QED BY <1>1, <1>2, <1>3

(* a message that is taken is no part, or the first one                    *)
LEMMA EmitTaken ==
    ASSUME TypeOK, toServer # <<>>, toServer' = Tail(toServer)
    PROVE  \E e \in Nat :
              /\ Among(toServer', EmitMessage) = e
              /\ Among(toServer, EmitMessage) =
                    e + IF Head(toServer).type = "emit" THEN 1 ELSE 0
  <1>1. toServer \in Seq(Message) /\ Tail(toServer) \in Seq(Message) /\ Head(toServer) \in Message
    BY Taken DEF TypeOK
  <1>2. Head(toServer) \in EmitMessage <=> Head(toServer).type = "emit"
    BY <1>1 DEF EmitMessage, Message
  <1>3. Among(toServer, EmitMessage) =
           Among(Tail(toServer), EmitMessage) + IF Head(toServer) \in EmitMessage THEN 1 ELSE 0
    BY <1>1, CountTaken
  <1>4. Among(Tail(toServer), EmitMessage) \in Nat BY <1>1, PlacesAreFinite
  <1>5. Among(toServer', EmitMessage) = Among(Tail(toServer), EmitMessage) OBVIOUS
  <1>6. Among(toServer, EmitMessage) =
           Among(Tail(toServer), EmitMessage) + IF Head(toServer).type = "emit" THEN 1 ELSE 0
    BY <1>2, <1>3
  <1> QED BY <1>4, <1>5, <1>6

-----------------------------------------------------------------------------
(* Steps of the server                                                     *)

LEMMA ServerSettles ==
    ASSUME TypeOK, EndInv, kind # "give", process = "up",
           UNCHANGED <<kind, running, answer, stream, aborted, waiting, upload>>,
           TakesOne, NEW n, More(toWorker, toWorker', n),
           leased' => leased,
           Has(toWorker', "abort") \/ Len(waiting') <= Promised',
           leased /\ ~leased' =>
               Has(toWorker', "abort") \/ (answer \in Over /\ ~Has(toServer', "emit")),
           leased' /\ response' = "ended" => answer \in Over /\ ~Has(toServer', "emit"),
           ~leased' \/ handing' = "active" => timer' = "cleared"
    PROVE  EndInv'
  <1>1. Begun /\ Streamed /\ Ended /\ Settling BY DEF EndInv
  <1>2. Has(toServer', "emit") => Has(toServer, "emit") BY LessForServer
  <1>3. Begun' BY <1>1 DEF Begun, More
  <1>4. Streamed' BY <1>1 DEF Streamed
  <1>5. Ended'
    <2>1. PartsOf(toServer', answer)
      <3>1. PartsOf(toServer, answer) BY <1>1 DEF Ended
      <3>2. toServer # <<>> => PartsOf(Tail(toServer), answer) BY <3>1, PartsTaken DEF TypeOK
      <3>3. CASE toServer' = toServer BY <3>1, <3>3
      <3>4. CASE toServer # <<>> /\ toServer' = Tail(toServer) BY <3>2, <3>4
      <3> QED BY <3>3, <3>4 DEF TakesOne
    <2>2. answer' = "sent" => ~Has(toServer', "emit") BY <1>1, <1>2 DEF Ended
    <2>3. PartsOf(toServer', answer') BY <2>1
    <2> QED BY <2>2, <2>3 DEF Ended
  <1>6. Settling'
    <2> SUFFICES ASSUME ~Has(toWorker', "abort") PROVE Settling' BY DEF Settling
    <2>1. ~Has(toWorker, "abort") BY DEF More
    <2>2. Len(waiting') <= Promised' OBVIOUS
    <2>3. ASSUME ~leased'
          PROVE  /\ running # "no" /\ answer # "asking" /\ upload # "open"
                 /\ aborted \/ ~stream \/ (answer \in Over /\ ~Has(toServer', "emit"))
      <3>1. CASE leased
        <4>1. answer \in Over /\ ~Has(toServer', "emit") BY <2>3, <3>1
        <4>2. running # "no" /\ upload # "open" /\ answer # "asking"
          BY <1>1, <4>1 DEF Over, Begun, Streamed
        <4> QED BY <4>1, <4>2
      <3>2. CASE ~leased
        BY <1>1, <1>2, <2>1, <3>2 DEF Settling
      <3> QED BY <3>1, <3>2
    <2> QED BY <2>2, <2>3 DEF Settling
  <1> QED BY <1>3, <1>4, <1>5, <1>6 DEF EndInv

(* nothing that settles a promise goes lost                                *)
LEMMA AsManyPromised ==
    ASSUME TypeOK, EndTypeOK, waiting' = waiting, Len(waiting) <= Promised, NEW n \in Nat,
           More(toWorker, toWorker', n),
           NEW e \in Nat, Among(toServer', EmitMessage) = e,
           NEW u \in Nat, Among(unwritten', 1..Chunks) = u,
           Among(toServer, EmitMessage) + Among(unwritten, 1..Chunks) <= e + u + n
    PROVE  Len(waiting') <= Promised'
  <1> DEFINE a == Among(toWorker, AckOfPart)
  <1>1. a \in Nat /\ Among(toServer, EmitMessage) \in Nat /\ Among(unwritten, 1..Chunks) \in Nat
    BY PromisesTyped
  <1>2. Among(toWorker', AckOfPart) = a + n BY DEF More
  <1> HIDE DEF a
  <1>3. a + n \in Nat BY <1>1
  <1>4. Among(toServer, EmitMessage) + a + Among(unwritten, 1..Chunks) <= e + (a + n) + u
    BY <1>1
  <1> QED BY <1>2, <1>3, <1>4, PromisedSum DEF a

(* the end of a request                                                    *)
LEMMA CleanupSettles ==
    ASSUME IInv, LogInv, EndTypeOK, EndInv, kind # "give", process = "up", process' = "up",
           UNCHANGED <<kind, running, answer, stream, aborted, waiting, upload, toServer, handing, giving>>,
           Cleanup(toWorker) \/ UNCHANGED <<timer, leased, toWorker>>,
           Among(unwritten', 1..Chunks) = Among(unwritten, 1..Chunks),
           leased /\ response' = "finished" => answer \in Over /\ ~Has(toServer, "emit"),
           leased' /\ response' = "ended" => response = "ended"
    PROVE  EndInv'
  <1>1. TypeOK /\ Up /\ toWorker \in Seq(Message) BY DEF IInv, TypeOK
  <1>2. More(toWorker, toWorker', 0)
    <2>1. CASE Cleanup(toWorker) BY <1>1, <2>1, CleanupTells
    <2>2. CASE UNCHANGED <<timer, leased, toWorker>> 
      <3>1. More(toWorker, toWorker, 0) BY <1>1, MoreNone
      <3> QED BY <2>2, <3>1
    <2> QED BY <2>1, <2>2
  <1>3. TakesOne BY DEF TakesOne
  <1>4. leased' => leased BY <1>1, CleanupDoes
  <1>5. Has(toWorker', "abort") \/ Len(waiting') <= Promised'
    <2>1. Has(toWorker, "abort") \/ Len(waiting) <= Promised BY DEF EndInv, Settling
    <2>2. CASE Has(toWorker, "abort") BY <1>2, <2>2 DEF More
    <2>3. CASE Len(waiting) <= Promised
      <3> DEFINE e == Among(toServer, EmitMessage)
                 u == Among(unwritten, 1..Chunks)
      <3>1. e \in Nat /\ u \in Nat BY <1>1, PromisesTyped
      <3>2. Among(toServer', EmitMessage) = e /\ Among(unwritten', 1..Chunks) = u OBVIOUS
      <3>3. e + u <= e + u + 0 BY <3>1
      <3>4. waiting' = waiting OBVIOUS
      <3> QED BY <1>1, <1>2, <2>3, <3>1, <3>2, <3>3, <3>4, AsManyPromised
    <2> QED BY <2>1, <2>2, <2>3
  <1>6. leased /\ ~leased' => Has(toWorker', "abort") \/ (answer \in Over /\ ~Has(toServer', "emit"))
    <2> SUFFICES ASSUME leased, ~leased', ~Has(toWorker', "abort")
                 PROVE  answer \in Over /\ ~Has(toServer', "emit")
      OBVIOUS
    <2>1. ~IsActive' /\ (response' = "finished" \/ IsHandedOff') BY <1>1, CleanupTells
    <2>2. ~IsHandedOff'
      <3>1. giving = "no" BY DEF LogInv, Given
      <3>2. handing # "done" BY <1>1 DEF Up, Lease
      <3> QED BY <2>1, <3>1, <3>2 DEF IsHandedOff, IsActive
    <2> QED BY <2>1, <2>2
  <1>7. leased' /\ response' = "ended" => answer \in Over /\ ~Has(toServer', "emit")
    BY <1>4 DEF EndInv, Ended
  <1>8. ~leased' \/ handing' = "active" => timer' = "cleared"
    <2>1. CASE Cleanup(toWorker) BY <2>1 DEF Cleanup
    <2>2. CASE UNCHANGED <<timer, leased, toWorker>> BY <2>2 DEF EndInv, Ended
    <2> QED BY <2>1, <2>2
  <1> QED BY <1>1, <1>2, <1>3, <1>4, <1>5, <1>6, <1>7, <1>8, ServerSettles

(* a text of the server is no part of a response                           *)
LEMMA TextIsNoPart ==
    ASSUME EndTypeOK, FailRequest
    PROVE  Among(unwritten', 1..Chunks) = Among(unwritten, 1..Chunks)
  <1>1. ErrorText \in Nat /\ ErrorText \notin 1..Chunks BY SizesAssumption DEF ErrorText
  <1>2. unwritten' = unwritten \/ unwritten' = Append(unwritten, ErrorText) BY DEF FailRequest
  <1>3. Among(Append(unwritten, ErrorText), 1..Chunks) =
           Among(unwritten, 1..Chunks) + IF ErrorText \in 1..Chunks THEN 1 ELSE 0
    BY <1>1, CountAppended DEF EndTypeOK
  <1>4. Among(unwritten, 1..Chunks) \in Nat BY PlacesAreFinite DEF EndTypeOK
  <1>5. Among(Append(unwritten, ErrorText), 1..Chunks) = Among(unwritten, 1..Chunks)
    BY <1>1, <1>3, <1>4
  <1> QED BY <1>2, <1>5

LEMMA FailSettles ==
    ASSUME IInv, LogInv, EndTypeOK, EndInv, kind # "give", process = "up",
           TimerFires \/ (UploadPart /\ FailRequest)
    PROVE  EndInv'
  <1>1. /\ FailRequest /\ Cleanup(toWorker)
        /\ UNCHANGED <<kind, running, answer, stream, aborted, waiting, upload, toServer, handing,
                       giving, process>>
    BY DEF TimerFires, UploadPart, FailRequest, NotHanded, workerVars, answerVars, readerVars
  <1>2. Among(unwritten', 1..Chunks) = Among(unwritten, 1..Chunks) BY <1>1, TextIsNoPart
  <1>3. leased => response # "finished" BY DEF LogInv, LoggedOnce
  <1>4. leased /\ response' = "finished" => FALSE BY <1>1, <1>3 DEF FailRequest
  <1>5. leased' /\ response' = "ended" => response = "ended"
    <2> SUFFICES ASSUME leased', response = "open" PROVE FALSE
      BY <1>1 DEF FailRequest
    <2>1. leased /\ IsActive' BY <1>1, CleanupDoes DEF IInv, TypeOK
    <2>2. handing = "active" BY <1>1, <2>1 DEF IsActive, LogInv, Given
    <2> QED BY <2>1, <2>2 DEF LogInv, OneWay
  <1> QED BY <1>1, <1>2, <1>4, <1>5, CleanupSettles

LEMMA FinishSettles ==
    ASSUME IInv, LogInv, EndTypeOK, EndInv, kind # "give", process = "up",
           Finish \/ ClientLeaves \/ ConnectionSent
    PROVE  EndInv'
  <1>1. /\ Cleanup(toWorker) \/ UNCHANGED <<timer, leased, toWorker>>
        /\ UNCHANGED <<kind, running, answer, stream, aborted, waiting, upload, toServer, handing,
                       giving, process, unwritten>>
    BY DEF Finish, ClientLeaves, ConnectionSent, NotHanded, handVars, clientVars, workerVars, answerVars,
           readerVars
  <1>2. leased => response # "finished" BY DEF LogInv, LoggedOnce
  <1>3. leased /\ response' = "finished" => answer \in Over /\ ~Has(toServer, "emit")
    <2>1. CASE Finish BY <2>1 DEF Finish, EndInv, Ended
    <2>2. CASE ClientLeaves \/ ConnectionSent BY <1>2, <2>2 DEF ClientLeaves, ConnectionSent
    <2> QED BY <2>1, <2>2
  <1>4. leased' /\ response' = "ended" => response = "ended"
    BY DEF Finish, ClientLeaves, ConnectionSent
  <1> QED BY <1>1, <1>3, <1>4, CleanupSettles

(* A step of the server that keeps the lease, takes a message, adds one    *)
(* for the worker, or moves what the client has to take.                   *)
LEMMA QuietSettles ==
    ASSUME TypeOK, EndTypeOK, EndInv, kind # "give", process = "up",
           UNCHANGED <<kind, running, answer, stream, aborted, waiting, upload, leased>>,
           TakesOne, NEW n \in Nat, More(toWorker, toWorker', n),
           NEW e \in Nat, Among(toServer', EmitMessage) = e,
           NEW u \in Nat, Among(unwritten', 1..Chunks) = u,
           Among(toServer, EmitMessage) + Among(unwritten, 1..Chunks) <= e + u + n,
           leased /\ response' = "ended" => answer \in Over /\ ~Has(toServer', "emit"),
           timer = "cleared" => timer' = "cleared",
           handing' = "active" => handing = "active" \/ timer' = "cleared"
    PROVE  EndInv'
  <1>1. Has(toWorker', "abort") \/ Len(waiting') <= Promised'
    <2>1. Has(toWorker, "abort") \/ Len(waiting) <= Promised BY DEF EndInv, Settling
    <2>2. CASE Has(toWorker, "abort") BY <2>2 DEF More
    <2>3. CASE Len(waiting) <= Promised
      <3>1. waiting' = waiting OBVIOUS
      <3> QED BY <2>3, <3>1, AsManyPromised
    <2> QED BY <2>1, <2>2, <2>3
  <1>2. ~leased' \/ handing' = "active" => timer' = "cleared" BY DEF EndInv, Ended
  <1>3. leased' => leased OBVIOUS
  <1>4. leased /\ ~leased' => Has(toWorker', "abort") \/ (answer \in Over /\ ~Has(toServer', "emit"))
    OBVIOUS
  <1>5. leased' /\ response' = "ended" => answer \in Over /\ ~Has(toServer', "emit") OBVIOUS
  <1> QED BY <1>1, <1>2, <1>3, <1>4, <1>5, ServerSettles

LEMMA CountsTyped ==
    ASSUME TypeOK, EndTypeOK
    PROVE  /\ toWorker \in Seq(Message) /\ toServer \in Seq(Message) /\ unwritten \in Seq(Nat)
           /\ Among(toServer, EmitMessage) \in Nat /\ Among(unwritten, 1..Chunks) \in Nat
           /\ More(toWorker, toWorker, 0)
  BY PlacesAreFinite, MoreNone DEF TypeOK, EndTypeOK

(* the body goes on                                                        *)
LEMMA UploadSettles ==
    ASSUME IInv, EndTypeOK, EndInv, kind # "give", process = "up",
           UploadEnd \/ (UploadPart /\ ~FailRequest)
    PROVE  EndInv'
  <1>1. TypeOK BY DEF IInv
  <1>2. /\ UNCHANGED <<kind, running, answer, stream, aborted, waiting, upload, leased, toServer,
                       unwritten, response, handing>>
        /\ timer = "cleared" => timer' = "cleared"
    BY ArmedNotCleared DEF UploadEnd, UploadPart, NotHanded, serverVars, clientVars, handVars, workerVars,
                           answerVars, readerVars
  <1>3. More(toWorker, toWorker', 0)
    <2>1. PICK m \in Message : m.type = "body" /\ toWorker' = Sent(toWorker, m)
      <3>1. CASE UploadEnd BY <3>1, MessagesTyped DEF UploadEnd
      <3>2. CASE UploadPart /\ ~FailRequest
        <4>1. arrived' \in Nat /\ toWorker' = Sent(toWorker, [type |-> "body", part |-> arrived'])
          <5>1. arrived \in Nat /\ arrived' = arrived + 1 BY <1>1, <3>2 DEF UploadPart, TypeOK
          <5>2. toWorker' = Sent(toWorker, [type |-> "body", part |-> arrived'])
            BY <3>2, Zenon DEF UploadPart
          <5> QED BY <5>1, <5>2
        <4>2. [type |-> "body", part |-> arrived'] \in Message BY <4>1, MessagesTyped
        <4> QED BY <4>1, <4>2
      <3> QED BY <3>1, <3>2
    <2>2. More(toWorker, Sent(toWorker, m), IF m.type = "ack" THEN 1 ELSE 0)
      BY <1>1, <2>1, MoreSent, CountsTyped
    <2> QED BY <2>1, <2>2
  <1>4. TakesOne BY <1>2 DEF TakesOne
  <1>5. leased /\ response' = "ended" => answer \in Over /\ ~Has(toServer', "emit")
    BY <1>2 DEF EndInv, Ended
  <1> DEFINE e == Among(toServer, EmitMessage)
             u == Among(unwritten, 1..Chunks)
  <1>6. e \in Nat /\ u \in Nat BY <1>1, CountsTyped
  <1>7. Among(toServer', EmitMessage) = e /\ Among(unwritten', 1..Chunks) = u BY <1>2
  <1>8. e + u <= e + u + 0 BY <1>6
  <1> QED BY <1>1, <1>2, <1>3, <1>4, <1>5, <1>6, <1>7, <1>8, QuietSettles

(* a write is done, and its part acknowledged                              *)
LEMMA WrittenSettles ==
    ASSUME IInv, EndTypeOK, EndInv, kind # "give", process = "up", ClientTakes \/ WriteFails
    PROVE  EndInv'
  <1>1. TypeOK BY DEF IInv
  <1>2. /\ UNCHANGED <<kind, running, answer, stream, aborted, waiting, upload, leased, toServer,
                       response, handing>>
        /\ unwritten # <<>> /\ unwritten' = Tail(unwritten) /\ Written(Head(unwritten))
    BY DEF ClientTakes, WriteFails, serverVars, clientVars, handVars, workerVars, answerVars, readerVars
  <1>3. timer = "cleared" => timer' = "cleared" BY <1>2, ArmedNotCleared DEF Written
  <1> DEFINE n == IF Head(unwritten) \in 1..Chunks THEN 1 ELSE 0
  <1>4. n \in Nat OBVIOUS
  <1>5. More(toWorker, toWorker', n)
    <2>1. CASE Head(unwritten) \in 1..Chunks
      <3>1. toWorker' = Sent(toWorker, Msg("ack")) BY <1>2, <2>1 DEF Written
      <3>2. More(toWorker, Sent(toWorker, Msg("ack")), IF Msg("ack").type = "ack" THEN 1 ELSE 0)
        BY <1>1, MessagesTyped, MoreSent, CountsTyped
      <3> QED BY <2>1, <3>1, <3>2, MessagesTyped
    <2>2. CASE Head(unwritten) \notin 1..Chunks
      <3>1. toWorker' = toWorker BY <1>2, <2>2 DEF Written
      <3> QED BY <1>1, <2>2, <3>1, CountsTyped
    <2> QED BY <2>1, <2>2
  <1>6. TakesOne BY <1>2 DEF TakesOne
  <1>7. leased /\ response' = "ended" => answer \in Over /\ ~Has(toServer', "emit")
    BY <1>2 DEF EndInv, Ended
  <1> DEFINE e == Among(toServer, EmitMessage)
             u == Among(Tail(unwritten), 1..Chunks)
  <1>8. e \in Nat /\ u \in Nat
    <2>1. Tail(unwritten) \in Seq(Nat) BY <1>2 DEF EndTypeOK
    <2> QED BY <1>1, <2>1, CountsTyped, PlacesAreFinite
  <1>9. Among(toServer', EmitMessage) = e /\ Among(unwritten', 1..Chunks) = u BY <1>2
  <1>10. Among(unwritten, 1..Chunks) = u + n BY <1>2, CountTaken DEF EndTypeOK
  <1> HIDE DEF e, u, n
  <1>11. Among(toServer, EmitMessage) + Among(unwritten, 1..Chunks) <= e + u + n
    BY <1>4, <1>8, <1>10 DEF e
  <1> QED BY <1>1, <1>2, <1>3, <1>4, <1>5, <1>6, <1>7, <1>8, <1>9, <1>11, QuietSettles

(* hand-offs                                                               *)
LEMMA HandOffSettles ==
    ASSUME IInv, EndTypeOK, EndInv, kind # "give", process = "up", HeadWritten \/ SendConnection
    PROVE  EndInv'
  <1>1. TypeOK BY DEF IInv
  <1>2. /\ UNCHANGED <<kind, running, answer, stream, aborted, waiting, upload, leased, toServer, toWorker,
                       unwritten, response>>
        /\ timer = "cleared" => timer' = "cleared"
        /\ handing' = "active" => handing = "active" \/ timer' = "cleared"
    BY DEF HeadWritten, SendConnection, clientVars, serverVars, wires, workerVars, answerVars, readerVars
  <1>3. TakesOne BY <1>2 DEF TakesOne
  <1>4. More(toWorker, toWorker', 0) BY <1>1, <1>2, CountsTyped
  <1>5. leased /\ response' = "ended" => answer \in Over /\ ~Has(toServer', "emit")
    BY <1>2 DEF EndInv, Ended
  <1> DEFINE e == Among(toServer, EmitMessage)
             u == Among(unwritten, 1..Chunks)
  <1>6. e \in Nat /\ u \in Nat BY <1>1, CountsTyped
  <1>7. Among(toServer', EmitMessage) = e /\ Among(unwritten', 1..Chunks) = u BY <1>2
  <1>8. e + u <= e + u + 0 BY <1>6
  <1> QED BY <1>1, <1>2, <1>3, <1>4, <1>5, <1>6, <1>7, <1>8, QuietSettles

(* a message that is no part of a response                                 *)
LEMMA ReportSettles ==
    ASSUME IInv, EndTypeOK, EndInv, kind # "give", process = "up", BodyTaken \/ Respond \/ StartHandOff
    PROVE  EndInv'
  <1>1. TypeOK /\ Up BY DEF IInv
  <1>2. /\ UNCHANGED <<kind, running, answer, stream, aborted, waiting, upload, leased>>
        /\ toServer # <<>> /\ toServer' = Tail(toServer) /\ Head(toServer).type # "emit"
    BY DEF BodyTaken, Respond, StartHandOff, Receives, workerVars, answerVars, readerVars
  <1>3. timer = "cleared" => timer' = "cleared"
    BY ArmedNotCleared DEF BodyTaken, Respond, StartHandOff
  <1>4. handing' = "active" => handing = "active" BY DEF BodyTaken, Respond, StartHandOff, handVars
  <1>5. TakesOne BY <1>2 DEF TakesOne
  <1>6. More(toWorker, toWorker', 0)
    <2>1. toWorker' = toWorker \/ toWorker' = Sent(toWorker, Msg("refuse"))
      BY DEF BodyTaken, Respond, StartHandOff
    <2>2. More(toWorker, Sent(toWorker, Msg("refuse")), IF Msg("refuse").type = "ack" THEN 1 ELSE 0)
      BY <1>1, MessagesTyped, MoreSent, CountsTyped
    <2>3. Msg("refuse").type = "refuse" BY DEF Msg
    <2> QED BY <1>1, <2>1, <2>2, <2>3, CountsTyped
  <1>7. leased /\ response' = "ended" => answer \in Over /\ ~Has(toServer', "emit")
    <2>1. Has(toServer', "emit") => Has(toServer, "emit") BY <1>1, <1>5, LessForServer
    <2>2. CASE Respond
      <3>1. Has(toServer, "response")
        <4>1. Head(toServer).type = "response" BY <2>2 DEF Respond, Receives
        <4> QED BY <1>1, <1>2, <4>1, Taken DEF TypeOK
      <3>2. answer = "sent" BY <1>1, <3>1 DEF Up, SentSoFar
      <3> QED BY <2>1, <3>2 DEF EndInv, Ended, Over
    <2>3. CASE BodyTaken \/ StartHandOff
      <3>1. response' \in {response, "started"} BY <2>3 DEF BodyTaken, StartHandOff
      <3> QED BY <2>1, <3>1 DEF EndInv, Ended
    <2> QED BY <2>2, <2>3
  <1>8. PICK e \in Nat : /\ Among(toServer', EmitMessage) = e
                         /\ Among(toServer, EmitMessage) = e + 0
    <2>1. PICK e \in Nat : /\ Among(toServer', EmitMessage) = e
                           /\ Among(toServer, EmitMessage) =
                                 e + IF Head(toServer).type = "emit" THEN 1 ELSE 0
      BY <1>1, <1>2, EmitTaken
    <2> QED BY <1>2, <2>1
  <1>9. Among(unwritten', 1..Chunks) = Among(unwritten, 1..Chunks)
    <2>1. unwritten' = unwritten \/ unwritten' = Append(unwritten, 0)
      BY DEF BodyTaken, Respond, StartHandOff, Whole
    <2>2. Among(Append(unwritten, 0), 1..Chunks) = Among(unwritten, 1..Chunks) + IF 0 \in 1..Chunks THEN 1 ELSE 0
      <3>1. unwritten \in Seq(Nat) /\ 0 \in Nat BY <1>1, CountsTyped
      <3> QED BY <3>1, CountAppended, Zenon
    <2>3. 0 \notin 1..Chunks BY SizesAssumption
    <2>4. Among(Append(unwritten, 0), 1..Chunks) = Among(unwritten, 1..Chunks)
      BY <1>1, <2>2, <2>3, CountsTyped
    <2> QED BY <2>1, <2>4
  <1> DEFINE u == Among(unwritten, 1..Chunks)
  <1>10. u \in Nat BY <1>1, CountsTyped
  <1> HIDE DEF u
  <1>11. Among(toServer, EmitMessage) + u <= e + u + 0 BY <1>8, <1>10
  <1> QED BY <1>1, <1>2, <1>3, <1>4, <1>5, <1>6, <1>7, <1>8, <1>9, <1>10, <1>11, QuietSettles DEF u

(* a part of the response is written, or its end                           *)
LEMMA PartTaken ==
    ASSUME IInv, EndTypeOK, EndInv, kind # "give", process = "up",
           toServer # <<>>, Head(toServer).type = "emit", toServer' = Tail(toServer)
    PROVE  /\ Head(toServer).part \in 0..Chunks
           /\ Head(toServer).part = 0 => answer \in Over /\ ~Has(toServer', "emit")
           /\ \E e \in Nat : Among(toServer', EmitMessage) = e /\ Among(toServer, EmitMessage) = e + 1
  <1>1. TypeOK BY DEF IInv
  <1>2. PartsOf(toServer, answer) BY DEF EndInv, Ended
  <1>3. /\ Head(toServer).part \in 0..Chunks
        /\ Head(toServer).part = 0 => answer \in Over /\ ~Has(Tail(toServer), "emit")
    BY <1>1, <1>2, PartsTaken DEF TypeOK, Over
  <1>4. PICK e \in Nat : /\ Among(toServer', EmitMessage) = e
                         /\ Among(toServer, EmitMessage) =
                               e + IF Head(toServer).type = "emit" THEN 1 ELSE 0
    BY <1>1, EmitTaken
  <1>5. Among(toServer, EmitMessage) = e + 1 BY <1>4
  <1>6. \E k \in Nat : Among(toServer', EmitMessage) = k /\ Among(toServer, EmitMessage) = k + 1
    BY <1>4, <1>5
  <1>7. Has(toServer', "emit") <=> Has(Tail(toServer), "emit") OBVIOUS
  <1> QED BY <1>3, <1>6, <1>7

LEMMA EmitSettles ==
    ASSUME IInv, EndTypeOK, EndInv, kind # "give", process = "up", Emit
    PROVE  EndInv'
  <1>1. TypeOK BY DEF IInv
  <1>2. /\ UNCHANGED <<kind, running, answer, stream, aborted, waiting, upload, leased, handing>>
        /\ toServer # <<>> /\ toServer' = Tail(toServer) /\ Head(toServer).type = "emit"
        /\ timer = "cleared" => timer' = "cleared"
    BY ArmedNotCleared DEF Emit, Receives, handVars, workerVars, answerVars, readerVars
  <1>3. TakesOne BY <1>2 DEF TakesOne
  <1>4. /\ Head(toServer).part \in 0..Chunks
        /\ Head(toServer).part = 0 => answer \in Over /\ ~Has(toServer', "emit")
    BY <1>2, PartTaken
  <1>5. PICK e \in Nat : Among(toServer', EmitMessage) = e /\ Among(toServer, EmitMessage) = e + 1
    BY <1>2, PartTaken
  <1> DEFINE u == Among(unwritten, 1..Chunks)
  <1>6. u \in Nat /\ unwritten \in Seq(Nat) BY <1>1, CountsTyped
  <1>7. CASE Head(toServer).part = 0
    <2>1. toWorker' = Sent(toWorker, Msg("ack")) /\ unwritten' = unwritten BY <1>7 DEF Emit
    <2>2. More(toWorker, toWorker', 1)
      <3>1. More(toWorker, Sent(toWorker, Msg("ack")), IF Msg("ack").type = "ack" THEN 1 ELSE 0)
        BY <1>1, MessagesTyped, MoreSent, CountsTyped
      <3> QED BY <2>1, <3>1, MessagesTyped
    <2>3. leased /\ response' = "ended" => answer \in Over /\ ~Has(toServer', "emit") BY <1>4, <1>7
    <2>4. Among(unwritten', 1..Chunks) = u BY <2>1
    <2> HIDE DEF u
    <2>5. Among(toServer, EmitMessage) + u <= e + u + 1 BY <1>5, <1>6
    <2> QED BY <1>1, <1>2, <1>3, <1>5, <1>6, <2>2, <2>3, <2>4, <2>5, QuietSettles DEF u
  <1>8. CASE Head(toServer).part # 0
    <2>1. toWorker' = toWorker /\ unwritten' = Append(unwritten, Head(toServer).part) BY <1>8 DEF Emit
    <2>2. More(toWorker, toWorker', 0) BY <1>1, <2>1, CountsTyped
    <2>3. response' # "ended" BY <1>8 DEF Emit, Unless
    <2>4. Among(unwritten', 1..Chunks) = u + 1
      <3>1. Head(toServer).part \in Nat /\ Head(toServer).part \in 1..Chunks
        BY <1>4, <1>8, SizesAssumption
      <3>2. \A part \in Nat : Among(Append(unwritten, part), 1..Chunks) =
               u + IF part \in 1..Chunks THEN 1 ELSE 0
        BY <1>6, CountAppended
      <3>3. Among(Append(unwritten, Head(toServer).part), 1..Chunks) = u + 1 BY <3>1, <3>2
      <3> QED BY <2>1, <3>3
    <2> HIDE DEF u
    <2>5. /\ u + 1 \in Nat
          /\ Among(toServer, EmitMessage) + u <= e + (u + 1) + 0
      BY <1>5, <1>6
    <2>6. leased /\ response' = "ended" => answer \in Over /\ ~Has(toServer', "emit") BY <2>3
    <2> QED BY <1>1, <1>2, <1>3, <1>5, <2>2, <2>4, <2>5, <2>6, QuietSettles DEF u
  <1> QED BY <1>7, <1>8

(* the worker has the connection no more                                   *)
LEMMA EmitAfterHandOffSettles ==
    ASSUME IInv, LogInv, EndTypeOK, EndInv, kind # "give", process = "up", EmitAfterHandOff
    PROVE  EndInv'
  <1>1. TypeOK BY DEF IInv
  <1>2. /\ UNCHANGED <<kind, running, answer, stream, aborted, waiting, upload, process, unwritten, giving>>
        /\ toServer # <<>> /\ toServer' = Tail(toServer) /\ Head(toServer).type = "emit"
        /\ Head(toServer).part = 0 /\ handing' = "done"
        /\ Cleanup(Sent(toWorker, Msg("ack")))
    BY DEF EmitAfterHandOff, Receives, workerVars, answerVars, readerVars
  <1>3. TakesOne BY <1>2 DEF TakesOne
  <1>4. answer \in Over /\ ~Has(toServer', "emit") BY <1>2, PartTaken
  <1>5. PICK e \in Nat : Among(toServer', EmitMessage) = e /\ Among(toServer, EmitMessage) = e + 1
    BY <1>2, PartTaken
  <1>6. ~IsActive'
    <2>1. giving = "no" BY DEF LogInv, Given
    <2> QED BY <1>2, <2>1 DEF IsActive
  <1>7. ~leased' /\ timer' = "cleared" BY <1>2, <1>6 DEF Cleanup
  <1>8. More(toWorker, toWorker', 1)
    <2> DEFINE out == Sent(toWorker, Msg("ack"))
    <2>1. More(toWorker, out, 1)
      <3>1. More(toWorker, out, IF Msg("ack").type = "ack" THEN 1 ELSE 0)
        BY <1>1, MessagesTyped, MoreSent, CountsTyped
      <3> QED BY <3>1, MessagesTyped
    <2> HIDE DEF out
    <2>2. out \in Seq(Message) BY <2>1 DEF More
    <2>3. process' = "up" /\ Cleanup(out) BY <1>2 DEF out
    <2>4. More(out, toWorker', 0) BY <2>2, <2>3, CleanupTells
    <2>5. toWorker \in Seq(Message) BY <1>1, CountsTyped
    <2>6. More(toWorker, toWorker', 1 + 0) BY <2>1, <2>4, <2>5, MoreTogether
    <2> QED BY <2>6
  <1>9. Has(toWorker', "abort") \/ Len(waiting') <= Promised'
    <2>1. Has(toWorker, "abort") \/ Len(waiting) <= Promised BY DEF EndInv, Settling
    <2>2. CASE Has(toWorker, "abort") BY <1>8, <2>2 DEF More
    <2>3. CASE Len(waiting) <= Promised
      <3> DEFINE u == Among(unwritten, 1..Chunks)
      <3>1. u \in Nat BY <1>1, CountsTyped
      <3>2. Among(unwritten', 1..Chunks) = u /\ waiting' = waiting BY <1>2
      <3> HIDE DEF u
      <3>3. Among(toServer, EmitMessage) + u <= e + u + 1 BY <1>5, <3>1
      <3> QED BY <1>1, <1>5, <1>8, <2>3, <3>1, <3>2, <3>3, AsManyPromised DEF u
    <2> QED BY <2>1, <2>2, <2>3
  <1>10. leased' => leased BY <1>7
  <1>11. leased' /\ response' = "ended" => answer \in Over /\ ~Has(toServer', "emit") BY <1>7
  <1> QED BY <1>1, <1>2, <1>3, <1>4, <1>7, <1>8, <1>9, <1>10, <1>11, ServerSettles

(* a message that comes too late settles nothing                           *)
LEMMA ServerDropsSettles ==
    ASSUME IInv, EndTypeOK, EndInv, kind # "give", process = "up", ServerDrops
    PROVE  EndInv'
  <1>1. TypeOK BY DEF IInv
  <1>2. /\ UNCHANGED <<kind, running, answer, stream, aborted, waiting, upload, toWorker, unwritten,
                       leased, response, timer, handing>>
        /\ ~leased /\ toServer # <<>> /\ toServer' = Tail(toServer)
    BY DEF ServerDrops, Receives, serverVars, handVars, workerVars, answerVars, readerVars
  <1>3. TakesOne BY <1>2 DEF TakesOne
  <1>4. More(toWorker, toWorker', 0) BY <1>1, <1>2, CountsTyped
  <1>5. Has(toWorker', "abort") \/ Len(waiting') <= Promised'
    <2>1. PICK e \in Nat : /\ Among(toServer', EmitMessage) = e
                           /\ Among(toServer, EmitMessage) =
                                 e + IF Head(toServer).type = "emit" THEN 1 ELSE 0
      BY <1>1, <1>2, EmitTaken
    <2> DEFINE u == Among(unwritten, 1..Chunks)
               a == Among(toWorker, AckOfPart)
    <2>2. u \in Nat /\ a \in Nat BY <1>1, PromisesTyped
    <2>3. Among(unwritten', 1..Chunks) = u /\ Among(toWorker', AckOfPart) = a /\ waiting' = waiting BY <1>2
    <2>4. CASE Has(toWorker, "abort") BY <1>2, <2>4
    <2>5. CASE ~Has(toWorker, "abort") /\ waiting = <<>>
      <3> HIDE DEF u, a
      <3>1. Promised' = e + a + u BY <2>1, <2>3 DEF Promised
      <3>2. Len(waiting') = 0 BY <2>3, <2>5
      <3>3. 0 <= e + a + u BY <2>2
      <3> QED BY <3>1, <3>2, <3>3
    <2>6. CASE ~Has(toWorker, "abort") /\ waiting # <<>>
      <3>1. Len(waiting) <= Promised BY <2>6 DEF EndInv, Settling
      <3>2. ~Has(toServer, "emit")
        BY <1>2, <2>6 DEF EndInv, Settling, Streamed
      <3>3. Head(toServer).type # "emit" BY <1>1, <1>2, <3>2, Taken DEF TypeOK
      <3>4. Among(toServer, EmitMessage) = e BY <2>1, <3>3
      <3> HIDE DEF u, a
      <3>5. Among(toServer, EmitMessage) + u <= e + u + 0 BY <2>1, <2>2, <3>4
      <3> QED BY <1>1, <1>4, <2>1, <2>2, <2>3, <3>1, <3>5, AsManyPromised DEF u
    <2> QED BY <2>4, <2>5, <2>6
  <1>6. leased' => leased BY <1>2
  <1>7. leased' /\ response' = "ended" => answer \in Over /\ ~Has(toServer', "emit") BY <1>2
  <1>8. ~leased' \/ handing' = "active" => timer' = "cleared" BY <1>2 DEF EndInv, Ended
  <1>9. leased /\ ~leased' => Has(toWorker', "abort") \/ (answer \in Over /\ ~Has(toServer', "emit"))
    BY <1>2
  <1> QED BY <1>1, <1>2, <1>3, <1>4, <1>5, <1>6, <1>7, <1>8, <1>9, ServerSettles

-----------------------------------------------------------------------------
(* Steps of the worker                                                     *)

LEMMA WorkerPromised ==
    ASSUME TypeOK, EndTypeOK, unwritten' = unwritten,
           NEW e \in Nat, Among(toServer', EmitMessage) = e,
           NEW a \in Nat, Among(toWorker', AckOfPart) = a,
           NEW w \in Nat, Len(waiting') = w,
           w <= e + a + Among(unwritten, 1..Chunks)
    PROVE  Len(waiting') <= Promised'
  <1>1. Promised' = e + a + Among(unwritten, 1..Chunks) BY DEF Promised
  <1> QED BY <1>1

(* A step that sends no part and settles no promise, or all of them.       *)
LEMMA WorkerSettles ==
    ASSUME TypeOK, EndTypeOK, EndInv, kind # "give", process = "up",
           UNCHANGED <<kind, unwritten, response, timer, leased, handing>>,
           Begun', Streamed', PartsOf(toServer', answer'),
           Has(toServer', "emit") => Has(toServer, "emit"),
           Among(toServer', EmitMessage) = Among(toServer, EmitMessage),
           Among(toWorker', AckOfPart) = Among(toWorker, AckOfPart),
           waiting' = waiting \/ waiting' = <<>>,
           Has(toWorker, "abort") => Has(toWorker', "abort") \/ waiting' = <<>>,
           answer' = "sent" => ~Has(toServer', "emit"),
           answer \in Over => answer' \in Over,
           ~Has(toWorker', "abort") /\ ~leased =>
               /\ running' # "no" /\ answer' # "asking" /\ upload' # "open"
               /\ aborted' \/ ~stream' \/ (answer' \in Over /\ ~Has(toServer', "emit"))
    PROVE  EndInv'
  <1>1. Ended' BY DEF EndInv, Ended
  <1>2. ~Has(toWorker', "abort") => Len(waiting') <= Promised'
    <2> DEFINE e == Among(toServer, EmitMessage)
               a == Among(toWorker, AckOfPart)
               u == Among(unwritten, 1..Chunks)
    <2>1. e \in Nat /\ a \in Nat /\ u \in Nat /\ Len(waiting) \in Nat BY PromisesTyped
    <2>2. Among(toServer', EmitMessage) = e /\ Among(toWorker', AckOfPart) = a OBVIOUS
    <2> HIDE DEF e, a
    <2>3. CASE waiting' = <<>>
      <3>1. Len(waiting') = 0 BY <2>3
      <3>2. 0 <= e + a + u BY <2>1
      <3> QED BY <2>1, <2>2, <3>1, <3>2, WorkerPromised
    <2>4. CASE waiting' # <<>>
      <3>1. waiting' = waiting BY <2>4
      <3> SUFFICES ASSUME ~Has(toWorker', "abort") PROVE Len(waiting') <= Promised' OBVIOUS
      <3>2. ~Has(toWorker, "abort") BY <2>4
      <3>3. Len(waiting) <= Promised BY <3>2 DEF EndInv, Settling
      <3>4. Len(waiting) <= e + a + u BY <3>3 DEF Promised, e, a
      <3>5. Len(waiting') = Len(waiting) BY <3>1
      <3> QED BY <2>1, <2>2, <3>4, <3>5, WorkerPromised
    <2> QED BY <2>3, <2>4
  <1>3. Settling' BY <1>2 DEF Settling
  <1> QED BY <1>1, <1>3 DEF EndInv

(* a message that is no part of a response                                 *)
LEMMA NoPartSent ==
    ASSUME TypeOK, NEW m \in Message, m.type # "emit", toServer' \in {toServer, Append(toServer, m)},
           NEW how, PartsOf(toServer, how)
    PROVE  /\ PartsOf(toServer', how)
           /\ Has(toServer', "emit") => Has(toServer, "emit")
           /\ Among(toServer', EmitMessage) = Among(toServer, EmitMessage)
  <1>1. toServer \in Seq(Message) BY DEF TypeOK
  <1>2. CASE toServer' = toServer BY <1>2
  <1>3. CASE toServer' = Append(toServer, m)
    <2>1. PartsOf(Append(toServer, m), how) BY <1>1, PartsAppended
    <2>2. Has(Append(toServer, m), "emit") <=> Has(toServer, "emit") \/ m.type = "emit" BY <1>1, Appended
    <2>3. m \notin EmitMessage BY DEF EmitMessage
    <2>4. Among(Append(toServer, m), EmitMessage) =
             Among(toServer, EmitMessage) + IF m \in EmitMessage THEN 1 ELSE 0
      BY <1>1, CountAppended
    <2>5. Among(toServer, EmitMessage) \in Nat BY <1>1, PlacesAreFinite
    <2>6. Among(Append(toServer, m), EmitMessage) = Among(toServer, EmitMessage) BY <2>3, <2>4, <2>5
    <2> QED BY <1>3, <2>1, <2>2, <2>6
  <1> QED BY <1>2, <1>3

(* a message of the server is handled                                      *)
LEMMA SessionTakes ==
    ASSUME TypeOK, EndInv, kind # "give", NEW type, Gets(type)
    PROVE  /\ process = "up"
           /\ UNCHANGED <<kind, owner, unwritten, response, timer, leased, handing, process>>
           /\ OnlyFirst(toWorker', "request") /\ ~Has(toWorker', "request")
           /\ Has(toWorker, "request") <=> type = "request"
           /\ running = "no" <=> type = "request"
           /\ Has(toWorker, "abort") <=> type = "abort" \/ Has(toWorker', "abort")
           /\ \E a \in Nat : /\ Among(toWorker', AckOfPart) = a
                             /\ Among(toWorker, AckOfPart) = a + IF type = "ack" THEN 1 ELSE 0
  <1>1. /\ process = "up" /\ toWorker # <<>> /\ Head(toWorker).type = type /\ toWorker' = Tail(toWorker)
        /\ UNCHANGED <<kind, owner, unwritten, response, timer, leased, handing, process>>
    BY DEF Gets, clientVars, serverVars, handVars
  <1>2. toWorker \in Seq(Message) /\ Head(toWorker) \in Message /\ Tail(toWorker) \in Seq(Message)
    BY <1>1, Taken DEF TypeOK
  <1>3. Begun BY <1>1 DEF EndInv
  <1>4. /\ ~Has(Tail(toWorker), "request") /\ OnlyFirst(Tail(toWorker), "request")
        /\ Has(toWorker, "request") => Head(toWorker).type = "request"
    BY <1>1, <1>2, <1>3, EndsTaken DEF Begun
  <1>5. \A t : Has(toWorker, t) <=> Head(toWorker).type = t \/ Has(Tail(toWorker), t)
    BY <1>1, <1>2, Taken
  <1>6. Has(toWorker, "request") <=> type = "request" BY <1>1, <1>4, <1>5
  <1>7. running = "no" <=> type = "request" BY <1>3, <1>6 DEF Begun
  <1>8. Among(Tail(toWorker), AckOfPart) \in Nat BY <1>2, PlacesAreFinite
  <1>9. Head(toWorker) \in AckOfPart <=> type = "ack" BY <1>1, <1>2 DEF AckOfPart, Message
  <1>10. Among(toWorker, AckOfPart) =
            Among(Tail(toWorker), AckOfPart) + IF Head(toWorker) \in AckOfPart THEN 1 ELSE 0
    BY <1>1, <1>2, CountTaken
  <1>11. \E a \in Nat : /\ Among(toWorker', AckOfPart) = a
                        /\ Among(toWorker, AckOfPart) = a + IF type = "ack" THEN 1 ELSE 0
    <2>1. Among(toWorker', AckOfPart) = Among(Tail(toWorker), AckOfPart) BY <1>1
    <2>2. Among(toWorker, AckOfPart) = Among(Tail(toWorker), AckOfPart) + IF type = "ack" THEN 1 ELSE 0
      BY <1>9, <1>10
    <2> QED BY <1>8, <2>1, <2>2
  <1> QED BY <1>1, <1>4, <1>5, <1>6, <1>7, <1>11

(* any other message than an acknowledgement                               *)
LEMMA SessionCounts ==
    ASSUME TypeOK, EndInv, kind # "give", NEW type, Gets(type), type # "ack"
    PROVE  Among(toWorker', AckOfPart) = Among(toWorker, AckOfPart)
  <1>1. PICK a \in Nat : /\ Among(toWorker', AckOfPart) = a
                         /\ Among(toWorker, AckOfPart) = a + IF type = "ack" THEN 1 ELSE 0
    BY SessionTakes
  <1> QED BY <1>1

LEMMA StartRequestSettles ==
    ASSUME IInv, EndTypeOK, EndInv, kind # "give", StartRequest
    PROVE  EndInv'
  <1>1. TypeOK /\ Gets("request") BY DEF IInv, StartRequest
  <1>2. /\ process = "up" /\ UNCHANGED <<kind, unwritten, response, timer, leased, handing>>
        /\ OnlyFirst(toWorker', "request") /\ ~Has(toWorker', "request") /\ running = "no"
        /\ Has(toWorker, "abort") => Has(toWorker', "abort")
        /\ Among(toWorker', AckOfPart) = Among(toWorker, AckOfPart)
    BY <1>1, SessionTakes, SessionCounts
  <1>3. /\ running' = "yes" /\ stream' = TRUE
        /\ UNCHANGED <<answer, aborted, waiting, toServer>>
    BY DEF StartRequest
  <1>4. waiting = <<>> /\ answer = "none" /\ ~aborted
    BY <1>2 DEF EndInv, Begun
  <1>5. Begun' BY <1>2, <1>3 DEF Begun
  <1>6. Streamed'
    <2>1. \A i \in 1..Len(waiting') : FALSE BY <1>3, <1>4
    <2>2. answer' \notin Over /\ ~aborted' /\ waiting' = <<>> BY <1>3, <1>4 DEF Over
    <2> QED BY <1>3, <2>1, <2>2 DEF Streamed
  <1>7. PartsOf(toServer', answer') /\ (answer' = "sent" => ~Has(toServer', "emit"))
    BY <1>2, <1>3 DEF EndInv, Ended
  <1>8. ~Has(toWorker', "abort") /\ ~leased => FALSE
    BY <1>2 DEF EndInv, Settling
  <1>9. Among(toServer', EmitMessage) = Among(toServer, EmitMessage) BY <1>3
  <1> QED BY <1>1, <1>2, <1>3, <1>5, <1>6, <1>7, <1>8, <1>9, WorkerSettles

(* a part of the body, or its end                                          *)
LEMMA BodyPartSettles ==
    ASSUME IInv, EndTypeOK, EndInv, kind # "give", BodyPart
    PROVE  EndInv'
  <1>1. TypeOK /\ Gets("body") BY DEF IInv, BodyPart
  <1>2. /\ process = "up" /\ UNCHANGED <<kind, unwritten, response, timer, leased, handing>>
        /\ OnlyFirst(toWorker', "request") /\ ~Has(toWorker', "request") /\ running # "no"
        /\ Has(toWorker, "abort") => Has(toWorker', "abort")
        /\ Among(toWorker', AckOfPart) = Among(toWorker, AckOfPart)
    BY <1>1, SessionTakes, SessionCounts
  <1>3. /\ UNCHANGED <<answer, running, stream, aborted, waiting>>
        /\ upload' \in {upload, "ended"} /\ (upload # "open" => upload' = upload)
        /\ toServer' \in {toServer, Append(toServer, Msg("bodyAck"))}
    BY DEF BodyPart, answerVars
  <1>4. Begun' BY <1>2, <1>3 DEF Begun
  <1>5. Streamed' BY <1>2, <1>3 DEF EndInv, Streamed
  <1>6. /\ PartsOf(toServer', answer)
        /\ Has(toServer', "emit") => Has(toServer, "emit")
        /\ Among(toServer', EmitMessage) = Among(toServer, EmitMessage)
    <2>1. Msg("bodyAck") \in Message /\ Msg("bodyAck").type # "emit" BY MessagesTyped
    <2>2. PartsOf(toServer, answer) BY <1>2 DEF EndInv, Ended
    <2> QED BY <1>1, <1>3, <2>1, <2>2, NoPartSent
  <1>7. PartsOf(toServer', answer') /\ (answer' = "sent" => ~Has(toServer', "emit"))
    BY <1>2, <1>3, <1>6 DEF EndInv, Ended
  <1>8. ~Has(toWorker', "abort") /\ ~leased =>
            /\ running' # "no" /\ answer' # "asking" /\ upload' # "open"
            /\ aborted' \/ ~stream' \/ (answer' \in Over /\ ~Has(toServer', "emit"))
    BY <1>2, <1>3, <1>6 DEF EndInv, Settling
  <1> QED BY <1>1, <1>2, <1>3, <1>4, <1>5, <1>6, <1>7, <1>8, WorkerSettles

(* the question for the connection is answered                             *)
LEMMA AnsweredSettles ==
    ASSUME IInv, EndTypeOK, EndInv, kind # "give", Refused \/ ReceiveConnection
    PROVE  EndInv'
  <1>1. TypeOK /\ process = "up" /\ Up BY DEF IInv, Refused, Gets, ReceiveConnection
  <1>2. /\ UNCHANGED <<kind, unwritten, response, timer, leased, handing, stream, aborted, waiting, upload,
                       toServer>>
    BY DEF Refused, Gets, ReceiveConnection, clientVars, serverVars, handVars, readerVars
  <1>3. answer' = answer \/ (answer = "asking" /\ answer' \in {"streaming", "piping"})
    <2>1. CASE Refused BY <2>1 DEF Refused
    <2>2. CASE ReceiveConnection BY <2>2 DEF ReceiveConnection, StartHandedRequest
    <2> QED BY <2>1, <2>2
  <1>4. running' = running
    <2>1. CASE Refused BY <2>1 DEF Refused
    <2>2. CASE ReceiveConnection
      <3>1. ipc # <<>> /\ Head(ipc) = ipc[1] /\ 1 \in 1..Len(ipc)
        BY <1>1, <2>2 DEF ReceiveConnection, TypeOK
      <3>2. ~(Head(ipc).with /\ Head(ipc).type = "request") BY <1>1, <3>1 DEF Up, Carried
      <3> QED BY <2>2, <3>2 DEF ReceiveConnection
    <2> QED BY <2>1, <2>2
  <1>5. /\ OnlyFirst(toWorker', "request")
        /\ running = "no" <=> Has(toWorker', "request")
        /\ Has(toWorker, "abort") => Has(toWorker', "abort")
        /\ Among(toWorker', AckOfPart) = Among(toWorker, AckOfPart)
        /\ running = "no" => answer' = answer
    <2>1. CASE Refused
      <3>1. Gets("refuse") BY <2>1 DEF Refused
      <3> QED BY <1>1, <3>1, SessionTakes, SessionCounts
    <2>2. CASE ReceiveConnection
      <3>1. toWorker' = toWorker BY <2>2 DEF ReceiveConnection
      <3> QED BY <1>1, <1>3, <3>1 DEF EndInv, Begun
    <2> QED BY <2>1, <2>2
  <1>6. Begun' BY <1>1, <1>2, <1>4, <1>5 DEF EndInv, Begun
  <1>7. Streamed'
    <2>1. Streamed BY <1>1 DEF EndInv
    <2>2. answer' \in Over <=> answer \in Over BY <1>3 DEF Over
    <2>3. /\ answer' \in {"none", "sent", "over"} <=> answer \in {"none", "sent", "over"}
          /\ answer \in {"last", "over"} => answer' = answer
          /\ answer \in {"none"} \cup Over => answer' = answer
      BY <1>3 DEF Over
    <2> QED BY <1>2, <1>4, <2>1, <2>2, <2>3 DEF Streamed
  <1>8. PartsOf(toServer', answer') /\ (answer' = "sent" => ~Has(toServer', "emit"))
    <2>1. PartsOf(toServer, answer) /\ (answer = "sent" => ~Has(toServer, "emit"))
      BY <1>1 DEF EndInv, Ended
    <2>2. answer \in {"last", "over"} => answer' \in {"last", "over"} BY <1>3
    <2>3. answer' = "sent" => answer = "sent" BY <1>3
    <2>4. PartsOf(toServer, answer') BY <2>1, <2>2, PartsStay
    <2>5. PartsOf(toServer', answer') BY <1>2, <2>4
    <2>6. Has(toServer', "emit") <=> Has(toServer, "emit") BY <1>2
    <2> QED BY <2>1, <2>3, <2>5, <2>6
  <1>9. ~Has(toWorker', "abort") /\ ~leased =>
            /\ running' # "no" /\ answer' # "asking" /\ upload' # "open"
            /\ aborted' \/ ~stream' \/ (answer' \in Over /\ ~Has(toServer', "emit"))
    <2>1. Settling BY <1>1 DEF EndInv
    <2>2. answer \in Over => answer' = answer BY <1>3 DEF Over
    <2>3. answer # "asking" => answer' # "asking" BY <1>3
    <2>4. Has(toServer', "emit") <=> Has(toServer, "emit") BY <1>2
    <2> QED BY <1>2, <1>4, <1>5, <2>1, <2>2, <2>3, <2>4 DEF Settling
  <1>10. /\ Has(toServer', "emit") => Has(toServer, "emit")
         /\ Among(toServer', EmitMessage) = Among(toServer, EmitMessage)
         /\ answer \in Over => answer' \in Over
    BY <1>2, <1>3 DEF Over
  <1> QED BY <1>1, <1>2, <1>5, <1>6, <1>7, <1>8, <1>9, <1>10, WorkerSettles

(* every promise settles                                                   *)
LEMMA AbortSettles ==
    ASSUME IInv, EndTypeOK, EndInv, kind # "give", AbortRequest
    PROVE  EndInv'
  <1>1. TypeOK /\ Gets("abort") BY DEF IInv, AbortRequest
  <1>2. /\ process = "up" /\ UNCHANGED <<kind, unwritten, response, timer, leased, handing>>
        /\ OnlyFirst(toWorker', "request") /\ ~Has(toWorker', "request") /\ running # "no"
        /\ Among(toWorker', AckOfPart) = Among(toWorker, AckOfPart)
    BY <1>1, SessionTakes, SessionCounts
  <1>3. /\ UNCHANGED <<running, toServer>>
        /\ upload' # "open"
        /\ answer' = IF answer = "asking" THEN "streaming" ELSE answer
    BY DEF AbortRequest, DestroyUpload
  <1>4. Streamed BY <1>2 DEF EndInv
  <1>5. waiting' = <<>> /\ (aborted' \/ ~stream')
    <2>1. CASE stream BY <2>1 DEF AbortRequest
    <2>2. CASE ~stream
      <3>1. UNCHANGED <<waiting, stream>> BY <2>2 DEF AbortRequest
      <3> QED BY <1>4, <2>2, <3>1 DEF Streamed
    <2> QED BY <2>1, <2>2
  <1>6. running = "yes" /\ ~stream' => answer' \in Over
    <2>1. CASE stream
      <3>1. ~stream' => Contains(waiting, 0) BY <2>1 DEF AbortRequest
      <3>2. Contains(waiting, 0) => answer \in {"last", "over"}
        BY <1>4 DEF Contains, Streamed
      <3> QED BY <1>3, <3>1, <3>2 DEF Over
    <2>2. CASE ~stream
      <3>1. ~stream' BY <2>2 DEF AbortRequest
      <3>2. running = "yes" => answer \in Over BY <1>4, <2>2 DEF Streamed
      <3> QED BY <1>3, <3>2 DEF Over
    <2> QED BY <2>1, <2>2
  <1>7. running = "returned" => ~stream' /\ answer' \in {"none"} \cup Over
    <2> SUFFICES ASSUME running = "returned" PROVE ~stream' /\ answer' \in {"none"} \cup Over OBVIOUS
    <2>1. ~stream /\ answer \in {"none"} \cup Over BY <1>4 DEF Streamed
    <2>2. ~stream' BY <2>1 DEF AbortRequest
    <2>3. answer' = answer BY <1>3, <2>1 DEF Over
    <2> QED BY <2>1, <2>2, <2>3
  <1>8. Streamed'
    <2>1. \A i \in 1..Len(waiting') : FALSE BY <1>5
    <2> QED BY <1>3, <1>5, <1>6, <1>7, <2>1 DEF Streamed
  <1>9. Begun' BY <1>2, <1>3 DEF Begun
  <1>10. /\ PartsOf(toServer', answer') /\ (answer' = "sent" => ~Has(toServer', "emit"))
         /\ Has(toServer', "emit") => Has(toServer, "emit")
         /\ Among(toServer', EmitMessage) = Among(toServer, EmitMessage)
    <2>1. PartsOf(toServer, answer) /\ (answer = "sent" => ~Has(toServer, "emit"))
      BY <1>2 DEF EndInv, Ended
    <2>2. answer \in {"last", "over"} => answer' \in {"last", "over"} BY <1>3
    <2>3. answer' = "sent" => answer = "sent" BY <1>3
    <2>4. PartsOf(toServer, answer') BY <2>1, <2>2, PartsStay
    <2>5. PartsOf(toServer', answer') BY <1>3, <2>4
    <2>6. Has(toServer', "emit") <=> Has(toServer, "emit") BY <1>3
    <2> QED BY <1>3, <2>1, <2>3, <2>5, <2>6
  <1>11. answer \in Over => answer' \in Over BY <1>3 DEF Over
  <1>12. answer' # "asking" BY <1>3
  <1> QED BY <1>1, <1>2, <1>3, <1>5, <1>8, <1>9, <1>10, <1>11, <1>12, WorkerSettles

(* the oldest promise settles                                              *)
LEMMA AcknowledgedSettles ==
    ASSUME IInv, EndTypeOK, EndInv, kind # "give", Acknowledged
    PROVE  EndInv'
  <1>1. TypeOK /\ Gets("ack") BY DEF IInv, Acknowledged
  <1>2. /\ process = "up" /\ UNCHANGED <<kind, unwritten, response, timer, leased, handing>>
        /\ OnlyFirst(toWorker', "request") /\ ~Has(toWorker', "request") /\ running # "no"
        /\ Has(toWorker, "abort") => Has(toWorker', "abort")
    BY <1>1, SessionTakes
  <1>3. PICK a \in Nat : Among(toWorker', AckOfPart) = a /\ Among(toWorker, AckOfPart) = a + 1
    <2>1. PICK a \in Nat : /\ Among(toWorker', AckOfPart) = a
                           /\ Among(toWorker, AckOfPart) = a + IF "ack" = "ack" THEN 1 ELSE 0
      BY <1>1, SessionTakes
    <2> QED BY <2>1
  <1>4. UNCHANGED <<running, answer, aborted, upload, toServer>>
    BY DEF Acknowledged, readerVars
  <1>5. Begun /\ Streamed /\ Ended /\ Settling BY <1>2 DEF EndInv
  <1>6. Begun' BY <1>2, <1>4 DEF Begun
  <1>7. Ended' BY <1>2, <1>4, <1>5 DEF Ended
  <1> DEFINE e == Among(toServer, EmitMessage)
             u == Among(unwritten, 1..Chunks)
  <1>8. e \in Nat /\ u \in Nat /\ Len(waiting) \in Nat BY <1>1, PromisesTyped
  <1>9. Among(toServer', EmitMessage) = e BY <1>4
  <1>10. CASE stream /\ waiting # <<>>
    <2>1. waiting' = Tail(waiting) /\ stream' = (Head(waiting) # 0) BY <1>10 DEF Acknowledged
    <2>2. /\ Len(waiting) \in Nat \ {0} /\ Len(Tail(waiting)) = Len(waiting) - 1
          /\ Head(waiting) = waiting[1]
          /\ \A i \in 1..(Len(waiting) - 1) : Tail(waiting)[i] = waiting[i + 1]
      BY <1>10, QueueTaken DEF EndTypeOK
    <2>3. Head(waiting) = 0 => Len(waiting) = 1 /\ answer \in {"last", "over"}
      <3>1. 1 \in 1..Len(waiting) BY <2>2
      <3> QED BY <1>5, <2>2, <3>1 DEF Streamed
    <2>4. ~aborted /\ answer \notin {"none", "sent", "over"} /\ running # "returned"
      BY <1>5, <1>10 DEF Streamed
    <2>5. Streamed'
      <3>1. ~stream' => waiting' = <<>> /\ answer \in Over
        <4> SUFFICES ASSUME ~stream' PROVE waiting' = <<>> /\ answer \in Over OBVIOUS
        <4>1. Head(waiting) = 0 BY <2>1
        <4>2. Len(waiting) = 1 /\ answer \in {"last", "over"} BY <2>3, <4>1
        <4>3. Len(Tail(waiting)) = 0 BY <2>2, <4>2
        <4>4. Tail(waiting) \in Seq(Nat) BY <1>10 DEF EndTypeOK
        <4>5. Tail(waiting) = <<>>
          <5>1. \A queue \in Seq(Nat) : Len(queue) = 0 => queue = <<>> OBVIOUS
          <5> QED BY <4>3, <4>4, <5>1, Zenon
        <4> QED BY <2>1, <4>2, <4>5 DEF Over
      <3>2. \A i \in 1..Len(waiting') : waiting'[i] = 0 => i = Len(waiting') /\ answer \in {"last", "over"}
        <4>1. \A i \in 1..Len(Tail(waiting)) : Tail(waiting)[i] = 0 =>
                 i = Len(Tail(waiting)) /\ answer \in {"last", "over"}
          <5> SUFFICES ASSUME NEW i \in 1..Len(Tail(waiting)), Tail(waiting)[i] = 0
                       PROVE  i = Len(Tail(waiting)) /\ answer \in {"last", "over"}
            OBVIOUS
          <5>1. i + 1 \in 1..Len(waiting) /\ waiting[i + 1] = 0 BY <2>2
          <5>2. i + 1 = Len(waiting) /\ answer \in {"last", "over"} BY <1>5, <5>1 DEF Streamed
          <5> DEFINE k == Len(waiting)
          <5>6. k \in Nat BY <2>2
          <5>7. i + 1 = k BY <5>2
          <5>8. i \in Int OBVIOUS
          <5>3. k \in Nat /\ i + 1 = k /\ i \in Int BY <5>6, <5>7, <5>8
          <5>4. Len(Tail(waiting)) = k - 1 BY <2>2
          <5> HIDE DEF k
          <5>5. i = k - 1 BY <5>3
          <5> QED BY <5>2, <5>4, <5>5
        <4> QED BY <2>1, <4>1
      <3>3. ~stream' \/ aborted' \/ answer' \in {"none", "sent", "over"} => waiting' = <<>>
        BY <1>4, <2>4, <3>1
      <3>4. running' = "yes" /\ ~stream' => answer' \in Over BY <1>4, <3>1
      <3>5. running' # "returned" BY <1>4, <2>4
      <3>6. aborted' \/ answer' \in Over => upload' # "open" BY <1>4, <1>5 DEF Streamed
      <3>7. \A i \in 1..Len(waiting') : waiting'[i] = 0 => i = Len(waiting') /\ answer' \in {"last", "over"}
        BY <1>4, <3>2
      <3> QED BY <3>3, <3>4, <3>5, <3>6, <3>7 DEF Streamed
    <2>6. Settling'
      <3> SUFFICES ASSUME ~Has(toWorker', "abort") PROVE Settling' BY DEF Settling
      <3>1. ~Has(toWorker, "abort")
        <4>1. Has(toWorker, "abort") <=> "ack" = "abort" \/ Has(toWorker', "abort")
          BY <1>1, SessionTakes
        <4> QED BY <4>1
      <3>2. Len(waiting) <= e + (a + 1) + u BY <1>3, <1>5, <3>1 DEF Settling, Promised
      <3> DEFINE w == Len(waiting) - 1
      <3>3. w \in Nat /\ Len(waiting') = w BY <2>1, <2>2
      <3> HIDE DEF e, u
      <3>4. w <= e + a + u BY <1>3, <1>8, <3>2
      <3> HIDE DEF w
      <3>5. Len(waiting') <= Promised'
        BY <1>1, <1>2, <1>3, <1>8, <1>9, <3>3, <3>4, WorkerPromised DEF u
      <3>6. ~leased' => /\ running' # "no" /\ answer' # "asking" /\ upload' # "open"
                        /\ aborted' \/ ~stream' \/ (answer' \in Over /\ ~Has(toServer', "emit"))
        BY <1>2, <1>4, <1>5, <1>10, <3>1, Zenon DEF Settling
      <3> QED BY <3>5, <3>6 DEF Settling
    <2> QED BY <1>6, <1>7, <2>5, <2>6 DEF EndInv
  <1>11. CASE ~(stream /\ waiting # <<>>)
    <2>1. UNCHANGED <<waiting, stream>> BY <1>11 DEF Acknowledged
    <2>2. waiting = <<>> BY <1>5, <1>11 DEF Streamed
    <2>3. Streamed' BY <1>4, <1>5, <2>1 DEF Streamed
    <2>4. Settling'
      <3> SUFFICES ASSUME ~Has(toWorker', "abort") PROVE Settling' BY DEF Settling
      <3>1. ~Has(toWorker, "abort")
        <4>1. Has(toWorker, "abort") <=> "ack" = "abort" \/ Has(toWorker', "abort")
          BY <1>1, SessionTakes
        <4> QED BY <4>1
      <3>2. Len(waiting') = 0 BY <2>1, <2>2
      <3> HIDE DEF e, u
      <3>3. 0 <= e + a + u BY <1>3, <1>8
      <3>4. Len(waiting') <= Promised'
        BY <1>1, <1>2, <1>3, <1>8, <1>9, <3>2, <3>3, WorkerPromised DEF u
      <3>5. ~leased' => /\ running' # "no" /\ answer' # "asking" /\ upload' # "open"
                        /\ aborted' \/ ~stream' \/ (answer' \in Over /\ ~Has(toServer', "emit"))
        BY <1>2, <1>4, <1>5, <2>1, <3>1 DEF Settling
      <3> QED BY <3>4, <3>5 DEF Settling
    <2> QED BY <1>6, <1>7, <2>3, <2>4 DEF EndInv
  <1> QED BY <1>10, <1>11

(* what the function of the worker does, as long as it runs                *)
LEMMA WorksFacts ==
    ASSUME IInv, EndInv, kind # "give", Awaits, Works
    PROVE  /\ TypeOK /\ Up /\ process = "up" /\ running = "yes"
           /\ UNCHANGED <<kind, unwritten, response, timer, leased, handing, toWorker>>
           /\ Begun /\ Streamed /\ Ended /\ Settling
           /\ OnlyFirst(toWorker, "request") /\ ~Has(toWorker, "request")
           /\ answer \in {"none", "asking", "piping", "closing"} => ~Has(toServer, "emit")
           /\ toServer \in Seq(Message)
  <1>1. /\ process = "up" /\ running = "yes"
        /\ UNCHANGED <<kind, unwritten, response, timer, leased, handing, toWorker>>
    BY DEF Works, serverVars, handVars
  <1>2. TypeOK /\ Up /\ toServer \in Seq(Message) BY <1>1 DEF IInv, TypeOK
  <1>3. Begun /\ Streamed /\ Ended /\ Settling BY <1>1 DEF EndInv
  <1> QED BY <1>1, <1>2, <1>3 DEF Begun, Up, SentSoFar

LEMMA ReadSettles ==
    ASSUME IInv, EndTypeOK, EndInv, kind # "give", Awaits, ReadBody
    PROVE  EndInv'
  <1>1. Works BY DEF ReadBody
  <1>2. UNCHANGED <<running, answer, stream, aborted, waiting, upload>>
    BY DEF ReadBody, answerVars
  <1>3. /\ PartsOf(toServer', answer)
        /\ Has(toServer', "emit") => Has(toServer, "emit")
        /\ Among(toServer', EmitMessage) = Among(toServer, EmitMessage)
    <2>1. toServer' = toServer \/ toServer' = toServer \o [i \in 1..owed |-> Msg("bodyAck")]
      BY DEF ReadBody
    <2>2. PartsOf(toServer, answer) /\ toServer \in Seq(Message) /\ owed \in Nat
      BY <1>1, WorksFacts DEF Ended, TypeOK
    <2>3. CASE toServer' = toServer BY <2>2, <2>3
    <2>4. CASE toServer' = toServer \o [i \in 1..owed |-> Msg("bodyAck")]
      <3>1. /\ PartsOf(toServer \o [i \in 1..owed |-> Msg("bodyAck")], answer)
            /\ Among(toServer \o [i \in 1..owed |-> Msg("bodyAck")], EmitMessage) = Among(toServer, EmitMessage)
            /\ Has(toServer \o [i \in 1..owed |-> Msg("bodyAck")], "emit") => Has(toServer, "emit")
        BY <2>2, PartsJoined
      <3> QED BY <2>4, <3>1
    <2> QED BY <2>1, <2>3, <2>4
  <1>4. Begun' BY <1>1, <1>2, WorksFacts DEF Begun
  <1>5. Streamed' BY <1>1, <1>2, WorksFacts DEF Streamed
  <1>6. PartsOf(toServer', answer') /\ (answer' = "sent" => ~Has(toServer', "emit"))
    BY <1>1, <1>2, <1>3, WorksFacts DEF Ended
  <1>7. ~Has(toWorker', "abort") /\ ~leased =>
            /\ running' # "no" /\ answer' # "asking" /\ upload' # "open"
            /\ aborted' \/ ~stream' \/ (answer' \in Over /\ ~Has(toServer', "emit"))
    BY <1>1, <1>2, <1>3, WorksFacts DEF Settling
  <1> QED BY <1>1, <1>2, <1>3, <1>4, <1>5, <1>6, <1>7, WorksFacts, WorkerSettles

(* the response in one message, also of a function that throws             *)
LEMMA SendSettles ==
    ASSUME IInv, EndTypeOK, EndInv, kind # "give", Awaits, SendResponse \/ Throw
    PROVE  EndInv'
  <1>1. Works BY DEF SendResponse, Throw
  <1>2. /\ answer = "none" /\ answer' = "sent" /\ ~stream' /\ running' \in {running, "returned"}
        /\ toServer' = Append(toServer, Msg("response"))
        /\ UNCHANGED <<aborted, waiting>> /\ upload' # "open"
    BY DEF SendResponse, Throw, DestroyUpload
  <1>3. running' # "no" /\ waiting' = <<>>
    BY <1>1, <1>2, WorksFacts DEF Streamed
  <1>4. Begun' BY <1>1, <1>3, WorksFacts DEF Begun
  <1>5. Streamed'
    <2>1. \A i \in 1..Len(waiting') : FALSE BY <1>3
    <2> QED BY <1>2, <1>3, <2>1 DEF Streamed, Over
  <1>6. /\ Has(toServer', "emit") => Has(toServer, "emit")
        /\ Among(toServer', EmitMessage) = Among(toServer, EmitMessage)
        /\ ~Has(toServer, "emit")
    <2>1. Msg("response") \in Message /\ Msg("response").type # "emit" BY MessagesTyped
    <2>2. ~Has(toServer, "emit") BY <1>1, <1>2, WorksFacts
    <2>3. PartsOf(toServer, answer) BY <2>2, PartsNone
    <2> QED BY <1>1, <1>2, <2>1, <2>2, <2>3, WorksFacts, NoPartSent
  <1>7. PartsOf(toServer', answer')
    <2>1. ~Has(toServer', "emit") BY <1>6
    <2>2. \A how : PartsOf(toServer', how) BY <2>1 DEF PartsOf, Has
    <2> QED BY <2>2
  <1>8. ~Has(toServer', "emit") BY <1>6
  <1>9. answer \in Over => answer' \in Over BY <1>2 DEF Over
  <1> QED BY <1>1, <1>2, <1>3, <1>4, <1>5, <1>6, <1>7, <1>8, <1>9, WorksFacts, WorkerSettles

(* it asks for the connection, unless the request was aborted              *)
LEMMA AskSettles ==
    ASSUME IInv, EndTypeOK, EndInv, kind # "give", Awaits, AskForConnection
    PROVE  EndInv'
  <1>1. Works BY DEF AskForConnection
  <1>2. /\ answer = "none" /\ answer' \in {"streaming", "asking"}
        /\ aborted => answer' = "streaming"
        /\ toServer' \in {toServer, Append(toServer, Msg("ask"))}
        /\ UNCHANGED <<running, stream, aborted, waiting, upload>>
    BY DEF AskForConnection, readerVars
  <1>3. waiting = <<>> /\ stream
    BY <1>1, <1>2, WorksFacts DEF Streamed, Over
  <1>4. Begun' BY <1>1, <1>2, WorksFacts DEF Begun
  <1>5. Streamed'
    <2>1. \A i \in 1..Len(waiting') : FALSE BY <1>2, <1>3
    <2>2. answer' \notin Over BY <1>2 DEF Over
    <2>3. aborted' => upload' # "open" BY <1>1, <1>2, WorksFacts DEF Streamed
    <2>4. running' = "yes" BY <1>1, <1>2, WorksFacts
    <2> QED BY <1>2, <1>3, <2>1, <2>2, <2>3, <2>4 DEF Streamed
  <1>6. /\ Has(toServer', "emit") => Has(toServer, "emit")
        /\ Among(toServer', EmitMessage) = Among(toServer, EmitMessage)
        /\ ~Has(toServer, "emit")
    <2>1. Msg("ask") \in Message /\ Msg("ask").type # "emit" BY MessagesTyped
    <2>2. ~Has(toServer, "emit") BY <1>1, <1>2, WorksFacts
    <2>3. PartsOf(toServer, answer) BY <2>2, PartsNone
    <2> QED BY <1>1, <1>2, <2>1, <2>2, <2>3, WorksFacts, NoPartSent
  <1>7. PartsOf(toServer', answer')
    <2>1. ~Has(toServer', "emit") BY <1>6
    <2>2. \A how : PartsOf(toServer', how) BY <2>1 DEF PartsOf, Has
    <2> QED BY <2>2
  <1>8. ~Has(toWorker', "abort") /\ ~leased =>
            /\ running' # "no" /\ answer' # "asking" /\ upload' # "open"
            /\ aborted' \/ ~stream' \/ (answer' \in Over /\ ~Has(toServer', "emit"))
    <2> SUFFICES ASSUME ~Has(toWorker', "abort"), ~leased
                 PROVE  /\ running' # "no" /\ answer' # "asking" /\ upload' # "open"
                        /\ aborted'
      OBVIOUS
    <2>1. ~Has(toWorker, "abort") BY <1>1, WorksFacts
    <2>2. upload # "open" /\ (aborted \/ ~stream \/ answer \in Over)
      BY <1>1, <2>1, WorksFacts DEF Settling
    <2>3. aborted BY <1>2, <1>3, <2>2 DEF Over
    <2> QED BY <1>1, <1>2, <2>2, <2>3, WorksFacts
  <1>9. (answer \in Over => answer' \in Over) /\ answer' # "sent" BY <1>2 DEF Over
  <1> QED BY <1>1, <1>2, <1>4, <1>5, <1>6, <1>7, <1>8, <1>9, WorksFacts, WorkerSettles

(* the function returns, or the stream of its response settled             *)
LEMMA ReturnSettles ==
    ASSUME IInv, EndTypeOK, EndInv, kind # "give", Awaits, Return \/ StreamSettled \/ WriteToSocket
    PROVE  EndInv'
  <1>1. Works BY DEF Return, StreamSettled, WriteToSocket
  <1>2. UNCHANGED <<aborted, waiting, upload, toServer>>
    BY DEF Return, StreamSettled, WriteToSocket, readerVars
  <1>3. \/ /\ Return /\ answer' = answer /\ answer \in {"none", "sent", "over"}
           /\ running' = "returned" /\ waiting = <<>> /\ ~stream'
        \/ /\ StreamSettled /\ answer = "last" /\ answer' = "over" /\ waiting = <<>>
           /\ UNCHANGED <<running, stream>>
        \/ WriteToSocket /\ UNCHANGED <<answer, running, stream>>
    <2>1. CASE Return
      <3>1. answer' = answer /\ answer \in {"none", "sent", "over"} /\ running' = "returned"
        BY <2>1 DEF Return
      <3>2. waiting = <<>> BY <1>1, <3>1, WorksFacts DEF Streamed
      <3>3. ~stream' BY <2>1, <3>2, Zenon DEF Return
      <3> QED BY <2>1, <3>1, <3>2, <3>3
    <2>2. CASE StreamSettled BY <2>2 DEF StreamSettled
    <2>3. CASE WriteToSocket BY <2>3 DEF WriteToSocket
    <2> QED BY <2>1, <2>2, <2>3
  <1>4. Begun' BY <1>1, <1>2, <1>3, WorksFacts DEF Begun
  <1>5. Streamed'
    <2>0. Streamed /\ running = "yes" BY <1>1, WorksFacts
    <2>1. CASE Return
      <3>1. \A i \in 1..Len(waiting') : FALSE BY <1>2, <1>3, <2>1 DEF Return, StreamSettled, WriteToSocket
      <3>2. answer' = answer /\ answer \in {"none", "sent", "over"} /\ running' = "returned"
        BY <2>1 DEF Return
      <3>3. waiting = <<>> BY <2>0, <3>2 DEF Streamed
      <3>4. ~stream' BY <2>1, <3>3, Zenon DEF Return
      <3> QED BY <1>2, <2>0, <3>1, <3>2, <3>3, <3>4 DEF Streamed, Over
    <2>2. CASE StreamSettled
      <3>1. answer = "last" /\ answer' = "over" /\ waiting = <<>> /\ UNCHANGED <<running, stream>>
        BY <2>2 DEF StreamSettled
      <3>2. \A i \in 1..Len(waiting') : FALSE BY <1>2, <3>1
      <3> QED BY <1>2, <2>0, <3>1, <3>2 DEF Streamed, Over
    <2>3. CASE WriteToSocket
      <3>1. UNCHANGED <<answer, running, stream>> BY <2>3 DEF WriteToSocket
      <3> QED BY <1>2, <2>0, <3>1 DEF Streamed
    <2> QED BY <2>1, <2>2, <2>3
  <1>6. answer' = answer \/ (answer = "last" /\ answer' = "over") BY <1>3
  <1>7. /\ PartsOf(toServer', answer') /\ (answer' = "sent" => ~Has(toServer', "emit"))
        /\ Has(toServer', "emit") => Has(toServer, "emit")
        /\ Among(toServer', EmitMessage) = Among(toServer, EmitMessage)
        /\ answer \in Over => answer' \in Over
    <2>1. PartsOf(toServer, answer) /\ (answer = "sent" => ~Has(toServer, "emit"))
      BY <1>1, WorksFacts DEF Ended
    <2>2. answer \in {"last", "over"} => answer' \in {"last", "over"} BY <1>6
    <2>3. PartsOf(toServer, answer') BY <2>1, <2>2, PartsStay
    <2>4. PartsOf(toServer', answer') BY <1>2, <2>3
    <2>5. Has(toServer', "emit") <=> Has(toServer, "emit") BY <1>2
    <2> QED BY <1>2, <1>6, <2>1, <2>4, <2>5 DEF Over
  <1>8. ~Has(toWorker', "abort") /\ ~leased =>
            /\ running' # "no" /\ answer' # "asking" /\ upload' # "open"
            /\ aborted' \/ ~stream' \/ (answer' \in Over /\ ~Has(toServer', "emit"))
    <2>1. ~Has(toWorker, "abort") /\ ~leased =>
            /\ running # "no" /\ answer # "asking" /\ upload # "open"
            /\ aborted \/ ~stream \/ (answer \in Over /\ ~Has(toServer, "emit"))
      BY <1>1, WorksFacts DEF Settling
    <2>2. Has(toWorker', "abort") <=> Has(toWorker, "abort") BY <1>1, WorksFacts
    <2>3. answer \in Over => answer' \in Over BY <1>7
    <2>4. answer # "asking" => answer' # "asking" BY <1>6
    <2>5. running' # "no" BY <1>1, <1>3, WorksFacts
    <2>6. ~stream => ~stream' BY <1>3
    <2> QED BY <1>2, <1>7, <2>1, <2>2, <2>3, <2>4, <2>5, <2>6, Zenon
  <1> QED BY <1>1, <1>2, <1>4, <1>5, <1>7, <1>8, WorksFacts, WorkerSettles

(* the connection closes                                                   *)
LEMMA CloseSocketSettles ==
    ASSUME IInv, EndTypeOK, EndInv, kind # "give", CloseSocket
    PROVE  EndInv'
  <1>1. /\ process = "up" /\ owner = "worker" /\ answer' = "closing"
        /\ UNCHANGED <<kind, unwritten, response, timer, leased, handing, toWorker, toServer, running,
                       stream, aborted, waiting, upload>>
    BY DEF CloseSocket, SocketWritten, serverVars, handVars, readerVars
  <1>2. TypeOK /\ Up BY <1>1 DEF IInv
  <1>3. answer = "piping" /\ ~Has(toServer, "emit") BY <1>1, <1>2 DEF Up, Handed, SentSoFar
  <1>4. Begun /\ Streamed /\ Settling BY <1>1 DEF EndInv
  <1>5. running = "yes" /\ stream
    <2>1. running # "no" /\ running # "returned" BY <1>3, <1>4 DEF Begun, Streamed, Over
    <2>2. running = "yes" BY <2>1 DEF EndTypeOK
    <2>3. stream BY <1>3, <1>4, <2>2 DEF Streamed, Over
    <2> QED BY <2>2, <2>3
  <1>6. Begun' BY <1>1, <1>4, <1>5 DEF Begun
  <1>7. Streamed'
    <2>1. \A i \in 1..Len(waiting) : waiting[i] # 0 BY <1>3, <1>4 DEF Streamed
    <2> QED BY <1>1, <1>3, <1>4, <1>5, <2>1 DEF Streamed, Over
  <1>8. PartsOf(toServer', answer')
    <2>1. ~Has(toServer', "emit") BY <1>1, <1>3
    <2>2. \A how : PartsOf(toServer', how) BY <2>1 DEF PartsOf, Has
    <2> QED BY <2>2
  <1>9. ~Has(toWorker', "abort") /\ ~leased =>
            /\ running' # "no" /\ answer' # "asking" /\ upload' # "open"
            /\ aborted' \/ ~stream' \/ (answer' \in Over /\ ~Has(toServer', "emit"))
    BY <1>1, <1>3, <1>4 DEF Settling, Over
  <1>10. answer \in Over => answer' \in Over BY <1>3 DEF Over
  <1> QED BY <1>1, <1>2, <1>6, <1>7, <1>8, <1>9, <1>10, WorkerSettles

(* a part of the response goes, or its end                                 *)
LEMMA PartSettles ==
    ASSUME IInv, EndTypeOK, EndInv, kind # "give", Awaits, Works,
           NEW part \in 0..Chunks, answer \notin Over, ~aborted,
           answer' = IF part = 0 THEN "last" ELSE "streaming",
           UNCHANGED <<running, aborted>>, stream' = TRUE,
           waiting' = Append(waiting, part),
           toServer' = Append(toServer, [type |-> "emit", part |-> part]),
           upload' = upload \/ upload' # "open", part = 0 => upload' # "open"
    PROVE  EndInv'
  <1> DEFINE m == [type |-> "emit", part |-> part]
  <1>1. /\ TypeOK /\ process = "up" /\ running = "yes"
        /\ UNCHANGED <<kind, unwritten, response, timer, leased, handing, toWorker>>
        /\ Begun /\ Streamed /\ Ended /\ Settling
        /\ OnlyFirst(toWorker, "request") /\ ~Has(toWorker, "request")
        /\ toServer \in Seq(Message)
    BY WorksFacts
  <1>2. part \in Nat /\ m \in Message /\ m \in EmitMessage
    BY SizesAssumption DEF Message, EmitMessage
  <1>3. answer \notin {"last", "over"} BY DEF Over
  <1>4. Begun' BY <1>1 DEF Begun
  <1>5. Streamed'
    <2>1. /\ Len(waiting) \in Nat /\ Len(Append(waiting, part)) = Len(waiting) + 1
          /\ Append(waiting, part)[Len(waiting) + 1] = part
          /\ \A i \in 1..Len(waiting) : Append(waiting, part)[i] = waiting[i]
      BY <1>2, QueueAppended DEF EndTypeOK
    <2>2. \A i \in 1..Len(waiting) : waiting[i] # 0 BY <1>1, <1>3 DEF Streamed
    <2>3. \A i \in 1..Len(Append(waiting, part)) : Append(waiting, part)[i] = 0 =>
             i = Len(Append(waiting, part)) /\ part = 0
      <3> SUFFICES ASSUME NEW i \in 1..Len(Append(waiting, part)), Append(waiting, part)[i] = 0
                   PROVE  i = Len(waiting) + 1 /\ part = 0
        BY <2>1
      <3>1. i \notin 1..Len(waiting) BY <2>1, <2>2
      <3>2. i = Len(waiting) + 1 BY <2>1, <3>1
      <3> QED BY <2>1, <3>2
    <2>4. part = 0 => answer' = "last" OBVIOUS
    <2>5. \A i \in 1..Len(waiting') : waiting'[i] = 0 =>
             i = Len(waiting') /\ answer' \in {"last", "over"}
      BY <2>3, <2>4
    <2>6. aborted' \/ answer' \in Over => upload' # "open" BY DEF Over
    <2>7. answer' \notin {"none", "sent", "over"} /\ ~aborted' /\ stream' /\ running' = "yes" BY <1>1
    <2> QED BY <2>5, <2>6, <2>7 DEF Streamed
  <1>6. Ended'
    <2>1. PartsOf(toServer, answer) /\ ~(leased /\ response = "ended") BY <1>1 DEF Ended
    <2>2. PartsOf(Append(toServer, [type |-> "emit", part |-> part]), IF part = 0 THEN "last" ELSE "streaming")
      <3>1. part = 0 => (IF part = 0 THEN "last" ELSE "streaming") \in {"last", "over"} OBVIOUS
      <3> QED BY <1>1, <1>3, <2>1, <3>1, PartAdded
    <2>3. PartsOf(toServer', answer') BY <2>2
    <2>4. answer' # "sent" /\ ~(leased' /\ response' = "ended") BY <1>1, <2>1
    <2>5. ~leased' \/ handing' = "active" => timer' = "cleared" BY <1>1 DEF Ended
    <2> QED BY <2>3, <2>4, <2>5 DEF Ended
  <1>7. Settling'
    <2> SUFFICES ASSUME ~Has(toWorker', "abort") PROVE Settling' BY DEF Settling
    <2>1. ~Has(toWorker, "abort") BY <1>1
    <2>2. leased BY <1>1, <2>1 DEF Settling, Streamed
    <2> DEFINE e == Among(toServer, EmitMessage)
               a == Among(toWorker, AckOfPart)
               u == Among(unwritten, 1..Chunks)
               w == Len(waiting)
    <2>3. e \in Nat /\ a \in Nat /\ u \in Nat /\ w \in Nat BY <1>1, PromisesTyped
    <2>4. Among(toServer', EmitMessage) = e + 1
      <3>1. Among(Append(toServer, m), EmitMessage) = e + IF m \in EmitMessage THEN 1 ELSE 0
        BY <1>1, <1>2, CountAppended
      <3>2. Among(Append(toServer, m), EmitMessage) = e + 1 BY <1>2, <3>1
      <3> QED BY <3>2
    <2>5. Among(toWorker', AckOfPart) = a BY <1>1
    <2>6. Len(waiting') = w + 1
      <3>1. Len(Append(waiting, part)) = w + 1 BY <1>2, QueueAppended DEF EndTypeOK
      <3> QED BY <3>1
    <2>7. w <= e + a + u BY <1>1, <2>1 DEF Settling, Promised
    <2> HIDE DEF e, a, w, u
    <2>8. e + 1 \in Nat /\ w + 1 \in Nat /\ w + 1 <= (e + 1) + a + u BY <2>3, <2>7
    <2>9. Len(waiting') <= Promised'
      <3>1. w + 1 <= (e + 1) + a + Among(unwritten, 1..Chunks) BY <2>8 DEF u
      <3> QED BY <1>1, <2>3, <2>4, <2>5, <2>6, <2>8, <3>1, WorkerPromised
    <2> QED BY <1>1, <2>2, <2>9 DEF Settling
  <1> QED BY <1>4, <1>5, <1>6, <1>7 DEF EndInv

LEMMA StreamSettles ==
    ASSUME IInv, EndTypeOK, EndInv, kind # "give", Awaits, StreamPart \/ StreamEnd
    PROVE  EndInv'
  <1>1. Works BY DEF StreamPart, StreamEnd
  <1>2. answer \in {"none", "streaming", "closing"} BY DEF StreamPart, StreamEnd
  <1>3. CASE aborted
    <2>1. /\ answer' = "over"
          /\ UNCHANGED <<running, aborted, stream, waiting, toServer, upload>>
      BY <1>3 DEF StreamPart, StreamEnd, readerVars
    <2>2. waiting = <<>> /\ upload # "open" BY <1>1, <1>3, WorksFacts DEF Streamed
    <2>3. Begun' BY <1>1, <2>1, WorksFacts DEF Begun
    <2>4. Streamed'
      <3>1. \A i \in 1..Len(waiting') : FALSE BY <2>1, <2>2
      <3>2. running' = "yes" BY <1>1, <2>1, WorksFacts
      <3> QED BY <2>1, <2>2, <3>1, <3>2 DEF Streamed, Over
    <2>5. PartsOf(toServer', answer')
      <3>1. PartsOf(toServer, answer) BY <1>1, WorksFacts DEF Ended
      <3>2. PartsOf(toServer, "over") BY <3>1, PartsStay
      <3> QED BY <2>1, <3>2
    <2>6. ~Has(toWorker', "abort") /\ ~leased =>
              /\ running' # "no" /\ answer' # "asking" /\ upload' # "open"
              /\ aborted' \/ ~stream' \/ (answer' \in Over /\ ~Has(toServer', "emit"))
      BY <1>1, <1>3, <2>1, <2>2, WorksFacts
    <2>7. answer' # "sent" /\ answer' \in Over BY <2>1 DEF Over
    <2> QED BY <1>1, <2>1, <2>3, <2>4, <2>5, <2>6, <2>7, WorksFacts, WorkerSettles
  <1>4. CASE ~aborted
    <2>1. answer \notin Over BY <1>2 DEF Over
    <2>2. CASE StreamPart
      <3> DEFINE part == produced + 1
      <3>1. /\ answer' = "streaming" /\ stream' = TRUE
            /\ waiting' = Append(waiting, produced') /\ produced' = part
            /\ toServer' = Append(toServer, [type |-> "emit", part |-> produced'])
            /\ UNCHANGED <<running, aborted, upload>>
        BY <1>4, <2>2 DEF StreamPart, readerVars
      <3>2. part \in 0..Chunks /\ part # 0
        <4>1. produced \in 0..Chunks /\ Chunks \in Nat /\ produced < Chunks
          BY <2>2, SizesAssumption DEF StreamPart, EndTypeOK
        <4> QED BY <4>1
      <3>3. /\ waiting' = Append(waiting, part)
            /\ toServer' = Append(toServer, [type |-> "emit", part |-> part])
            /\ answer' = IF part = 0 THEN "last" ELSE "streaming"
        BY <3>1, <3>2
      <3> HIDE DEF part
      <3> QED BY <1>1, <1>4, <2>1, <3>1, <3>2, <3>3, PartSettles
    <2>3. CASE StreamEnd
      <3>1. /\ answer' = "last" /\ stream' = TRUE
            /\ waiting' = Append(waiting, 0)
            /\ toServer' = Append(toServer, [type |-> "emit", part |-> 0])
            /\ UNCHANGED <<running, aborted>> /\ upload' # "open"
        BY <1>4, <2>3 DEF StreamEnd, Msg, DestroyUpload
      <3>2. 0 \in 0..Chunks BY SizesAssumption
      <3>3. answer' = IF 0 = 0 THEN "last" ELSE "streaming" BY <3>1
      <3> QED BY <1>1, <1>4, <2>1, <3>1, <3>2, <3>3, PartSettles
    <2> QED BY <2>2, <2>3
  <1> QED BY <1>3, <1>4

-----------------------------------------------------------------------------
(* The end                                                                 *)

LEMMA EndInitially == Init => EndInv
  <1> SUFFICES ASSUME Init, kind # "give" PROVE Begun /\ Streamed /\ Ended /\ Settling BY DEF EndInv
  <1>1. /\ toWorker = <<Msg("request")>> /\ toServer = <<>> /\ waiting = <<>> /\ leased = TRUE
        /\ ~stream /\ ~aborted /\ running = "no" /\ answer = "none" /\ upload = "none"
        /\ handing = "no" /\ response # "ended"
    BY DEF Init
  <1>2. Has(toWorker, "request") /\ OnlyFirst(toWorker, "request")
    BY <1>1 DEF Has, OnlyFirst, Msg
  <1>3. ~Has(toServer, "emit") /\ Len(waiting) = 0 BY <1>1 DEF Has
  <1>4. Begun BY <1>1, <1>2 DEF Begun
  <1>5. Streamed BY <1>1 DEF Streamed, Over
  <1>6. PartsOf(toServer, answer) BY <1>3, PartsNone
  <1>7. Ended BY <1>1, <1>3, <1>6 DEF Ended
  <1>8. Settling
    <2>1. TypeOK /\ EndTypeOK BY Initially, EndTypedInitially DEF IInv
    <2>2. Promised \in Nat BY <2>1, PromisesTyped DEF Promised
    <2>3. Len(waiting) <= Promised BY <1>3, <2>2
    <2> QED BY <1>1, <2>3 DEF Settling
  <1> QED BY <1>4, <1>5, <1>7, <1>8

LEMMA EndKept ==
    ASSUME IInv, IInv', LogInv, EndTypeOK, EndInv, [Next]_all, Awaits
    PROVE  EndInv'
  <1>1. SUFFICES ASSUME kind' # "give", process' = "up" PROVE EndInv' BY DEF EndInv
  <1>2. CASE UNCHANGED all
    <2>1. UNCHANGED <<kind, process, response, timer, leased, handing, toWorker, toServer, unwritten,
                      running, answer, stream, aborted, waiting, upload>>
      BY <1>2 DEF all, vars, clientVars, uploadVars, serverVars, handVars, wires, workerVars,
                  answerVars, readerVars
    <2>2. Promised' = Promised BY <2>1 DEF Promised
    <2> QED BY <2>1, <2>2 DEF EndInv, Begun, Streamed, Ended, Settling
  <1>3. CASE Step
    <2>1. kind # "give" /\ process = "up"
      <3>1. kind' = kind /\ (process' = process \/ process' \in {"gone", "closed"})
        BY <1>3 DEF Step, ServerStep, SessionStep, WorkerStep, UploadPart, UploadEnd, ServerDrops,
           BodyTaken, Respond, Emit, EmitAfterHandOff, StartHandOff, RequestHandOffDone, HeadWritten,
           ConnectionSent, ConnectionNotSent, Finish, Closed, ClientTakes, WriteFails, ClientLeaves,
           TimerFires, SendConnection, Exit, Receives, StartRequest, BodyPart, Acknowledged,
           AbortRequest, Refused, ReceiveConnection, Gets, SendResponse, AskForConnection, StreamPart,
           StreamEnd, StreamSettled, WriteToSocket, Return, Throw, ReadBody, ReadHandedBody,
           CloseSocket, Works, clientVars, workerVars
      <3> QED BY <1>1, <3>1
    <2>2. CASE ServerStep
      <3>1. ~RequestHandOffDone
        <4>1. RequestHandOffDone => toServer # <<>> /\ Head(toServer).type = "done"
          BY DEF RequestHandOffDone, Receives
        <4>2. ~Has(toServer, "done") BY <2>1 DEF LogInv, Given
        <4> QED BY <4>1, <4>2, Taken DEF IInv, TypeOK
      <3>2. ~ConnectionNotSent /\ ~Closed BY <2>1 DEF ConnectionNotSent, Closed
      <3> QED BY <2>1, <2>2, <3>1, <3>2, FailSettles, UploadSettles, ServerDropsSettles, ReportSettles,
              EmitSettles, EmitAfterHandOffSettles, HandOffSettles, FinishSettles
          DEF ServerStep
    <2>3. CASE SessionStep
      BY <2>1, <2>3, StartRequestSettles, BodyPartSettles, AcknowledgedSettles, AbortSettles,
         AnsweredSettles
      DEF SessionStep
    <2>4. CASE WorkerStep
      BY <2>1, <2>4, SendSettles, AskSettles, StreamSettles, ReturnSettles DEF WorkerStep
    <2>5. CASE \/ ClientTakes \/ WriteFails \/ ClientLeaves \/ TimerFires
               \/ SendConnection \/ ReadBody \/ ReadHandedBody \/ CloseSocket \/ Exit
      <3>1. ~ReadHandedBody /\ ~Exit BY <1>1, <2>1 DEF ReadHandedBody, Exit
      <3> QED BY <2>1, <2>5, <3>1, WrittenSettles, FinishSettles, FailSettles, HandOffSettles,
              ReadSettles, CloseSocketSettles
    <2> QED BY <1>3, <2>2, <2>3, <2>4, <2>5 DEF Step
  <1> QED BY <1>2, <1>3 DEF Next

LEMMA EndTypedKept ==
    ASSUME IInv, EndTypeOK, [Next]_all
    PROVE  EndTypeOK'
  <1>1. CASE UNCHANGED all
    <2>1. UNCHANGED <<unwritten, waiting, stream, aborted, timer, running, upload, produced, logged>>
      BY <1>1 DEF all, vars, serverVars, workerVars, answerVars, readerVars
    <2> QED BY <2>1 DEF EndTypeOK
  <1>2. CASE Next
    <2>1. AccessLogs /\ Step /\ TypeOK BY <1>2 DEF Next, IInv
    <2> QED BY <2>1, ServerTyped, WorkerTyped DEF Step, ServerStep
  <1> QED BY <1>1, <1>2

LEMMA NothingLeft ==
    ASSUME IInv, LogInv, EndTypeOK, EndInv
    PROVE  NothingForgotten
  <1>1. /\ logged <= 1
        /\ response = "finished" \/ giving = "done" => logged = 1
        /\ handing \in {"active", "done"} /\ response = "destroyed" => logged = 1
    <2>1. logged <= 1 BY DEF LogInv, LoggedOnce
    <2> QED BY <2>1 DEF LogInv, LoggedOnce, Noted
  <1>2. ASSUME ~leased, process = "up", toWorker = <<>>, toServer = <<>>, unwritten = <<>>
        PROVE  /\ waiting = <<>>
               /\ answer # "asking"
               /\ running = "returned" => ~stream /\ upload # "open"
    <2>1. CASE kind = "give"
      <3>1. answer # "asking" BY <1>2, <2>1 DEF IInv, Up, Ways
      <3> QED BY <2>1, <3>1 DEF LogInv, Given
    <2>2. CASE kind # "give"
      <3>1. Begun /\ Streamed /\ Settling BY <1>2, <2>2 DEF EndInv
      <3>2. ~Has(toWorker, "abort") BY <1>2 DEF Has
      <3>3. answer # "asking" /\ upload # "open" BY <1>2, <3>1, <3>2 DEF Settling
      <3>4. running = "returned" => ~stream BY <3>1 DEF Streamed
      <3>5. waiting = <<>>
        <4>1. \A S : Among(<<>>, S) = 0
          <5>1. \A S : {i \in DOMAIN <<>> : <<>>[i] \in S} = {} OBVIOUS
          <5> QED BY <5>1, FS_EmptySet DEF Among
        <4>2. Promised = 0 + 0 + 0 BY <1>2, <4>1 DEF Promised
        <4>3. Len(waiting) <= 0 /\ Len(waiting) \in Nat BY <3>1, <3>2, <4>2 DEF Settling, EndTypeOK
        <4>4. \A queue \in Seq(Nat) : Len(queue) <= 0 => queue = <<>> OBVIOUS
        <4> QED BY <4>3, <4>4 DEF EndTypeOK
      <3> QED BY <3>3, <3>4, <3>5
    <2> QED BY <2>1, <2>2
  <1> QED BY <1>1, <1>2 DEF NothingForgotten

(* A response is noted in the access log (access-logs.ts:64) when it       *)
(* finished, when it was cut after its hand-off, and when the worker is    *)
(* done with a request that was handed over, and never twice: whatever     *)
(* order the finish, the close and the end of the hand-off come in.        *)
THEOREM NotedOnce == Spec => []LoggedOnce
  <1>1. Init => IInv /\ EndTypeOK /\ LogInv BY Initially, EndTypedInitially, LogInitially
  <1>2. IInv /\ EndTypeOK /\ LogInv /\ [Next]_all => (IInv /\ EndTypeOK /\ LogInv)'
    BY StepKeeps, EndTypedKept, LogKept
  <1>3. LogInv => LoggedOnce BY DEF LogInv
  <1> QED BY <1>1, <1>2, <1>3, PTL DEF Spec

(* When the function of the worker returns after its response is done, a   *)
(* request that is over for the server is over for the worker              *)
(* (serve-request.ts, cleanupConnection; the contexts and the stream of    *)
(* the session): once the messages have come, no part waits for an         *)
(* acknowledgement, nobody waits for a connection and no stream is kept;   *)
(* and its response is in the access log once.                             *)
THEOREM NothingIsForgotten == ASSUME Awaits PROVE Spec => []NothingForgotten
  <1>1. Init => IInv /\ EndTypeOK /\ LogInv /\ EndInv
    BY Initially, EndTypedInitially, LogInitially, EndInitially
  <1>2. IInv /\ EndTypeOK /\ LogInv /\ EndInv /\ [Next]_all => (IInv /\ EndTypeOK /\ LogInv /\ EndInv)'
    <2> SUFFICES ASSUME IInv, EndTypeOK, LogInv, EndInv, [Next]_all
                 PROVE  (IInv /\ EndTypeOK /\ LogInv /\ EndInv)'
      OBVIOUS
    <2>1. IInv' BY StepKeeps
    <2>2. EndTypeOK' BY EndTypedKept
    <2>3. LogInv' BY <2>1, LogKept
    <2>4. EndInv' BY <2>1, EndKept
    <2> QED BY <2>1, <2>2, <2>3, <2>4
  <1>3. IInv /\ EndTypeOK /\ LogInv /\ EndInv => NothingForgotten BY NothingLeft
  <1> QED BY <1>1, <1>2, <1>3, PTL DEF Spec
=============================================================================
