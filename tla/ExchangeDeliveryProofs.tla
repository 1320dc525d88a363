----------------------- MODULE ExchangeDeliveryProofs -----------------------
(***************************************************************************)
(* The bodies of an exchange, for every window, every room behind it and   *)
(* every number of parts: the upload keeps the pace of the worker, and     *)
(* both the upload and the response are delivered.                         *)
(*                                                                         *)
(* UploadPaced is not inductive.  It counts what the server may count      *)
(* twice or lose, so what is under way has to be counted: a part that was  *)
(* read from the client is on its way, in the stream of the worker or was  *)
(* read by it, and the stream owes the acknowledgements of those that it   *)
(* had no room for.  For that no part may come before the request or after *)
(* the end of the body, as the worker would drop it.                       *)
(*                                                                         *)
(* The detailed ways of the bodies implement the abstract one, Delivery.   *)
(* Up (WayInv): a step of the worker may only be a Take of Delivery if the *)
(* part at the head of its stream is the next of the body, and the end of  *)
(* the stream only Complete if no part is missing.  So the parts in the    *)
(* stream follow those that were read, and the parts before the worker     *)
(* follow those in the stream, up to the last one sent; as long as the     *)
(* lease lasts, that is the last one that arrived.                         *)
(* Down (DownInv): the same for what the client has, what is written and   *)
(* what is before the server, as long as it holds the lease and the        *)
(* connection.  A lease that ended leaves a response that finished or the  *)
(* text of the server alone; a connection that is given away has brought   *)
(* the client nothing yet, and what is written to it is what the worker    *)
(* produced.                                                               *)
(***************************************************************************)
EXTENDS ExchangeProofs

PartMessage == [type : {"body"}, part : 1..Parts]
AckMessage == [type : {"bodyAck"}, part : Nat]

PaceTypeOK ==
    /\ TypeOK
    /\ paused \in BOOLEAN /\ bodyDone \in BOOLEAN /\ unacked \in Int
    /\ upload \in {"none", "open", "ended", "destroyed"}
    /\ buffer \in Seq(Nat) /\ taken \in Seq(Nat)

(* an upload is not handed over, and over when its worker was closed       *)
NotHandedOver ==
    kind = "upload" =>
        /\ handing \notin {"head", "active"} /\ giving # "active"
        /\ process = "closed" => ~leased

Uploading == kind = "upload" /\ leased

(* In a queue to the worker the request comes first, when the upload has   *)
(* not begun yet, and the end of the body behind all of its parts.         *)
Tidy(queue, state, done) ==
    /\ state = "none" => queue # <<>> /\ Head(queue).type = "request"
    /\ \A i \in 1..Len(queue) : queue[i].type = "request" => i = 1 /\ state = "none"
    /\ \A i \in 1..Len(queue) : queue[i].type = "body" =>
          /\ queue[i].part \in 0..Parts
          /\ queue[i].part = 0 =>
                done /\ \A j \in (i + 1)..Len(queue) : queue[j].type # "body"
    /\ state = "ended" => done /\ ~Has(queue, "body")
    /\ ~Has(queue, "abort")

InOrder ==
    Uploading => (bodyDone => arrived = Parts) /\ Tidy(toWorker, upload, bodyDone)

(* what is under way                                                       *)
Accounted ==
    Uploading =>
        /\ unacked <= Window
        /\ paused = (unacked = Window)
        /\ upload # "destroyed" =>
              /\ unacked = BodyParts + owed + BodyAcks
              /\ arrived = BodyParts + Len(buffer) + Len(taken)
              /\ Len(buffer) < owed + HighWater

PaceInv == PaceTypeOK /\ NotHandedOver /\ InOrder /\ Accounted

-----------------------------------------------------------------------------
(* Counting the messages of a queue                                        *)

(* several acknowledgements that go together                               *)
LEMMA AmongJoined ==
    ASSUME NEW queue \in Seq(Message), NEW k \in Nat
    PROVE  Among(queue \o [i \in 1..k |-> Msg("bodyAck")], AckMessage)
              = Among(queue, AckMessage) + k
  <1> DEFINE acks == [i \in 1..k |-> Msg("bodyAck")]
  <1>1. acks \in Seq(Message) /\ Len(acks) = k /\ \A i \in 1..k : acks[i] \in AckMessage
    BY DEF Message, Msg, AckMessage
  <1> HIDE DEF acks
  <1>2. Among(queue \o acks, AckMessage) = Among(queue, AckMessage) + k
    BY <1>1, CountJoined
  <1> QED BY <1>2 DEF acks

-----------------------------------------------------------------------------
(* The order of the messages to the worker                                 *)

(* a message that is no request and no abort is added                      *)
LEMMA TidyAppended ==
    ASSUME NEW queue \in Seq(Message), NEW m \in Message, NEW state, NEW done,
           Tidy(queue, state, done),
           m.type \notin {"request", "abort"},
           m.type = "body" =>
               state # "ended" /\ m.part \in 0..Parts /\ (m.part = 0 => done)
               /\ \A i \in 1..Len(queue) : queue[i].type = "body" => queue[i].part # 0
    PROVE  Tidy(Append(queue, m), state, done)
  <1> DEFINE longer == Append(queue, m)
             n == Len(queue)
  <1>1. /\ longer \in Seq(Message) /\ n \in Nat /\ Len(longer) = n + 1
        /\ longer[n + 1] = m /\ \A i \in 1..n : longer[i] = queue[i]
        /\ \A type : Has(longer, type) <=> Has(queue, type) \/ m.type = type
    BY Appended
  <1>2. queue # <<>> => Head(longer) = Head(queue) /\ longer # <<>> OBVIOUS
  <1> HIDE DEF longer, n
  <1>3. state = "none" => longer # <<>> /\ Head(longer).type = "request" BY <1>2 DEF Tidy
  <1>4. \A i \in 1..Len(longer) : longer[i].type = "request" => i = 1 /\ state = "none"
    BY <1>1 DEF Tidy, n
  <1>5. \A i \in 1..Len(longer) : longer[i].type = "body" =>
           /\ longer[i].part \in 0..Parts
           /\ longer[i].part = 0 =>
                 done /\ \A j \in (i + 1)..Len(longer) : longer[j].type # "body"
    <2> SUFFICES ASSUME NEW i \in 1..(n + 1), longer[i].type = "body"
                 PROVE  /\ longer[i].part \in 0..Parts
                        /\ longer[i].part = 0 =>
                              done /\ \A j \in (i + 1)..(n + 1) : longer[j].type # "body"
      BY <1>1
    <2>1. CASE i = n + 1 BY <1>1, <2>1
    <2>2. CASE i \in 1..n
      <3>1. queue[i].type = "body" /\ longer[i].part = queue[i].part BY <1>1, <2>2
      <3>2. queue[i].part \in 0..Parts BY <2>2, <3>1 DEF Tidy, n
      <3>3. queue[i].part = 0 =>
               /\ done /\ m.type # "body"
               /\ \A j \in (i + 1)..n : queue[j].type # "body"
        BY <2>2, <3>1 DEF Tidy, n
      <3> QED BY <1>1, <2>2, <3>1, <3>2, <3>3
    <2> QED BY <1>1, <2>1, <2>2
  <1>6. (state = "ended" => done /\ ~Has(longer, "body")) /\ ~Has(longer, "abort")
    BY <1>1 DEF Tidy
  <1> QED BY <1>3, <1>4, <1>5, <1>6 DEF Tidy, longer

(* The first message is taken: the request, a message that is no part of   *)
(* the body, or a part of it, and then the end only as the last one.       *)
LEMMA TidyTaken ==
    ASSUME NEW queue \in Seq(Message), queue # <<>>, NEW state, NEW later, NEW done,
           Tidy(queue, state, done),
           \/ later = state /\ Head(queue).type # "request"
           \/ state = "open" /\ later = "destroyed" /\ Head(queue).type # "request"
           \/ state = "none" /\ later = "open"
           \/ state = "open" /\ later = "ended" /\ Head(queue).type = "body" /\ Head(queue).part = 0
    PROVE  Tidy(Tail(queue), later, done)
  <1> DEFINE rest == Tail(queue)
             n == Len(rest)
  <1>1. /\ rest \in Seq(Message) /\ n \in Nat /\ Len(queue) = n + 1 /\ Head(queue) = queue[1]
        /\ \A i \in 1..n : rest[i] = queue[i + 1]
        /\ \A type : Has(rest, type) => Has(queue, type)
    <2>1. /\ rest \in Seq(Message) /\ n = Len(queue) - 1 /\ Head(queue) = queue[1]
      BY HeadTailProperties
    <2>2. Len(queue) \in Nat \ {0} OBVIOUS
    <2>3. \A i \in 1..n : rest[i] = queue[i + 1] BY HeadTailProperties
    <2>4. \A type : Has(rest, type) => Has(queue, type) BY Taken
    <2> QED BY <2>1, <2>2, <2>3, <2>4
  <1> HIDE DEF rest, n
  <1>2. \A i \in 1..n : i + 1 \in 1..Len(queue) /\ i + 1 # 1 BY <1>1
  <1>3. state = "none" <=> Head(queue).type = "request" BY <1>1 DEF Tidy
  <1>4. later # "none" BY <1>3
  <1>5. \A i \in 1..n : rest[i].type # "request" BY <1>1, <1>2 DEF Tidy
  <1>6. \A i \in 1..n : rest[i].type = "body" =>
           /\ rest[i].part \in 0..Parts
           /\ rest[i].part = 0 =>
                 done /\ \A j \in (i + 1)..n : rest[j].type # "body"
    <2> SUFFICES ASSUME NEW i \in 1..n, rest[i].type = "body"
                 PROVE  /\ rest[i].part \in 0..Parts
                        /\ rest[i].part = 0 =>
                              done /\ \A j \in (i + 1)..n : rest[j].type # "body"
      OBVIOUS
    <2>1. i + 1 \in 1..Len(queue) /\ queue[i + 1] = rest[i] BY <1>1, <1>2
    <2>2. /\ rest[i].part \in 0..Parts
          /\ rest[i].part = 0 =>
                done /\ \A j \in (i + 2)..Len(queue) : queue[j].type # "body"
      BY <2>1 DEF Tidy
    <2>3. \A j \in (i + 1)..n : j + 1 \in (i + 2)..Len(queue) /\ rest[j] = queue[j + 1] BY <1>1
    <2> QED BY <2>2, <2>3
  <1>7. later = "ended" => done /\ ~Has(rest, "body")
    <2>1. CASE state = "ended" BY <1>1, <2>1 DEF Tidy
    <2>2. CASE Head(queue).type = "body" /\ Head(queue).part = 0
      <3>1. 1 \in 1..Len(queue) BY <1>1
      <3>2. done /\ \A j \in 2..Len(queue) : queue[j].type # "body" BY <1>1, <2>2, <3>1 DEF Tidy
      <3>3. \A i \in 1..n : rest[i].type # "body" BY <1>1, <3>2
      <3> QED BY <3>2, <3>3 DEF Has, n
    <2> QED BY <2>1, <2>2
  <1>8. ~Has(rest, "abort") BY <1>1 DEF Tidy
  <1> QED BY <1>4, <1>5, <1>6, <1>7, <1>8 DEF Tidy, rest, n

-----------------------------------------------------------------------------

(* nothing is under way before the request is sent                         *)
LEMMA PaceInitially == Init => PaceInv
  <1> SUFFICES ASSUME Init PROVE PaceInv OBVIOUS
  <1>1. PaceTypeOK
    <2>1. TypeOK BY Initially DEF IInv
    <2>2. /\ paused = FALSE /\ bodyDone = FALSE /\ unacked = 0 /\ upload = "none"
          /\ buffer = <<>> /\ taken = <<>>
      BY DEF Init
    <2>3. buffer \in Seq(Nat) /\ taken \in Seq(Nat) BY <2>2, EmptySeq
    <2>4. paused \in BOOLEAN /\ bodyDone \in BOOLEAN BY <2>2, Zenon
    <2>5. unacked \in Int BY <2>2
    <2> QED BY <2>1, <2>2, <2>3, <2>4, <2>5 DEF PaceTypeOK
  <1>2. NotHandedOver BY DEF Init, NotHandedOver
  <1>3. ASSUME Uploading PROVE toWorker = <<Msg("request")>> /\ upload = "none" /\ toServer = <<>>
    BY <1>3 DEF Init, Uploading
  <1>4. ASSUME Uploading
        PROVE  /\ Len(toWorker) = 1 /\ toWorker[1].type = "request"
               /\ toWorker # <<>> /\ Head(toWorker).type = "request"
    BY <1>3, <1>4 DEF Msg
  <1>5. InOrder BY <1>3, <1>4 DEF Init, InOrder, Tidy, Has
  <1>6. ASSUME Uploading PROVE BodyParts = 0 /\ BodyAcks = 0
    <2>1. {i \in DOMAIN toWorker : toWorker[i] \in [type : {"body"}, part : 1..Parts]} = {}
      <3>1. DOMAIN toWorker = 1..1 BY <1>3, <1>6
      <3> QED BY <1>4, <1>6, <3>1
    <2>2. {i \in DOMAIN toServer : toServer[i] \in [type : {"bodyAck"}, part : Nat]} = {}
      BY <1>3, <1>6
    <2> QED BY <2>1, <2>2, FS_EmptySet DEF BodyParts, BodyAcks, Among
  <1>7. Accounted
    <2>1. Window \in Nat \ {0} /\ HighWater \in Nat \ {0} BY SizesAssumption
    <2>2. /\ unacked = 0 /\ paused = FALSE /\ owed = 0 /\ arrived = 0
          /\ Len(buffer) = 0 /\ Len(taken) = 0
      BY DEF Init
    <2>3. unacked # Window /\ unacked <= Window BY <2>1, <2>2
    <2>4. paused = (unacked = Window) BY <2>2, <2>3, Zenon
    <2>5. Uploading => unacked = BodyParts + owed + BodyAcks BY <1>6, <2>2
    <2>6. Uploading => arrived = BodyParts + Len(buffer) + Len(taken) BY <1>6, <2>2
    <2>7. Len(buffer) < owed + HighWater BY <2>1, <2>2
    <2> QED BY <2>3, <2>4, <2>5, <2>6, <2>7 DEF Accounted
  <1> QED BY <1>1, <1>2, <1>5, <1>7 DEF PaceInv

-----------------------------------------------------------------------------
(* What a step may do that the pace does not depend on                     *)

(* the acknowledgements under way are as many as before                    *)
LEMMA AcksKept ==
    ASSUME TypeOK,
           \/ toServer' = toServer
           \/ toServer # <<>> /\ Head(toServer).type # "bodyAck" /\ toServer' = Tail(toServer)
           \/ \E m \in Message : m.type # "bodyAck" /\ toServer' = Append(toServer, m)
    PROVE  BodyAcks' = BodyAcks
  <1> DEFINE S == AckMessage
  <1>1. toServer \in Seq(Message) BY DEF TypeOK
  <1>2. \A m : m.type # "bodyAck" => m \notin S BY DEF AckMessage
  <1> HIDE DEF S
  <1>3. /\ BodyAcks = Among(toServer, S) /\ BodyAcks' = Among(toServer', S)
        /\ Among(toServer, S) \in Nat
    BY <1>1, PlacesAreFinite DEF BodyAcks, S, AckMessage
  <1>4. CASE toServer' = toServer BY <1>3, <1>4
  <1>5. CASE toServer # <<>> /\ Head(toServer).type # "bodyAck" /\ toServer' = Tail(toServer)
    <2>1. Head(toServer) \notin S BY <1>2, <1>5
    <2>2. Among(toServer, S) = Among(Tail(toServer), S) + 0
      BY <1>1, <1>5, <2>1, CountTaken
    <2>3. Among(Tail(toServer), S) \in Nat
      BY <1>1, <1>5, Taken, PlacesAreFinite
    <2> QED BY <1>3, <1>5, <2>2, <2>3
  <1>6. ASSUME NEW m \in Message, m.type # "bodyAck", toServer' = Append(toServer, m)
        PROVE  BodyAcks' = BodyAcks
    <2>1. m \notin S BY <1>2, <1>6
    <2>2. Among(toServer', S) = Among(toServer, S) + 0
      BY <1>1, <1>6, <2>1, CountAppended
    <2> QED BY <1>3, <2>2
  <1> QED BY <1>4, <1>5, <1>6

(* Such a step: it takes or adds messages to the worker that are neither   *)
(* the request nor of the body nor an abort, and at most cuts the stream.  *)
LEMMA QuietPace ==
    ASSUME PaceInv, TypeOK', kind' = kind,
           UNCHANGED <<arrived, bodyDone, unacked, buffer, taken, owed>>,
           upload' = upload \/ (upload = "open" /\ upload' = "destroyed"),
           paused' \in BOOLEAN,
           kind = "upload" => /\ handing' \notin {"head", "active"} /\ giving' # "active"
                              /\ process' = "closed" => ~leased',
           (kind = "upload" /\ leased') =>
               /\ leased /\ paused' = paused /\ BodyAcks' = BodyAcks
               /\ \/ toWorker' = toWorker
                  \/ \E m \in Message :
                        m.type \in {"ack", "refuse"} /\ toWorker' = Append(toWorker, m)
                  \/ /\ toWorker # <<>> /\ Head(toWorker).type \in {"ack", "refuse"}
                     /\ toWorker' = Tail(toWorker)
    PROVE  PaceInv'
  <1>1. PaceTypeOK' BY DEF PaceInv, PaceTypeOK
  <1>2. NotHandedOver' BY DEF NotHandedOver
  <1>3. ASSUME Uploading' PROVE InOrder' /\ Accounted'
    <2>1. /\ Uploading /\ Tidy(toWorker, upload, bodyDone) /\ (bodyDone => arrived = Parts)
          /\ toWorker \in Seq(Message) /\ BodyAcks' = BodyAcks /\ paused' = paused
      BY <1>3 DEF PaceInv, PaceTypeOK, TypeOK, Uploading, InOrder
    <2> DEFINE S == [type : {"body"}, part : 1..Parts]
    <2>2. BodyParts = Among(toWorker, S) /\ BodyParts' = Among(toWorker', S) BY DEF BodyParts
    <2>3. \A m : m.type \in {"ack", "refuse"} => m \notin S OBVIOUS
    <2> HIDE DEF S
    <2>4. BodyParts \in Nat BY <2>1, <2>2, PlacesAreFinite
    <2>5. Tidy(toWorker', upload, bodyDone) /\ BodyParts' = BodyParts
      <3>1. CASE toWorker' = toWorker BY <2>1, <2>2, <3>1
      <3>2. ASSUME NEW m \in Message, m.type \in {"ack", "refuse"}, toWorker' = Append(toWorker, m)
            PROVE  Tidy(toWorker', upload, bodyDone) /\ BodyParts' = BodyParts
        <4>1. Tidy(toWorker', upload, bodyDone) BY <2>1, <3>2, TidyAppended
        <4>2. BodyParts' = BodyParts + 0 BY <2>1, <2>2, <2>3, <3>2, CountAppended
        <4> QED BY <2>4, <4>1, <4>2
      <3>3. CASE /\ toWorker # <<>> /\ Head(toWorker).type \in {"ack", "refuse"}
                 /\ toWorker' = Tail(toWorker)
        <4>1. Tidy(toWorker', upload, bodyDone) BY <2>1, <3>3, TidyTaken
        <4>2. toWorker' \in Seq(Message) BY <2>1, <3>3, Taken
        <4>3. Among(Tail(toWorker), S) \in Nat BY <3>3, <4>2, PlacesAreFinite
        <4>4. Head(toWorker) \notin S BY <2>3, <3>3
        <4>5. Among(toWorker, S) = Among(Tail(toWorker), S) + 0 BY <2>1, <3>3, <4>4, CountTaken
        <4>6. Among(toWorker, S) = Among(Tail(toWorker), S) BY <4>3, <4>5
        <4> QED BY <2>2, <3>3, <4>1, <4>6
      <3> QED BY <1>3, <3>1, <3>2, <3>3 DEF Uploading
    <2>6. Tidy(toWorker', upload', bodyDone) BY <2>5 DEF Tidy
    <2>7. InOrder' BY <2>1, <2>6 DEF InOrder
    <2>8. Accounted' BY <2>1, <2>5 DEF PaceInv, Accounted
    <2> QED BY <2>7, <2>8
  <1>4. ~Uploading' => InOrder' /\ Accounted' BY DEF InOrder, Accounted
  <1> QED BY <1>1, <1>2, <1>3, <1>4 DEF PaceInv

-----------------------------------------------------------------------------
(* Steps that the pace does not depend on                                  *)

(* Cleanup reads the body on, and gives back a worker that has no          *)
(* connection.                                                             *)
LEMMA CleanupPace ==
    ASSUME PaceTypeOK, NEW out, Cleanup(out)
    PROVE  paused' \in BOOLEAN /\ (~IsActive' => ~leased')
  BY DEF Cleanup, PaceTypeOK

(* The steps of the server that give the worker back, or that an upload    *)
(* never meets.                                                            *)
LEMMA GivenBackPace ==
    ASSUME PaceInv, TypeOK',
           \/ EmitAfterHandOff \/ RequestHandOffDone \/ HeadWritten
           \/ ConnectionSent \/ ConnectionNotSent \/ Finish \/ Closed \/ TimerFires
    PROVE  PaceInv'
  <1>1. /\ UNCHANGED <<kind, arrived, bodyDone, unacked, buffer, taken, owed, upload>>
        /\ handing' \in {handing, "no", "done"} \/ kind # "upload"
        /\ giving' \in {giving, "no", "done"}
    <2>1. CASE EmitAfterHandOff \/ RequestHandOffDone
      BY <2>1 DEF EmitAfterHandOff, RequestHandOffDone, Receives, workerVars, readerVars
    <2>2. CASE HeadWritten
      BY <2>2 DEF HeadWritten, clientVars, uploadVars, workerVars, readerVars, PaceInv,
                  NotHandedOver
    <2>3. CASE ConnectionSent \/ ConnectionNotSent \/ Finish
      BY <2>3 DEF ConnectionSent, ConnectionNotSent, Finish, clientVars, NotHanded, workerVars,
                  readerVars
    <2>4. CASE Closed \/ TimerFires
      BY <2>4 DEF Closed, TimerFires, NotHanded, workerVars, readerVars
    <2> QED BY <2>1, <2>2, <2>3, <2>4
  <1>2. \/ \E out : Cleanup(out)
        \/ UNCHANGED <<leased, paused>> /\ (kind = "upload" => ~leased)
    <2>1. CASE EmitAfterHandOff \/ RequestHandOffDone
      BY <2>1 DEF EmitAfterHandOff, RequestHandOffDone
    <2>2. CASE HeadWritten
      BY <2>2 DEF HeadWritten, uploadVars, PaceInv, NotHandedOver
    <2>3. CASE ConnectionSent \/ ConnectionNotSent \/ Finish
      BY <2>3 DEF ConnectionSent, ConnectionNotSent, Finish, FailRequest
    <2>4. CASE Closed \/ TimerFires
      BY <2>4 DEF Closed, TimerFires, FailRequest
    <2> QED BY <2>1, <2>2, <2>3, <2>4
  <1>3. paused' \in BOOLEAN
    BY <1>2, CleanupPace DEF PaceInv, PaceTypeOK
  <1>4. kind = "upload" =>
           handing' \notin {"head", "active"} /\ giving' # "active" /\ ~leased'
    BY <1>1, <1>2, CleanupPace DEF PaceInv, NotHandedOver, IsActive
  <1> QED BY <1>1, <1>3, <1>4, QuietPace

(* the client takes of its response, or leaves                             *)
LEMMA ClientPace ==
    ASSUME PaceInv, TypeOK', ClientTakes \/ WriteFails \/ ClientLeaves \/ SendConnection
    PROVE  PaceInv'
  <1>1. /\ UNCHANGED <<kind, arrived, bodyDone, unacked, buffer, taken, owed, upload, handing,
                       giving, process, toServer>>
    BY DEF ClientTakes, WriteFails, ClientLeaves, SendConnection, clientVars, uploadVars, handVars,
           NotHanded, workerVars, readerVars
  <1>2. \/ \E out : Cleanup(out)
        \/ UNCHANGED <<leased, paused>> /\ toWorker' \in {toWorker, Sent(toWorker, Msg("ack"))}
    BY DEF ClientTakes, WriteFails, ClientLeaves, SendConnection, uploadVars, serverVars, Written
  <1>3. Msg("ack") \in Message /\ Msg("ack").type = "ack" BY MessagesTyped
  <1>4. /\ paused' \in BOOLEAN
        /\ kind = "upload" /\ leased' =>
              /\ leased /\ paused' = paused
              /\ toWorker' = toWorker \/ toWorker' = Append(toWorker, Msg("ack"))
    <2>1. CASE UNCHANGED <<leased, paused>> /\ toWorker' \in {toWorker, Sent(toWorker, Msg("ack"))}
      BY <2>1 DEF Sent, PaceInv, PaceTypeOK
    <2>2. CASE \E out : Cleanup(out)
      BY <1>1, <2>2, CleanupPace DEF PaceInv, NotHandedOver, IsActive
    <2> QED BY <1>2, <2>1, <2>2
  <1>5. BodyAcks' = BodyAcks BY <1>1 DEF BodyAcks
  <1>6. kind = "upload" => /\ handing' \notin {"head", "active"} /\ giving' # "active"
                           /\ process' = "closed" => ~leased'
    BY <1>1, <1>4 DEF PaceInv, NotHandedOver, TypeOK
  <1> QED BY <1>1, <1>3, <1>4, <1>5, <1>6, QuietPace

(* the server takes a message that is no acknowledgement of the body       *)
LEMMA ReportPace ==
    ASSUME PaceInv, TypeOK', ServerDrops \/ Respond \/ Emit \/ StartHandOff
    PROVE  PaceInv'
  <1>1. /\ UNCHANGED <<kind, arrived, bodyDone, unacked, buffer, taken, owed, upload, giving,
                       process, leased, paused>>
        /\ handing' = handing \/ (kind = "bare" /\ handing' = "head")
    BY DEF ServerDrops, Respond, Emit, StartHandOff, Receives, serverVars, handVars, workerVars,
           readerVars
  <1>2. leased => /\ toServer # <<>> /\ Head(toServer).type # "bodyAck"
                  /\ toServer' = Tail(toServer)
                  /\ toWorker' \in {toWorker, Sent(toWorker, Msg("ack")),
                                    Sent(toWorker, Msg("refuse"))}
    BY DEF ServerDrops, Respond, Emit, StartHandOff, Receives
  <1>3. /\ Msg("ack") \in Message /\ Msg("ack").type = "ack"
        /\ Msg("refuse") \in Message /\ Msg("refuse").type = "refuse"
    BY MessagesTyped
  <1>4. leased => BodyAcks' = BodyAcks BY <1>2, AcksKept DEF PaceInv, PaceTypeOK
  <1>5. leased => \/ toWorker' = toWorker \/ toWorker' = Append(toWorker, Msg("ack"))
                  \/ toWorker' = Append(toWorker, Msg("refuse"))
    BY <1>2 DEF Sent
  <1>6. kind = "upload" => /\ handing' \notin {"head", "active"} /\ giving' # "active"
                           /\ process' = "closed" => ~leased'
    BY <1>1 DEF PaceInv, NotHandedOver
  <1>7. paused' \in BOOLEAN BY <1>1 DEF PaceInv, PaceTypeOK
  <1> QED BY <1>1, <1>3, <1>4, <1>5, <1>6, <1>7, QuietPace

(* the worker takes a message that is not of the body; an upload that is   *)
(* aborted has been given up before                                        *)
LEMMA SessionPace ==
    ASSUME PaceInv, TypeOK', Acknowledged \/ AbortRequest \/ Refused
    PROVE  PaceInv'
  <1>1. /\ UNCHANGED <<kind, arrived, bodyDone, unacked, buffer, taken, owed, handing, giving,
                       process, leased, paused, toServer>>
        /\ upload' = upload \/ (upload = "open" /\ upload' = "destroyed")
        /\ toWorker # <<>> /\ toWorker' = Tail(toWorker)
        /\ Head(toWorker).type \in {"ack", "abort", "refuse"}
    BY DEF Acknowledged, AbortRequest, Refused, DestroyUpload, Gets, clientVars, uploadVars,
           serverVars, handVars, readerVars
  <1>2. kind = "upload" /\ leased => Head(toWorker).type # "abort"
    <2>1. Has(toWorker, Head(toWorker).type) BY <1>1, Got DEF PaceInv, PaceTypeOK
    <2> QED BY <2>1 DEF PaceInv, InOrder, Uploading, Tidy
  <1>3. BodyAcks' = BodyAcks BY <1>1 DEF BodyAcks
  <1>4. kind = "upload" => /\ handing' \notin {"head", "active"} /\ giving' # "active"
                           /\ process' = "closed" => ~leased'
    BY <1>1 DEF PaceInv, NotHandedOver
  <1>5. paused' \in BOOLEAN BY <1>1 DEF PaceInv, PaceTypeOK
  <1> QED BY <1>1, <1>2, <1>3, <1>4, <1>5, QuietPace

(* a connection that arrives is not that of an upload, and one that the    *)
(* worker writes to or closes neither                                      *)
LEMMA ConnectionPace ==
    ASSUME PaceInv, TypeOK', ReceiveConnection \/ WriteToSocket \/ CloseSocket \/ Exit
    PROVE  PaceInv'
  <1>1. /\ UNCHANGED <<kind, arrived, bodyDone, unacked, buffer, taken, owed, upload, handing,
                       giving, leased, paused, toWorker>>
        /\ process' \in {process, "gone"}
        /\ \/ toServer' = toServer
           \/ toServer' = Append(toServer, Msg("done"))
    BY DEF ReceiveConnection, WriteToSocket, CloseSocket, SocketWritten, Exit, Works, uploadVars,
           serverVars, handVars, readerVars
  <1>2. Msg("done") \in Message /\ Msg("done").type # "bodyAck" BY DEF Msg, Message
  <1>3. BodyAcks' = BodyAcks BY <1>1, <1>2, AcksKept DEF PaceInv, PaceTypeOK
  <1>4. kind = "upload" => /\ handing' \notin {"head", "active"} /\ giving' # "active"
                           /\ process' = "closed" => ~leased'
    BY <1>1 DEF PaceInv, NotHandedOver
  <1>5. paused' \in BOOLEAN BY <1>1 DEF PaceInv, PaceTypeOK
  <1> QED BY <1>1, <1>3, <1>4, <1>5, QuietPace

(* what the function of the worker does about its answer                   *)
LEMMA AnswerPace ==
    ASSUME PaceInv, TypeOK',
           \/ SendResponse \/ AskForConnection \/ StreamPart \/ StreamEnd \/ StreamSettled
           \/ Return \/ Throw
    PROVE  PaceInv'
  <1>1. /\ UNCHANGED <<kind, arrived, bodyDone, unacked, buffer, taken, owed, handing, giving,
                       leased, paused, toWorker, process>>
        /\ upload' = upload \/ (upload = "open" /\ upload' = "destroyed")
    BY DEF SendResponse, AskForConnection, StreamPart, StreamEnd, StreamSettled, Return, Throw,
           DestroyUpload, Works, uploadVars, serverVars, handVars, readerVars
  <1>2. \/ toServer' = toServer
        \/ \E m \in Message : m.type # "bodyAck" /\ toServer' = Append(toServer, m)
    <2>1. \A type \in {"response", "ask", "emit"} :
             Msg(type) \in Message /\ Msg(type).type # "bodyAck"
      BY DEF Msg, Message
    <2>2. CASE SendResponse \/ AskForConnection \/ Throw
      BY <2>1, <2>2 DEF SendResponse, AskForConnection, Throw
    <2>3. CASE StreamPart
      <3> DEFINE part == [type |-> "emit", part |-> produced']
      <3>1. part \in Message /\ part.type # "bodyAck" BY DEF Message, TypeOK
      <3>2. toServer' = toServer \/ toServer' = Append(toServer, part) BY <2>3 DEF StreamPart
      <3> HIDE DEF part
      <3> QED BY <3>1, <3>2
    <2>4. CASE StreamEnd BY <2>1, <2>4 DEF StreamEnd
    <2>5. CASE StreamSettled \/ Return BY <2>5 DEF StreamSettled, Return
    <2> QED BY <2>2, <2>3, <2>4, <2>5
  <1>3. BodyAcks' = BodyAcks BY <1>2, AcksKept DEF PaceInv, PaceTypeOK
  <1>4. kind = "upload" => /\ handing' \notin {"head", "active"} /\ giving' # "active"
                           /\ process' = "closed" => ~leased'
    BY <1>1 DEF PaceInv, NotHandedOver
  <1>5. paused' \in BOOLEAN BY <1>1 DEF PaceInv, PaceTypeOK
  <1> QED BY <1>1, <1>3, <1>4, <1>5, QuietPace

(* a body on the connection itself is not an upload                        *)
LEMMA ReadHandedBodyPace == ASSUME PaceInv, TypeOK', ReadHandedBody PROVE PaceInv'
  <1>1. /\ kind' = kind /\ kind = "give"
        /\ UNCHANGED <<paused, bodyDone, unacked, upload, buffer>>
        /\ taken' = Append(taken, Len(taken) + 1)
    BY DEF ReadHandedBody, Works, uploadVars
  <1>2. taken' \in Seq(Nat) BY <1>1 DEF PaceInv, PaceTypeOK
  <1>3. PaceTypeOK' BY <1>1, <1>2 DEF PaceInv, PaceTypeOK
  <1> QED BY <1>1, <1>3 DEF PaceInv, NotHandedOver, InOrder, Accounted, Uploading

-----------------------------------------------------------------------------
(* Steps of the body                                                       *)

(* what is counted                                                         *)
LEMMA Counts ==
    ASSUME PaceTypeOK
    PROVE  /\ arrived \in Nat /\ owed \in Nat /\ unacked \in Int
           /\ Len(buffer) \in Nat /\ Len(taken) \in Nat
           /\ BodyParts \in Nat /\ BodyAcks \in Nat
           /\ Parts \in Nat /\ Window \in Nat \ {0} /\ HighWater \in Nat \ {0}
           /\ toWorker \in Seq(Message) /\ toServer \in Seq(Message)
  <1>1. arrived \in Nat /\ owed \in Nat /\ unacked \in Int BY DEF PaceTypeOK, TypeOK
  <1>2. Len(buffer) \in Nat /\ Len(taken) \in Nat BY DEF PaceTypeOK
  <1>3. toWorker \in Seq(Message) /\ toServer \in Seq(Message) BY DEF PaceTypeOK, TypeOK
  <1>4. BodyParts \in Nat /\ BodyAcks \in Nat BY <1>3, PlacesAreFinite DEF BodyParts, BodyAcks
  <1>5. Parts \in Nat /\ Window \in Nat \ {0} /\ HighWater \in Nat \ {0} BY SizesAssumption
  <1> QED BY <1>1, <1>2, <1>3, <1>4, <1>5

(* a message that is no part of the body is taken                          *)
LEMMA PartsKept ==
    ASSUME PaceTypeOK, toWorker # <<>>, toWorker' = Tail(toWorker),
           Head(toWorker) \notin PartMessage
    PROVE  BodyParts' = BodyParts
  <1>1. toWorker \in Seq(Message) BY DEF PaceTypeOK, TypeOK
  <1>2. Among(toWorker, PartMessage) = Among(Tail(toWorker), PartMessage) + 0
    BY <1>1, CountTaken
  <1>3. Tail(toWorker) \in Seq(Message) BY <1>1, Taken
  <1>4. Among(Tail(toWorker), PartMessage) \in Nat BY <1>3, PlacesAreFinite
  <1> QED BY <1>2, <1>4 DEF BodyParts, PartMessage

(* a part is read from the client, or refused                              *)
LEMMA UploadPartPace == ASSUME PaceInv, TypeOK', UploadPart PROVE PaceInv'
  <1>1. /\ kind = "upload" /\ leased /\ ~paused /\ arrived < Parts
        /\ arrived' = arrived + 1
        /\ UNCHANGED <<kind, bodyDone, handing, giving, process, toServer, upload, buffer, owed,
                       taken>>
    BY DEF UploadPart, NotHanded, workerVars, readerVars
  <1>2. process # "closed" /\ ~IsActive'
    BY <1>1 DEF PaceInv, NotHandedOver, IsActive
  <1>3. CASE Cleanup(toWorker) /\ unacked' = unacked
    <2>1. paused' \in BOOLEAN /\ ~leased' BY <1>2, <1>3, CleanupPace DEF PaceInv
    <2>2. PaceTypeOK' BY <1>1, <1>3, <2>1 DEF PaceInv, PaceTypeOK
    <2> QED BY <1>1, <2>1, <2>2 DEF PaceInv, NotHandedOver, InOrder, Accounted, Uploading
  <1>4. CASE /\ toWorker' = Sent(toWorker, [type |-> "body", part |-> arrived'])
             /\ unacked' = unacked + 1 /\ paused' = (unacked' >= Window) /\ leased' = leased
    <2> DEFINE part == [type |-> "body", part |-> arrived']
               S == [type : {"body"}, part : 1..Parts]
    <2>1. /\ arrived \in Nat /\ Parts \in Nat /\ Window \in Nat \ {0} /\ unacked \in Int
          /\ toWorker \in Seq(Message)
      BY Counts DEF PaceInv
    <2>2. part \in Message /\ part.type = "body" /\ part.part \in 1..Parts /\ part \in S
      BY <1>1, <2>1 DEF Message
    <2>3. toWorker' = Append(toWorker, part) BY <1>2, <1>4 DEF Sent
    <2> HIDE DEF part, S
    <2>4. /\ Tidy(toWorker, upload, bodyDone) /\ ~bodyDone /\ upload # "ended"
          /\ unacked <= Window /\ paused = (unacked = Window)
      <3>1. Tidy(toWorker, upload, bodyDone) /\ (bodyDone => arrived = Parts)
        BY <1>1 DEF PaceInv, InOrder, Uploading
      <3>2. ~bodyDone BY <1>1, <2>1, <3>1
      <3>3. upload # "ended" BY <3>1, <3>2 DEF Tidy
      <3>4. unacked <= Window /\ paused = (unacked = Window)
        BY <1>1 DEF PaceInv, Accounted, Uploading
      <3> QED BY <3>1, <3>2, <3>3, <3>4
    <2>5. \A i \in 1..Len(toWorker) : toWorker[i].type = "body" => toWorker[i].part # 0
      BY <2>4 DEF Tidy
    <2>6. Tidy(toWorker', upload, bodyDone)
      BY <2>1, <2>2, <2>3, <2>4, <2>5, TidyAppended
    <2>7. BodyParts' = BodyParts + 1 /\ BodyParts \in Nat
      <3>1. BodyParts = Among(toWorker, S) /\ BodyParts' = Among(toWorker', S)
        BY DEF BodyParts, S
      <3>2. Among(toWorker', S) = Among(toWorker, S) + 1
        BY <2>1, <2>2, <2>3, CountAppended
      <3> QED BY <3>1, <3>2, Counts DEF PaceInv
    <2>8. unacked # Window BY <1>1, <2>4
    <2>9. unacked' <= Window /\ (unacked' >= Window <=> unacked' = Window)
      BY <1>4, <2>1, <2>4, <2>8
    <2>10. paused' = (unacked' = Window) BY <1>4, <2>9
    <2>11. PaceTypeOK'
      <3>1. unacked' \in Int /\ paused' \in BOOLEAN BY <1>4, <2>1
      <3> QED BY <1>1, <3>1 DEF PaceInv, PaceTypeOK
    <2>12. InOrder' BY <1>1, <2>4, <2>6 DEF InOrder
    <2>13. Accounted'
      <3>1. BodyAcks' = BodyAcks BY <1>1 DEF BodyAcks
      <3>2. upload # "destroyed" =>
               /\ unacked = BodyParts + owed + BodyAcks
               /\ arrived = BodyParts + Len(buffer) + Len(taken)
               /\ Len(buffer) < owed + HighWater
        BY <1>1 DEF PaceInv, Accounted, Uploading
      <3>3. /\ owed \in Nat /\ Len(buffer) \in Nat /\ Len(taken) \in Nat /\ BodyAcks \in Nat
        BY Counts DEF PaceInv
      <3>4. upload' # "destroyed" =>
               /\ unacked' = BodyParts' + owed' + BodyAcks'
               /\ arrived' = BodyParts' + Len(buffer') + Len(taken')
               /\ Len(buffer') < owed' + HighWater
        BY <1>1, <1>4, <2>1, <2>7, <3>1, <3>2, <3>3
      <3> QED BY <2>9, <2>10, <3>4 DEF Accounted
    <2>14. NotHandedOver' BY <1>1, <1>2 DEF PaceInv, NotHandedOver
    <2> QED BY <2>11, <2>12, <2>13, <2>14 DEF PaceInv
  <1> QED BY <1>3, <1>4 DEF UploadPart, FailRequest

(* the end of the body is read                                             *)
LEMMA UploadEndPace == ASSUME PaceInv, TypeOK', UploadEnd PROVE PaceInv'
  <1> DEFINE S == [type : {"body"}, part : 1..Parts]
  <1>1. /\ kind = "upload" /\ leased /\ arrived = Parts /\ ~bodyDone /\ bodyDone' = TRUE
        /\ toWorker' = Sent(toWorker, Msg("body"))
        /\ UNCHANGED <<kind, leased, arrived, paused, unacked, handing, giving, process, toServer,
                       upload, buffer, owed, taken>>
    BY DEF UploadEnd, clientVars, serverVars, handVars, workerVars, readerVars
  <1>2. process # "closed" BY <1>1 DEF PaceInv, NotHandedOver
  <1>3. toWorker' = Append(toWorker, Msg("body")) BY <1>1, <1>2 DEF Sent
  <1>4. Msg("body") \in Message /\ Msg("body").type = "body" /\ Msg("body").part = 0
    BY DEF Msg, Message
  <1>5. Msg("body") \notin S BY <1>4
  <1> HIDE DEF S
  <1>6. Tidy(toWorker, upload, bodyDone) BY <1>1 DEF PaceInv, InOrder, Uploading
  <1>7. /\ upload # "ended"
        /\ \A i \in 1..Len(toWorker) : toWorker[i].type = "body" => toWorker[i].part # 0
    BY <1>1, <1>6 DEF Tidy
  <1>8. Tidy(toWorker, upload, bodyDone') BY <1>1, <1>6 DEF Tidy
  <1>9. Tidy(toWorker', upload, bodyDone')
    <2>1. toWorker \in Seq(Message) /\ 0 \in 0..Parts BY Counts DEF PaceInv
    <2> QED BY <1>1, <1>3, <1>4, <1>7, <1>8, <2>1, TidyAppended
  <1>10. BodyParts' = BodyParts
    <2>1. BodyParts = Among(toWorker, S) /\ BodyParts' = Among(toWorker', S)
      BY DEF BodyParts, S
    <2>2. Among(toWorker', S) = Among(toWorker, S) + 0
      BY <1>3, <1>4, <1>5, Counts, CountAppended DEF PaceInv
    <2> QED BY <2>1, <2>2, Counts DEF PaceInv
  <1>11. BodyAcks' = BodyAcks BY <1>1 DEF BodyAcks
  <1>12. PaceTypeOK' BY <1>1 DEF PaceInv, PaceTypeOK
  <1>13. NotHandedOver' BY <1>1, <1>2 DEF PaceInv, NotHandedOver
  <1>14. InOrder' BY <1>1, <1>9 DEF InOrder
  <1>15. Accounted' BY <1>1, <1>10, <1>11 DEF PaceInv, Accounted, Uploading
  <1> QED BY <1>12, <1>13, <1>14, <1>15 DEF PaceInv

(* an acknowledgement of the worker arrives                                *)
LEMMA BodyTakenPace == ASSUME PaceInv, TypeOK', BodyTaken PROVE PaceInv'
  <1>1. /\ leased /\ toServer # <<>> /\ Head(toServer).type = "bodyAck"
        /\ toServer' = Tail(toServer)
        /\ unacked' = unacked - 1 /\ paused' = (paused /\ unacked' >= Window)
        /\ UNCHANGED <<kind, leased, arrived, bodyDone, handing, giving, process, toWorker, upload,
                       buffer, owed, taken>>
    BY DEF BodyTaken, Receives, handVars, workerVars, readerVars
  <1>2. PaceTypeOK'
    <2>1. unacked' \in Int BY <1>1, Counts DEF PaceInv
    <2>2. paused' \in BOOLEAN BY <1>1
    <2> QED BY <1>1, <2>1, <2>2 DEF PaceInv, PaceTypeOK
  <1>3. NotHandedOver' BY <1>1 DEF PaceInv, NotHandedOver
  <1>4. InOrder' BY <1>1 DEF PaceInv, InOrder, Uploading
  <1>5. BodyParts' = BodyParts BY <1>1 DEF BodyParts
  <1>6. BodyAcks = BodyAcks' + 1
    <2>1. toServer \in Seq(Message) /\ Head(toServer) \in Message
      BY <1>1, HeadTailProperties DEF PaceInv, PaceTypeOK, TypeOK
    <2>2. Head(toServer) \in AckMessage BY <1>1, <2>1 DEF Message, AckMessage
    <2>3. Among(toServer, AckMessage) = Among(Tail(toServer), AckMessage) + 1
      BY <1>1, <2>1, <2>2, CountTaken
    <2> QED BY <1>1, <2>3 DEF BodyAcks, AckMessage
  <1>7. BodyAcks' \in Nat
    <2>1. toServer' \in Seq(Message) BY DEF TypeOK
    <2> QED BY <2>1, PlacesAreFinite DEF BodyAcks
  <1>8. ASSUME kind = "upload" PROVE Accounted'
    <2>1. /\ unacked <= Window
          /\ upload # "destroyed" =>
                /\ unacked = BodyParts + owed + BodyAcks
                /\ arrived = BodyParts + Len(buffer) + Len(taken)
                /\ Len(buffer) < owed + HighWater
      BY <1>1, <1>8 DEF PaceInv, Accounted, Uploading
    <2>2. /\ unacked \in Int /\ Window \in Nat /\ BodyParts \in Nat /\ owed \in Nat
      BY Counts DEF PaceInv
    <2>3. unacked' < Window /\ ~(unacked' >= Window) BY <1>1, <2>1, <2>2
    <2>4. unacked' # Window BY <1>1, <2>2, <2>3
    <2>5. paused' = (unacked' = Window) BY <1>1, <2>3, <2>4, Zenon
    <2>6. upload' # "destroyed" => unacked' = BodyParts' + owed' + BodyAcks'
      BY <1>1, <1>5, <1>6, <1>7, <2>1, <2>2
    <2>7. upload' # "destroyed" =>
             arrived' = BodyParts' + Len(buffer') + Len(taken') /\ Len(buffer') < owed' + HighWater
      BY <1>1, <1>5, <2>1
    <2>8. unacked' <= Window BY <1>1, <2>1, <2>2
    <2> QED BY <2>5, <2>6, <2>7, <2>8 DEF Accounted
  <1> QED BY <1>1, <1>2, <1>3, <1>4, <1>8 DEF PaceInv, Accounted, Uploading

(* the worker takes the request                                            *)
LEMMA StartRequestPace == ASSUME PaceInv, TypeOK', StartRequest PROVE PaceInv'
  <1>1. /\ toWorker # <<>> /\ Head(toWorker).type = "request" /\ toWorker' = Tail(toWorker)
        /\ upload' = IF kind = "upload" THEN "open" ELSE "none"
        /\ UNCHANGED <<kind, leased, paused, unacked, arrived, bodyDone, handing, giving, process,
                       toServer, buffer, owed, taken>>
    BY DEF StartRequest, Gets, clientVars, uploadVars, serverVars, handVars
  <1>2. PaceTypeOK' BY <1>1 DEF PaceInv, PaceTypeOK
  <1>3. NotHandedOver' BY <1>1 DEF PaceInv, NotHandedOver
  <1>4. ASSUME Uploading PROVE InOrder' /\ Accounted'
    <2>1. Tidy(toWorker, upload, bodyDone) /\ (bodyDone => arrived = Parts) /\ upload' = "open"
      BY <1>1, <1>4 DEF PaceInv, InOrder, Uploading
    <2>2. toWorker \in Seq(Message) BY Counts DEF PaceInv
    <2>3. upload = "none"
      <3>1. 1 \in 1..Len(toWorker) /\ Head(toWorker) = toWorker[1] BY <1>1, <2>2
      <3> QED BY <1>1, <2>1, <3>1 DEF Tidy
    <2>4. Tidy(toWorker', upload', bodyDone) BY <1>1, <2>1, <2>2, <2>3, TidyTaken
    <2>5. BodyParts' = BodyParts
      <3>1. Head(toWorker) \notin PartMessage BY <1>1 DEF PartMessage
      <3> QED BY <1>1, <3>1, PartsKept DEF PaceInv
    <2>6. BodyAcks' = BodyAcks BY <1>1 DEF BodyAcks
    <2>7. InOrder' BY <1>1, <2>1, <2>4 DEF InOrder
    <2>8. Accounted' BY <1>1, <1>4, <2>3, <2>5, <2>6 DEF PaceInv, Accounted
    <2> QED BY <2>7, <2>8
  <1> QED BY <1>1, <1>2, <1>3, <1>4 DEF PaceInv, InOrder, Accounted, Uploading

(* the worker takes a part of the body, or its end                         *)
LEMMA BodyPartPace == ASSUME PaceInv, TypeOK', BodyPart PROVE PaceInv'
  <1> DEFINE part == Head(toWorker).part
             kept == upload = "open" /\ part # 0
             room == Len(buffer') < HighWater
  <1>1. /\ toWorker # <<>> /\ Head(toWorker).type = "body" /\ toWorker' = Tail(toWorker)
        /\ upload' = IF upload = "open" /\ part = 0 THEN "ended" ELSE upload
        /\ UNCHANGED <<kind, leased, paused, unacked, arrived, bodyDone, handing, giving, process,
                       taken>>
    BY DEF BodyPart, Gets, clientVars, uploadVars, serverVars, handVars
  <1>2. kept => /\ buffer' = Append(buffer, part)
                /\ room => toServer' = Append(toServer, Msg("bodyAck")) /\ owed' = owed
                /\ ~room => toServer' = toServer /\ owed' = owed + 1
    BY DEF BodyPart
  <1>3. ~kept => UNCHANGED <<buffer, owed, toServer>> BY DEF BodyPart
  <1>4. toWorker \in Seq(Message) /\ Head(toWorker) \in Message /\ part \in Nat
    <2>1. toWorker \in Seq(Message) BY Counts DEF PaceInv
    <2>2. Head(toWorker) \in Message BY <1>1, <2>1, HeadTailProperties
    <2> QED BY <2>1, <2>2 DEF Message
  <1> HIDE DEF part
  <1>5. PaceTypeOK'
    <2> HIDE DEF kept
    <2>1. buffer' \in Seq(Nat)
      <3>1. buffer \in Seq(Nat) BY DEF PaceInv, PaceTypeOK
      <3>2. Append(buffer, part) \in Seq(Nat) BY <1>4, <3>1
      <3>3. buffer' = buffer \/ buffer' = Append(buffer, part) BY <1>2, <1>3
      <3> QED BY <3>1, <3>2, <3>3
    <2>2. upload' \in {"none", "open", "ended", "destroyed"} BY <1>1 DEF PaceInv, PaceTypeOK
    <2> QED BY <1>1, <2>1, <2>2 DEF PaceInv, PaceTypeOK
  <1>6. NotHandedOver' BY <1>1 DEF PaceInv, NotHandedOver
  <1>7. ASSUME Uploading PROVE InOrder' /\ Accounted'
    <2>1. Tidy(toWorker, upload, bodyDone) /\ (bodyDone => arrived = Parts)
      BY <1>7 DEF PaceInv, InOrder
    <2>2. 1 \in 1..Len(toWorker) /\ Head(toWorker) = toWorker[1] BY <1>1, <1>4
    <2>3. upload \notin {"none", "ended"} /\ part \in 0..Parts
      BY <1>1, <2>1, <2>2 DEF Tidy, Has, part
    <2>4. Tidy(toWorker', upload', bodyDone) BY <1>1, <1>4, <2>1, <2>3, TidyTaken DEF part
    <2>5. InOrder' BY <1>1, <2>1, <2>4 DEF InOrder
    <2>6. unacked' <= Window /\ paused' = (unacked' = Window)
      BY <1>1, <1>7 DEF PaceInv, Accounted
    <2>7. ASSUME upload' # "destroyed"
          PROVE  /\ unacked' = BodyParts' + owed' + BodyAcks'
                 /\ arrived' = BodyParts' + Len(buffer') + Len(taken')
                 /\ Len(buffer') < owed' + HighWater
      <3>1. /\ upload = "open"
            /\ unacked = BodyParts + owed + BodyAcks
            /\ arrived = BodyParts + Len(buffer) + Len(taken)
            /\ Len(buffer) < owed + HighWater
        BY <1>1, <1>7, <2>3, <2>7 DEF PaceInv, PaceTypeOK, Accounted
      <3>2. CASE part = 0
        <4>1. Head(toWorker) \notin PartMessage BY <3>2 DEF PartMessage, part
        <4>2. BodyParts' = BodyParts BY <1>1, <4>1, PartsKept DEF PaceInv
        <4>3. BodyAcks' = BodyAcks BY <1>3, <3>2 DEF BodyAcks
        <4> QED BY <1>1, <1>3, <3>1, <3>2, <4>2, <4>3
      <3>3. CASE part # 0
        <4>1. BodyParts = BodyParts' + 1 /\ BodyParts' \in Nat
          <5>1. part \in 1..Parts BY <1>4, <2>3, <3>3, SizesAssumption
          <5>2. Head(toWorker) \in PartMessage
            BY <1>1, <1>4, <5>1 DEF Message, PartMessage, part
          <5>3. Among(toWorker, PartMessage) = Among(Tail(toWorker), PartMessage) + 1
            BY <1>1, <1>4, <5>2, CountTaken
          <5>4. toWorker' \in Seq(Message) BY DEF TypeOK
          <5>5. Among(toWorker', PartMessage) \in Nat BY <5>4, PlacesAreFinite
          <5> QED BY <1>1, <5>3, <5>5 DEF BodyParts, PartMessage
        <4>2. /\ owed \in Nat /\ unacked \in Int /\ HighWater \in Nat /\ Len(buffer) \in Nat
              /\ Len(taken) \in Nat /\ BodyAcks \in Nat
          BY Counts DEF PaceInv
        <4>3. Len(buffer') = Len(buffer) + 1
          BY <1>2, <1>4, <3>1, <3>3 DEF PaceInv, PaceTypeOK
        <4>4. arrived' = BodyParts' + Len(buffer') + Len(taken')
          BY <1>1, <3>1, <4>1, <4>2, <4>3
        <4>5. CASE room
          <5>1. toServer' = Append(toServer, Msg("bodyAck")) /\ owed' = owed
            BY <1>2, <3>1, <3>3, <4>5
          <5>2. BodyAcks' = BodyAcks + 1
            <6>1. Msg("bodyAck") \in Message /\ Msg("bodyAck") \in AckMessage
              BY DEF Msg, Message, AckMessage
            <6>2. toServer \in Seq(Message) BY Counts DEF PaceInv
            <6>3. Among(toServer', AckMessage) = Among(toServer, AckMessage) + 1
              BY <5>1, <6>1, <6>2, CountAppended
            <6> QED BY <6>3 DEF BodyAcks, AckMessage
          <5>3. unacked' = BodyParts' + owed' + BodyAcks'
            BY <1>1, <3>1, <4>1, <4>2, <5>1, <5>2
          <5>4. Len(buffer') < owed' + HighWater BY <4>2, <4>3, <4>5, <5>1
          <5> QED BY <4>4, <5>3, <5>4
        <4>6. CASE ~room
          <5>1. toServer' = toServer /\ owed' = owed + 1 BY <1>2, <3>1, <3>3, <4>6
          <5>2. BodyAcks' = BodyAcks BY <5>1 DEF BodyAcks
          <5>3. unacked' = BodyParts' + owed' + BodyAcks'
            BY <1>1, <3>1, <4>1, <4>2, <5>1, <5>2
          <5>4. Len(buffer') < owed' + HighWater BY <3>1, <4>2, <4>3, <5>1
          <5> QED BY <4>4, <5>3, <5>4
        <4> QED BY <4>5, <4>6
      <3> QED BY <3>2, <3>3
    <2>8. Accounted' BY <2>6, <2>7 DEF Accounted
    <2> QED BY <2>5, <2>8
  <1> QED BY <1>1, <1>5, <1>6, <1>7 DEF PaceInv, InOrder, Accounted, Uploading

(* the worker reads a part, and acknowledges what it owes when it has room *)
LEMMA ReadBodyPace == ASSUME PaceInv, TypeOK', ReadBody PROVE PaceInv'
  <1> DEFINE room == Len(buffer') < HighWater
  <1>1. /\ buffer # <<>> /\ buffer' = Tail(buffer) /\ taken' = Append(taken, Head(buffer))
        /\ room => toServer' = toServer \o [i \in 1..owed |-> Msg("bodyAck")] /\ owed' = 0
        /\ ~room => toServer' = toServer /\ owed' = owed
        /\ UNCHANGED <<kind, leased, paused, unacked, arrived, bodyDone, handing, giving, process,
                       toWorker, upload>>
    BY DEF ReadBody, Works, uploadVars, serverVars, handVars
  <1>2. /\ owed \in Nat /\ unacked \in Int /\ HighWater \in Nat \ {0} /\ Len(buffer) \in Nat
        /\ Len(taken) \in Nat /\ BodyAcks \in Nat /\ BodyParts \in Nat
        /\ toServer \in Seq(Message)
    BY Counts DEF PaceInv
  <1>3. /\ buffer' \in Seq(Nat) /\ taken' \in Seq(Nat)
        /\ Len(buffer') = Len(buffer) - 1 /\ Len(taken') = Len(taken) + 1
    BY <1>1 DEF PaceInv, PaceTypeOK
  <1> HIDE DEF room
  <1>4. PaceTypeOK' BY <1>1, <1>3 DEF PaceInv, PaceTypeOK
  <1>5. NotHandedOver' BY <1>1 DEF PaceInv, NotHandedOver
  <1>6. InOrder' BY <1>1 DEF PaceInv, InOrder, Uploading
  <1>7. BodyParts' = BodyParts BY <1>1 DEF BodyParts
  <1>8. owed' + BodyAcks' = owed + BodyAcks
    <2>1. CASE room
      <3>1. Among(toServer', AckMessage) = Among(toServer, AckMessage) + owed
        BY <1>1, <1>2, <2>1, AmongJoined
      <3>2. BodyAcks' = BodyAcks + owed BY <3>1 DEF BodyAcks, AckMessage
      <3> QED BY <1>1, <1>2, <2>1, <3>2
    <2>2. CASE ~room BY <1>1, <2>2 DEF BodyAcks
    <2> QED BY <2>1, <2>2
  <1>9. BodyAcks' \in Nat /\ owed' \in Nat
    <2>1. toServer' \in Seq(Message) /\ owed' \in Nat BY DEF TypeOK
    <2> QED BY <2>1, PlacesAreFinite DEF BodyAcks
  <1>10. ASSUME Uploading PROVE Accounted'
    <2>1. unacked' <= Window /\ paused' = (unacked' = Window)
      BY <1>1, <1>10 DEF PaceInv, Accounted
    <2>2. ASSUME upload' # "destroyed"
          PROVE  /\ unacked' = BodyParts' + owed' + BodyAcks'
                 /\ arrived' = BodyParts' + Len(buffer') + Len(taken')
                 /\ Len(buffer') < owed' + HighWater
      <3>1. /\ unacked = BodyParts + owed + BodyAcks
            /\ arrived = BodyParts + Len(buffer) + Len(taken)
            /\ Len(buffer) < owed + HighWater
        BY <1>1, <1>10, <2>2 DEF PaceInv, Accounted
      <3>2. unacked' = BodyParts' + owed' + BodyAcks'
        <4>1. unacked' = unacked BY <1>1
        <4>2. unacked = BodyParts + (owed + BodyAcks) BY <1>2, <3>1
        <4>3. unacked' = BodyParts' + (owed' + BodyAcks') BY <1>7, <1>8, <4>1, <4>2
        <4>4. BodyParts' \in Nat BY <1>2, <1>7
        <4> QED BY <1>9, <4>3, <4>4
      <3>3. arrived' = BodyParts' + Len(buffer') + Len(taken') BY <1>1, <1>2, <1>3, <1>7, <3>1
      <3>4. Len(buffer') < owed' + HighWater
        <4>1. CASE room BY <1>1, <1>2, <4>1 DEF room
        <4>2. CASE ~room BY <1>1, <1>2, <1>3, <3>1, <4>2
        <4> QED BY <4>1, <4>2
      <3> QED BY <3>2, <3>3, <3>4
    <2> QED BY <2>1, <2>2 DEF Accounted
  <1> QED BY <1>1, <1>4, <1>5, <1>6, <1>10 DEF PaceInv, Accounted, Uploading

-----------------------------------------------------------------------------

(* PaceInv is inductive, one case for each step                            *)
LEMMA PaceStep == IInv /\ PaceInv /\ [Next]_all => PaceInv'
  <1> SUFFICES ASSUME IInv, PaceInv, [Next]_all PROVE PaceInv' OBVIOUS
  <1>1. TypeOK' BY StepKeeps DEF IInv
  <1>2. CASE UNCHANGED all
    BY <1>1, <1>2 DEF all, vars, clientVars, uploadVars, serverVars, handVars, wires, workerVars,
                      answerVars, readerVars, PaceInv, PaceTypeOK, NotHandedOver, InOrder,
                      Accounted, Uploading, BodyParts, BodyAcks
  <1>3. CASE Step
    <2>1. CASE UploadPart \/ UploadEnd BY <1>1, <2>1, UploadPartPace, UploadEndPace
    <2>2. CASE ServerDrops \/ Respond \/ Emit \/ StartHandOff BY <1>1, <2>2, ReportPace
    <2>3. CASE BodyTaken BY <1>1, <2>3, BodyTakenPace
    <2>4. CASE \/ EmitAfterHandOff \/ RequestHandOffDone \/ HeadWritten
               \/ ConnectionSent \/ ConnectionNotSent \/ Finish \/ Closed \/ TimerFires
      BY <1>1, <2>4, GivenBackPace
    <2>5. CASE StartRequest \/ BodyPart BY <1>1, <2>5, StartRequestPace, BodyPartPace
    <2>6. CASE Acknowledged \/ AbortRequest \/ Refused BY <1>1, <2>6, SessionPace
    <2>7. CASE ReceiveConnection \/ WriteToSocket \/ CloseSocket \/ Exit
      BY <1>1, <2>7, ConnectionPace
    <2>8. CASE \/ SendResponse \/ AskForConnection \/ StreamPart \/ StreamEnd \/ StreamSettled
               \/ Return \/ Throw
      BY <1>1, <2>8, AnswerPace
    <2>9. CASE ClientTakes \/ WriteFails \/ ClientLeaves \/ SendConnection
      BY <1>1, <2>9, ClientPace
    <2>10. CASE ReadBody \/ ReadHandedBody BY <1>1, <2>10, ReadBodyPace, ReadHandedBodyPace
    <2> QED
      BY <1>3, <2>1, <2>2, <2>3, <2>4, <2>5, <2>6, <2>7, <2>8, <2>9, <2>10
      DEF Step, ServerStep, SessionStep, WorkerStep
  <1> QED BY <1>2, <1>3 DEF Next

(* what is counted bounds the parts in memory                              *)
LEMMA PaceHolds == PaceInv => UploadPaced
  <1> SUFFICES ASSUME PaceInv, Uploading PROVE UploadPaced BY DEF UploadPaced, Uploading
  <1>1. unacked <= Window /\ paused = (unacked = Window) BY DEF PaceInv, Accounted
  <1>2. ASSUME upload # "destroyed"
        PROVE  unacked = BodyParts + owed + BodyAcks /\ arrived - Len(taken) < Window + HighWater
    <2>1. /\ unacked = BodyParts + owed + BodyAcks
          /\ arrived = BodyParts + Len(buffer) + Len(taken)
          /\ Len(buffer) < owed + HighWater
      BY <1>2 DEF PaceInv, Accounted
    <2>2. /\ arrived \in Nat /\ owed \in Nat /\ unacked \in Int
          /\ Len(buffer) \in Nat /\ Len(taken) \in Nat
          /\ BodyParts \in Nat /\ BodyAcks \in Nat
          /\ Window \in Nat \ {0} /\ HighWater \in Nat \ {0}
      BY Counts DEF PaceInv
    <2> QED BY <1>1, <2>1, <2>2
  <1> QED BY <1>1, <1>2 DEF UploadPaced

(* The window of an upload holds: the server counts each part that it sent *)
(* until the worker has room for it, neither more nor less, it reads the   *)
(* request exactly when the window is not full, and what is in memory is   *)
(* bounded by the window and the room of the reader.                       *)
THEOREM UploadsPaced == Spec => []UploadPaced
  <1>1. Init => IInv /\ PaceInv BY Initially, PaceInitially
  <1>2. IInv /\ PaceInv /\ [Next]_all => (IInv /\ PaceInv)' BY StepKeeps, PaceStep
  <1> QED BY <1>1, <1>2, PaceHolds, PTL DEF Spec

-----------------------------------------------------------------------------
(* The parts of a body in a queue                                          *)

IsPart(m, type) == m.type = type /\ m.part # 0
IsEnd(m, type) == m.type = type /\ m.part = 0

(* The parts from low to high lie in a queue in their order, and the end   *)
(* of the body, if it was sent, behind them.                               *)
Row(queue, type, low, high, done) ==
    /\ low <= high + 1
    /\ \A i \in 1..Len(queue) : IsPart(queue[i], type) => queue[i].part \in low..high
    /\ \A i, j \in 1..Len(queue) :
          i < j /\ IsPart(queue[i], type) /\ IsPart(queue[j], type) => queue[i].part < queue[j].part
    /\ \A p \in low..high : \E i \in 1..Len(queue) : IsPart(queue[i], type) /\ queue[i].part = p
    /\ \A i \in 1..Len(queue) : IsEnd(queue[i], type) =>
          done /\ \A j \in (i + 1)..Len(queue) : queue[j].type # type

(* a part more, the end, or a message of something else                    *)
LEMMA RowAppended ==
    ASSUME NEW queue \in Seq(Message), NEW type, NEW m \in Message,
           NEW low \in Nat, NEW high \in Int, NEW done, Row(queue, type, low, high, done),
           NEW highest, NEW over,
           \/ m.type # type /\ highest = high /\ over = done
           \/ IsPart(m, type) /\ m.part = high + 1 /\ highest = high + 1 /\ ~done /\ over = done
           \/ IsEnd(m, type) /\ highest = high /\ ~done /\ over
    PROVE  Row(Append(queue, m), type, low, highest, over)
  <1> DEFINE longer == Append(queue, m)
             n == Len(queue)
  <1>1. /\ n \in Nat /\ Len(longer) = n + 1 /\ longer[n + 1] = m
        /\ \A i \in 1..n : longer[i] = queue[i]
    BY QueueAppended
  <1> HIDE DEF longer, n
  <1>2. \A i \in 1..(n + 1) : i = n + 1 \/ (i \in 1..n /\ longer[i] = queue[i]) BY <1>1
  <1>3. highest \in Int /\ high <= highest /\ low <= high + 1 /\ low <= highest + 1 BY DEF Row
  <1>4. \A i \in 1..n : IsPart(queue[i], type) => queue[i].part \in low..high BY DEF Row, n
  <1>5. \A i \in 1..n : IsEnd(queue[i], type) =>
           done /\ m.type # type /\ \A j \in (i + 1)..n : queue[j].type # type
    BY DEF Row, n, IsPart, IsEnd
  <1>6. IsPart(m, type) => m.part = high + 1 /\ highest = high + 1 BY DEF IsPart, IsEnd
  <1>7. \A i \in 1..(n + 1) : IsPart(longer[i], type) => longer[i].part \in low..highest
    <2> SUFFICES ASSUME NEW i \in 1..(n + 1), IsPart(longer[i], type)
                 PROVE  longer[i].part \in low..highest
      OBVIOUS
    <2>1. CASE i = n + 1
      <3>1. highest = high + 1 /\ longer[i].part = highest BY <1>1, <1>6, <2>1
      <3> QED BY <1>3, <3>1
    <2>2. CASE i \in 1..n /\ longer[i] = queue[i]
      <3>1. longer[i].part \in low..high BY <1>4, <2>2
      <3>2. low..high \subseteq low..highest BY <1>3
      <3> QED BY <3>1, <3>2
    <2> QED BY <1>2, <2>1, <2>2
  <1>8. \A i, j \in 1..(n + 1) :
           i < j /\ IsPart(longer[i], type) /\ IsPart(longer[j], type) => longer[i].part < longer[j].part
    <2> SUFFICES ASSUME NEW i \in 1..(n + 1), NEW j \in 1..(n + 1),
                        i < j, IsPart(longer[i], type), IsPart(longer[j], type)
                 PROVE  longer[i].part < longer[j].part
      OBVIOUS
    <2>1. i \in 1..n /\ longer[i] = queue[i] BY <1>1
    <2>2. CASE j = n + 1
      <3>1. queue[i].part \in low..high BY <1>4, <2>1
      <3>2. longer[j].part = high + 1 BY <1>1, <1>6, <2>2
      <3> QED BY <2>1, <3>1, <3>2
    <2>3. CASE j \in 1..n /\ longer[j] = queue[j] BY <2>1, <2>3 DEF Row, n
    <2> QED BY <1>2, <2>2, <2>3
  <1>9. \A p \in low..highest : \E i \in 1..(n + 1) : IsPart(longer[i], type) /\ longer[i].part = p
    <2> SUFFICES ASSUME NEW p \in low..highest
                 PROVE  \E i \in 1..(n + 1) : IsPart(longer[i], type) /\ longer[i].part = p
      OBVIOUS
    <2>1. CASE p \in low..high
      <3>1. PICK i \in 1..n : IsPart(queue[i], type) /\ queue[i].part = p BY <2>1 DEF Row, n
      <3> QED BY <1>1, <3>1
    <2>2. CASE p \notin low..high
      <3>1. highest = high + 1 /\ p = high + 1 BY <1>3, <2>2
      <3>2. IsPart(m, type) /\ m.part = p BY <3>1
      <3>3. n + 1 \in 1..(n + 1) BY <1>1
      <3> QED BY <1>1, <3>2, <3>3
    <2> QED BY <2>1, <2>2
  <1>10. \A i \in 1..(n + 1) : IsEnd(longer[i], type) =>
            over /\ \A j \in (i + 1)..(n + 1) : longer[j].type # type
    <2> SUFFICES ASSUME NEW i \in 1..(n + 1), IsEnd(longer[i], type)
                 PROVE  over /\ \A j \in (i + 1)..(n + 1) : longer[j].type # type
      OBVIOUS
    <2>1. CASE i = n + 1
      <3>1. over BY <1>1, <2>1 DEF IsPart, IsEnd
      <3>2. \A j \in (i + 1)..(n + 1) : FALSE BY <1>1, <2>1
      <3> QED BY <3>1, <3>2
    <2>2. CASE i \in 1..n /\ longer[i] = queue[i]
      <3>1. done /\ m.type # type /\ \A j \in (i + 1)..n : queue[j].type # type
        BY <1>5, <2>2
      <3>2. over BY <3>1 DEF IsPart, IsEnd
      <3>3. \A j \in (i + 1)..(n + 1) : j = n + 1 \/ (j \in (i + 1)..n /\ longer[j] = queue[j])
        BY <1>1, <2>2
      <3> QED BY <1>1, <3>1, <3>2, <3>3
    <2> QED BY <1>2, <2>1, <2>2
  <1> QED BY <1>1, <1>3, <1>7, <1>8, <1>9, <1>10 DEF Row, longer

(* the end of the body                                                     *)
LEMMA RowEnded ==
    ASSUME NEW queue \in Seq(Message), NEW type, NEW m \in Message, IsEnd(m, type),
           NEW low \in Nat, NEW high \in Int, Row(queue, type, low, high, FALSE)
    PROVE  Row(Append(queue, m), type, low, high, TRUE)
  BY RowAppended

(* The first message is taken: a part is the lowest one, the end of the    *)
(* body has no part behind it.                                             *)
LEMMA RowTaken ==
    ASSUME NEW queue \in Seq(Message), NEW type, queue # <<>>,
           NEW low \in Nat, NEW high \in Int, NEW done, Row(queue, type, low, high, done)
    PROVE  /\ Head(queue).type # type => Row(Tail(queue), type, low, high, done)
           /\ IsPart(Head(queue), type) =>
                 Head(queue).part = low /\ low <= high /\ Row(Tail(queue), type, low + 1, high, done)
           /\ IsEnd(Head(queue), type) =>
                 done /\ low = high + 1 /\ ~Has(Tail(queue), type)
  <1> DEFINE rest == Tail(queue)
             n == Len(queue) - 1
  <1>1. /\ n \in Nat /\ Len(queue) = n + 1 /\ Len(rest) = n /\ Head(queue) = queue[1]
        /\ \A i \in 1..n : rest[i] = queue[i + 1]
    BY QueueTaken
  <1> HIDE DEF rest, n
  <1>2. \A i \in 1..n : i + 1 \in 1..Len(queue) BY <1>1
  <1>3. 1 \in 1..Len(queue) /\ low <= high + 1 BY <1>1 DEF Row
  <1>4. \A i \in 1..n : IsPart(rest[i], type) => rest[i].part \in low..high BY <1>1, <1>2 DEF Row
  <1>5. \A i, j \in 1..n :
           i < j /\ IsPart(rest[i], type) /\ IsPart(rest[j], type) => rest[i].part < rest[j].part
    BY <1>1, <1>2 DEF Row
  <1>6. \A p \in low..high :
           \/ IsPart(queue[1], type) /\ queue[1].part = p
           \/ \E i \in 1..n : IsPart(rest[i], type) /\ rest[i].part = p
    <2> SUFFICES ASSUME NEW p \in low..high
                 PROVE  \/ IsPart(queue[1], type) /\ queue[1].part = p
                        \/ \E i \in 1..n : IsPart(rest[i], type) /\ rest[i].part = p
      OBVIOUS
    <2>1. PICK i \in 1..Len(queue) : IsPart(queue[i], type) /\ queue[i].part = p BY DEF Row
    <2>2. CASE i = 1 BY <2>1, <2>2
    <2>3. CASE i # 1
      <3>1. i - 1 \in 1..n /\ rest[i - 1] = queue[i] BY <1>1, <2>1, <2>3
      <3> QED BY <2>1, <3>1
    <2> QED BY <2>2, <2>3
  <1>7. \A i \in 1..n : IsEnd(rest[i], type) =>
           done /\ \A j \in (i + 1)..n : rest[j].type # type
    <2> SUFFICES ASSUME NEW i \in 1..n, IsEnd(rest[i], type)
                 PROVE  done /\ \A j \in (i + 1)..n : rest[j].type # type
      OBVIOUS
    <2>1. done /\ \A j \in (i + 2)..Len(queue) : queue[j].type # type
      BY <1>1, <1>2 DEF Row
    <2>2. \A j \in (i + 1)..n : j + 1 \in (i + 2)..Len(queue) /\ rest[j] = queue[j + 1] BY <1>1
    <2> QED BY <2>1, <2>2
  <1>8. CASE Head(queue).type # type
    <2>1. Row(rest, type, low, high, done) BY <1>1, <1>3, <1>4, <1>5, <1>6, <1>7, <1>8 DEF Row, IsPart
    <2> QED BY <1>8, <2>1 DEF IsPart, IsEnd, rest
  <1>9. CASE IsPart(Head(queue), type)
    <2> DEFINE first == queue[1].part
    <2>1. first \in low..high BY <1>1, <1>3, <1>9 DEF Row
    <2>2. \A i \in 1..n : IsPart(rest[i], type) => first < rest[i].part
      <3> SUFFICES ASSUME NEW i \in 1..n, IsPart(rest[i], type) PROVE first < rest[i].part OBVIOUS
      <3>1. 1 < i + 1 /\ i + 1 \in 1..Len(queue) /\ rest[i] = queue[i + 1] BY <1>1
      <3> QED BY <1>1, <1>3, <1>9, <3>1 DEF Row
    <2> HIDE DEF first
    <2>3. first = low
      <3>1. low \in low..high BY <2>1
      <3>2. CASE first = low BY <3>2
      <3>3. CASE \E i \in 1..n : IsPart(rest[i], type) /\ rest[i].part = low BY <2>1, <2>2, <3>3
      <3> QED BY <1>6, <3>1, <3>2, <3>3 DEF first
    <2>4. \A i \in 1..n : IsPart(rest[i], type) => rest[i].part \in (low + 1)..high
      BY <1>4, <2>2, <2>3
    <2>5. \A p \in (low + 1)..high : \E i \in 1..n : IsPart(rest[i], type) /\ rest[i].part = p
      <3> SUFFICES ASSUME NEW p \in (low + 1)..high
                   PROVE  \E i \in 1..n : IsPart(rest[i], type) /\ rest[i].part = p
        OBVIOUS
      <3>1. p \in low..high /\ p # first BY <2>3
      <3> QED BY <1>6, <3>1 DEF first
    <2>6. low <= high /\ low + 1 <= high + 1 BY <2>1
    <2>7. Row(rest, type, low + 1, high, done) BY <1>1, <1>5, <1>7, <2>4, <2>5, <2>6 DEF Row
    <2> QED BY <1>1, <1>9, <2>3, <2>6, <2>7 DEF IsPart, IsEnd, first, rest
  <1>10. CASE IsEnd(Head(queue), type)
    <2>1. done /\ \A j \in 2..Len(queue) : queue[j].type # type
      BY <1>1, <1>3, <1>10 DEF Row
    <2>2. \A i \in 1..Len(queue) : ~IsPart(queue[i], type)
      <3> SUFFICES ASSUME NEW i \in 1..Len(queue) PROVE ~IsPart(queue[i], type) OBVIOUS
      <3>1. i = 1 \/ i \in 2..Len(queue) BY <1>1
      <3> QED BY <1>1, <1>10, <2>1, <3>1 DEF IsPart, IsEnd
    <2>3. low \notin low..high BY <2>2 DEF Row
    <2>4. low = high + 1 BY <1>3, <2>3
    <2>5. ~Has(rest, type)
      <3>1. \A i \in 1..n : i + 1 \in 2..Len(queue) BY <1>1
      <3> QED BY <1>1, <2>1, <3>1 DEF Has
    <2> QED BY <1>10, <2>1, <2>4, <2>5 DEF IsPart, IsEnd, rest
  <1> QED BY <1>8, <1>9, <1>10 DEF IsPart, IsEnd

(* nothing of this type is in the queue                                    *)
LEMMA RowNone ==
    ASSUME NEW queue \in Seq(Message), NEW type, ~Has(queue, type),
           NEW low \in Nat, NEW high \in Int, NEW done
    PROVE  Row(queue, type, low, high, done) <=> low = high + 1
  <1>1. \A i \in 1..Len(queue) : ~IsPart(queue[i], type) /\ ~IsEnd(queue[i], type)
    BY DEF Has, IsPart, IsEnd
  <1>2. ASSUME Row(queue, type, low, high, done) PROVE low = high + 1
    <2>1. low <= high + 1 /\ \A p \in low..high : FALSE BY <1>1, <1>2 DEF Row
    <2>2. low \notin low..high BY <2>1
    <2> QED BY <2>1, <2>2
  <1>3. low = high + 1 => Row(queue, type, low, high, done) BY <1>1 DEF Row
  <1> QED BY <1>2, <1>3

(* several messages of something else                                      *)
LEMMA RowJoined ==
    ASSUME NEW queue \in Seq(Message), NEW type, NEW more \in Seq(Message),
           \A i \in 1..Len(more) : more[i].type # type,
           NEW low \in Nat, NEW high \in Int, NEW done, Row(queue, type, low, high, done)
    PROVE  Row(queue \o more, type, low, high, done)
  <1> DEFINE longer == queue \o more
             n == Len(queue)
             k == Len(more)
  <1>1. /\ n \in Nat /\ k \in Nat /\ Len(longer) = n + k
        /\ \A i \in 1..n : longer[i] = queue[i]
        /\ \A i \in 1..k : longer[n + i] = more[i]
    BY QueueJoined
  <1>2. \A i \in 1..k : more[i].type # type OBVIOUS
  <1> HIDE DEF longer, n, k
  <1>3. \A i \in 1..(n + k) : i \in 1..n \/ (i - n \in 1..k /\ n + (i - n) = i) BY <1>1
  <1>4. \A i \in 1..(n + k) :
           \/ i \in 1..n /\ longer[i] = queue[i]
           \/ longer[i].type # type
    BY <1>1, <1>2, <1>3
  <1>5. /\ low <= high + 1
        /\ \A i \in 1..n : IsPart(queue[i], type) => queue[i].part \in low..high
        /\ \A i, j \in 1..n :
              i < j /\ IsPart(queue[i], type) /\ IsPart(queue[j], type)
                 => queue[i].part < queue[j].part
        /\ \A p \in low..high : \E i \in 1..n : IsPart(queue[i], type) /\ queue[i].part = p
        /\ \A i \in 1..n : IsEnd(queue[i], type) =>
              done /\ \A j \in (i + 1)..n : queue[j].type # type
    BY DEF Row, n
  <1>6. \A i \in 1..(n + k) : IsPart(longer[i], type) => longer[i].part \in low..high
    BY <1>4, <1>5 DEF IsPart
  <1>7. \A i, j \in 1..(n + k) :
           i < j /\ IsPart(longer[i], type) /\ IsPart(longer[j], type)
              => longer[i].part < longer[j].part
    BY <1>4, <1>5 DEF IsPart
  <1>8. \A p \in low..high : \E i \in 1..(n + k) : IsPart(longer[i], type) /\ longer[i].part = p
    <2> SUFFICES ASSUME NEW p \in low..high
                 PROVE  \E i \in 1..(n + k) : IsPart(longer[i], type) /\ longer[i].part = p
      OBVIOUS
    <2>1. PICK i \in 1..n : IsPart(queue[i], type) /\ queue[i].part = p BY <1>5
    <2>2. i \in 1..(n + k) BY <1>1
    <2> QED BY <1>1, <2>1, <2>2
  <1>9. \A i \in 1..(n + k) : IsEnd(longer[i], type) =>
           done /\ \A j \in (i + 1)..(n + k) : longer[j].type # type
    <2> SUFFICES ASSUME NEW i \in 1..(n + k), IsEnd(longer[i], type)
                 PROVE  done /\ \A j \in (i + 1)..(n + k) : longer[j].type # type
      OBVIOUS
    <2>1. i \in 1..n /\ longer[i] = queue[i] BY <1>4 DEF IsEnd
    <2>2. done /\ \A j \in (i + 1)..n : queue[j].type # type BY <1>5, <2>1
    <2>3. \A j \in (i + 1)..(n + k) : j \in 1..(n + k) /\ (j \in 1..n => j \in (i + 1)..n)
      BY <1>1, <2>1
    <2> QED BY <1>4, <2>2, <2>3
  <1> QED BY <1>1, <1>5, <1>6, <1>7, <1>8, <1>9 DEF Row, longer

(* the numbers up to n, and one more                                       *)
LEMMA NumbersGrow ==
    \A n \in Nat :
        /\ Numbers(n) \in Seq(Nat) /\ Len(Numbers(n)) = n
        /\ \A i \in 1..n : Numbers(n)[i] = i
        /\ Numbers(n + 1) = Append(Numbers(n), n + 1)
  <1> SUFFICES ASSUME NEW n \in Nat
               PROVE  /\ Numbers(n) \in Seq(Nat) /\ Len(Numbers(n)) = n
                      /\ \A i \in 1..n : Numbers(n)[i] = i
                      /\ Numbers(n + 1) = Append(Numbers(n), n + 1)
    OBVIOUS
  <1>1. \A k \in Nat : /\ Numbers(k) \in Seq(Nat) /\ Len(Numbers(k)) = k
                       /\ \A i \in 1..k : Numbers(k)[i] = i
    BY DEF Numbers
  <1> DEFINE longer == Append(Numbers(n), n + 1)
  <1>2. /\ longer \in Seq(Nat) /\ Len(longer) = n + 1 /\ longer[n + 1] = n + 1
        /\ \A i \in 1..n : longer[i] = Numbers(n)[i]
    <2> DEFINE s == Numbers(n)
    <2>1. s \in Seq(Nat) /\ Len(s) = n /\ n + 1 \in Nat BY <1>1
    <2> HIDE DEF s
    <2>2. /\ Append(s, n + 1) \in Seq(Nat) /\ Len(Append(s, n + 1)) = Len(s) + 1
          /\ Append(s, n + 1)[Len(s) + 1] = n + 1
          /\ \A i \in 1..Len(s) : Append(s, n + 1)[i] = s[i]
      BY <2>1
    <2> QED BY <2>1, <2>2 DEF s
  <1>3. \A i \in 1..(n + 1) : longer[i] = Numbers(n + 1)[i]
    <2> SUFFICES ASSUME NEW i \in 1..(n + 1) PROVE longer[i] = Numbers(n + 1)[i] OBVIOUS
    <2>1. i = n + 1 \/ i \in 1..n OBVIOUS
    <2>2. Numbers(n + 1)[i] = i BY <1>1
    <2> QED BY <1>1, <1>2, <2>1, <2>2
  <1>4. Numbers(n + 1) \in Seq(Nat) /\ Len(Numbers(n + 1)) = n + 1 BY <1>1
  <1> HIDE DEF longer
  <1>5. longer = Numbers(n + 1) BY <1>2, <1>3, <1>4, SeqEqual
  <1> QED BY <1>1, <1>5 DEF longer

(* what was read in order is a whole body when it is as long               *)
LEMMA WholeBody ==
    ASSUME NEW n \in Nat, NEW s \in Seq(Nat), Len(s) = n, \A i \in 1..Len(s) : s[i] = i
    PROVE  s = Numbers(n)
  <1>1. /\ Numbers(n) \in Seq(Nat) /\ Len(Numbers(n)) = n
        /\ \A i \in 1..n : Numbers(n)[i] = i
    BY NumbersGrow
  <1> QED BY <1>1, SeqEqual

-----------------------------------------------------------------------------
(* The upload is delivered                                                 *)

(* the request comes before anything else                                  *)
First(queue, state) ==
    /\ state = "none" => queue # <<>> /\ Head(queue).type = "request"
    /\ \A i \in 1..Len(queue) : queue[i].type = "request" => i = 1 /\ state = "none"

(* what the worker read and has in its stream                              *)
InStream ==
    /\ \A i \in 1..Len(taken) : taken[i] = i
    /\ \A i \in 1..Len(buffer) : buffer[i] = Len(taken) + i

Upcoming == Len(taken) + Len(buffer) + 1

(* a part that was too big arrived, was not sent, and is the last one      *)
OnTheWay ==
    \E high \in {arrived, arrived - 1} :
        /\ leased \/ bodyDone => high = arrived
        /\ Row(toWorker, "body", Upcoming, high, bodyDone)

Way ==
    /\ First(toWorker, upload)
    /\ upload # "destroyed" => InStream
    /\ upload \in {"none", "open"} => OnTheWay
    /\ upload = "ended" => bodyDone /\ Len(taken) + Len(buffer) = arrived

OnlyUploads ==
    /\ upload # "none" => kind = "upload"
    /\ kind # "upload" => arrived = 0 /\ ~bodyDone
    /\ arrived <= Parts
    /\ bodyDone => arrived = Parts

WayInv == OnlyUploads /\ (process = "up" /\ kind = "upload" => Way)

-----------------------------------------------------------------------------
(* Queues of the upload                                                    *)

(* a message behind the request leaves it the first                        *)
LEMMA FirstAppended ==
    ASSUME NEW queue \in Seq(Message), NEW m \in Message, NEW state,
           First(queue, state), m.type # "request"
    PROVE  First(Append(queue, m), state)
  <1> DEFINE longer == Append(queue, m)
             n == Len(queue)
  <1>1. /\ n \in Nat /\ Len(longer) = n + 1 /\ longer[n + 1] = m
        /\ \A i \in 1..n : longer[i] = queue[i]
        /\ queue # <<>> => longer # <<>> /\ Head(longer) = Head(queue)
    BY QueueAppended
  <1> HIDE DEF longer, n
  <1>2. \A i \in 1..(n + 1) : i = n + 1 \/ (i \in 1..n /\ longer[i] = queue[i]) BY <1>1
  <1>3. \A i \in 1..n : queue[i].type = "request" => i = 1 /\ state = "none" BY DEF First, n
  <1>4. \A i \in 1..Len(longer) : longer[i].type = "request" => i = 1 /\ state = "none"
    BY <1>1, <1>2, <1>3
  <1>5. state = "none" => longer # <<>> /\ Head(longer).type = "request" BY <1>1 DEF First
  <1> QED BY <1>4, <1>5 DEF First, longer

(* only the request ends the time before it                                *)
LEMMA FirstTaken ==
    ASSUME NEW queue \in Seq(Message), queue # <<>>, NEW state, First(queue, state)
    PROVE  /\ state = "none" <=> Head(queue).type = "request"
           /\ \A later : later # "none" => First(Tail(queue), later)
  <1> DEFINE rest == Tail(queue)
             n == Len(queue) - 1
  <1>1. /\ n \in Nat /\ Len(queue) = n + 1 /\ Len(rest) = n /\ Head(queue) = queue[1]
        /\ \A i \in 1..n : rest[i] = queue[i + 1]
    BY QueueTaken
  <1> HIDE DEF rest, n
  <1>2. 1 \in 1..Len(queue) BY <1>1
  <1>3. state = "none" <=> Head(queue).type = "request" BY <1>1, <1>2 DEF First
  <1>4. \A i \in 1..n : i + 1 \in 1..Len(queue) /\ i + 1 # 1 BY <1>1
  <1>5. \A i \in 1..n : rest[i].type # "request" BY <1>1, <1>4 DEF First
  <1>6. \A later : later # "none" => First(rest, later) BY <1>1, <1>5 DEF First
  <1> QED BY <1>3, <1>6 DEF rest

-----------------------------------------------------------------------------
(* The invariant                                                           *)

(* nothing has arrived before the request is sent                          *)
LEMMA WayInitially == Init => WayInv
  <1> SUFFICES ASSUME Init PROVE WayInv OBVIOUS
  <1>1. Parts \in Nat BY SizesAssumption
  <1>2. OnlyUploads BY <1>1 DEF Init, OnlyUploads
  <1>3. ASSUME kind = "upload" PROVE Way
    <2>1. /\ toWorker = <<Msg("request")>> /\ upload = "none" /\ arrived = 0 /\ bodyDone = FALSE
          /\ buffer = <<>> /\ taken = <<>>
      BY <1>3 DEF Init
    <2>2. /\ Len(toWorker) = 1 /\ toWorker[1].type = "request" /\ toWorker # <<>>
          /\ Head(toWorker).type = "request" /\ Len(buffer) = 0 /\ Len(taken) = 0
      BY <2>1 DEF Msg
    <2>3. First(toWorker, upload) BY <2>1, <2>2 DEF First
    <2>4. InStream BY <2>2 DEF InStream
    <2>5. Upcoming = 1 BY <2>2 DEF Upcoming
    <2>6. Row(toWorker, "body", 1, 0, bodyDone) BY <2>2 DEF Row, IsPart, IsEnd
    <2>7. OnTheWay BY <2>1, <2>5, <2>6 DEF OnTheWay
    <2> QED BY <2>1, <2>3, <2>4, <2>7 DEF Way
  <1> QED BY <1>2, <1>3 DEF WayInv

(* the values of what is counted                                           *)
LEMMA WayTyped ==
    ASSUME PaceTypeOK
    PROVE  /\ arrived \in Nat /\ Parts \in Nat /\ bodyDone \in BOOLEAN
           /\ Len(buffer) \in Nat /\ Len(taken) \in Nat /\ Upcoming \in Nat
           /\ buffer \in Seq(Nat) /\ taken \in Seq(Nat)
           /\ toWorker \in Seq(Message)
           /\ upload \in {"none", "open", "ended", "destroyed"}
  BY SizesAssumption DEF PaceTypeOK, TypeOK, Upcoming

(* A step that the way of the body does not depend on: messages of         *)
(* something else, and at most the cut of the stream.                      *)
LEMMA WayQuiet ==
    ASSUME PaceInv, WayInv, UNCHANGED <<kind, arrived, bodyDone>>,
           process' = "up" => process = "up",
           upload' = upload \/ (upload = "open" /\ upload' = "destroyed"),
           (kind = "upload" /\ process' = "up") =>
               /\ UNCHANGED <<buffer, taken>> /\ (leased' => leased)
               /\ \/ toWorker' = toWorker
                  \/ \E m \in Message : /\ m.type \in {"abort", "ack", "refuse"}
                                        /\ toWorker' = Append(toWorker, m)
                  \/ /\ toWorker # <<>> /\ Head(toWorker).type \in {"abort", "ack", "refuse"}
                     /\ toWorker' = Tail(toWorker)
    PROVE  WayInv'
  <1>1. OnlyUploads' BY DEF WayInv, OnlyUploads
  <1>2. ASSUME process' = "up", kind' = "upload" PROVE Way'
    <2>1. Way /\ UNCHANGED <<buffer, taken>> /\ (leased' => leased) BY <1>2 DEF WayInv
    <2>2. Upcoming' = Upcoming BY <2>1 DEF Upcoming
    <2>3. /\ toWorker \in Seq(Message) /\ Upcoming \in Nat /\ arrived \in Nat
          /\ upload \in {"none", "open", "ended", "destroyed"}
      BY WayTyped DEF PaceInv
    <2>4. First(toWorker', upload) /\ \A high \in {arrived, arrived - 1} :
             Row(toWorker, "body", Upcoming, high, bodyDone) => Row(toWorker', "body", Upcoming, high, bodyDone)
      <3>1. First(toWorker, upload) BY <2>1 DEF Way
      <3>2. CASE toWorker' = toWorker BY <3>1, <3>2
      <3>3. ASSUME NEW m \in Message, m.type \in {"abort", "ack", "refuse"},
                   toWorker' = Append(toWorker, m)
            PROVE  First(toWorker', upload) /\ \A high \in {arrived, arrived - 1} :
                      Row(toWorker, "body", Upcoming, high, bodyDone)
                         => Row(toWorker', "body", Upcoming, high, bodyDone)
        <4>1. First(toWorker', upload) BY <2>3, <3>1, <3>3, FirstAppended
        <4>2. ASSUME NEW high \in {arrived, arrived - 1}, Row(toWorker, "body", Upcoming, high, bodyDone)
              PROVE  Row(toWorker', "body", Upcoming, high, bodyDone)
          <5>1. high \in Int /\ m.type # "body" BY <2>3, <3>3
          <5> QED BY <2>3, <3>3, <4>2, <5>1, RowAppended
        <4> QED BY <4>1, <4>2
      <3>4. CASE /\ toWorker # <<>> /\ Head(toWorker).type \in {"abort", "ack", "refuse"}
                 /\ toWorker' = Tail(toWorker)
        <4>1. First(toWorker', upload) BY <2>3, <3>1, <3>4, FirstTaken
        <4>2. ASSUME NEW high \in {arrived, arrived - 1}, Row(toWorker, "body", Upcoming, high, bodyDone)
              PROVE  Row(toWorker', "body", Upcoming, high, bodyDone)
          <5>1. high \in Int /\ Head(toWorker).type # "body" BY <2>3, <3>4
          <5> QED BY <2>3, <3>4, <4>2, <5>1, RowTaken
        <4> QED BY <4>1, <4>2
      <3> QED BY <1>2, <3>2, <3>3, <3>4
    <2>5. First(toWorker', upload') BY <2>4 DEF First
    <2>6. InStream => InStream' BY <2>1 DEF InStream
    <2>7. OnTheWay => OnTheWay' BY <2>1, <2>2, <2>4 DEF OnTheWay
    <2> QED BY <2>1, <2>3, <2>5, <2>6, <2>7 DEF Way
  <1> QED BY <1>1, <1>2 DEF WayInv

(* what Cleanup sends                                                      *)
LEMMA CleanupWay ==
    ASSUME Cleanup(toWorker)
    PROVE  /\ leased' => leased
           /\ \/ toWorker' = toWorker
              \/ \E m \in Message : /\ m.type \in {"abort", "ack", "refuse"}
                                    /\ toWorker' = Append(toWorker, m)
  <1>1. Msg("abort") \in Message /\ Msg("abort").type = "abort" BY MessagesTyped
  <1>2. toWorker' = toWorker \/ toWorker' = Append(toWorker, Msg("abort")) BY DEF Cleanup, Sent
  <1> QED BY <1>1, <1>2 DEF Cleanup

(* the steps that give the worker back                                     *)
LEMMA GivenBackWay ==
    ASSUME PaceInv, WayInv,
           \/ EmitAfterHandOff \/ RequestHandOffDone \/ HeadWritten
           \/ ConnectionSent \/ ConnectionNotSent \/ Finish \/ Closed \/ TimerFires
    PROVE  WayInv'
  <1>1. /\ UNCHANGED <<kind, arrived, bodyDone, upload, buffer, taken>>
        /\ process' = "up" => process = "up"
    <2>1. CASE EmitAfterHandOff \/ RequestHandOffDone
      BY <2>1 DEF EmitAfterHandOff, RequestHandOffDone, Receives, workerVars, readerVars
    <2>2. CASE HeadWritten
      BY <2>2 DEF HeadWritten, clientVars, uploadVars, workerVars, readerVars
    <2>3. CASE ConnectionSent \/ ConnectionNotSent \/ Finish
      BY <2>3 DEF ConnectionSent, ConnectionNotSent, Finish, clientVars, NotHanded, workerVars,
                  readerVars
    <2>4. CASE Closed \/ TimerFires
      BY <2>4 DEF Closed, TimerFires, NotHanded, workerVars, readerVars
    <2> QED BY <2>1, <2>2, <2>3, <2>4
  <1>2. (kind = "upload" /\ process' = "up") =>
           Cleanup(toWorker) \/ UNCHANGED <<leased, toWorker>>
    <2>1. CASE EmitAfterHandOff \/ HeadWritten
      BY <2>1 DEF EmitAfterHandOff, HeadWritten, PaceInv, NotHandedOver
    <2>2. CASE RequestHandOffDone BY <2>2 DEF RequestHandOffDone
    <2>3. CASE ConnectionSent \/ Finish BY <2>3 DEF ConnectionSent, Finish
    <2>4. CASE ConnectionNotSent \/ Closed
      BY <2>4 DEF ConnectionNotSent, Closed, workerVars
    <2>5. CASE TimerFires BY <2>5 DEF TimerFires, FailRequest
    <2> QED BY <2>1, <2>2, <2>3, <2>4, <2>5
  <1> QED BY <1>1, <1>2, CleanupWay, WayQuiet

(* the client takes of its response, or leaves                             *)
LEMMA ClientWay ==
    ASSUME PaceInv, WayInv, ClientTakes \/ WriteFails \/ ClientLeaves \/ SendConnection
    PROVE  WayInv'
  <1>1. UNCHANGED <<kind, arrived, bodyDone, upload, buffer, taken, process>>
    BY DEF ClientTakes, WriteFails, ClientLeaves, SendConnection, clientVars, uploadVars,
           workerVars, readerVars
  <1>2. \/ Cleanup(toWorker)
        \/ leased' = leased /\ toWorker' \in {toWorker, Sent(toWorker, Msg("ack"))}
    BY DEF ClientTakes, WriteFails, ClientLeaves, SendConnection, uploadVars, serverVars, Written
  <1>3. Msg("ack") \in Message /\ Msg("ack").type = "ack" BY MessagesTyped
  <1>4. CASE Cleanup(toWorker) BY <1>1, <1>4, CleanupWay, WayQuiet
  <1>5. CASE leased' = leased /\ toWorker' \in {toWorker, Sent(toWorker, Msg("ack"))}
    <2>1. toWorker' = toWorker \/ toWorker' = Append(toWorker, Msg("ack")) BY <1>5 DEF Sent
    <2> QED BY <1>1, <1>3, <1>5, <2>1, WayQuiet
  <1> QED BY <1>2, <1>4, <1>5

(* the server takes a message                                              *)
LEMMA ReportWay ==
    ASSUME PaceInv, WayInv, ServerDrops \/ BodyTaken \/ Respond \/ Emit \/ StartHandOff
    PROVE  WayInv'
  <1>1. UNCHANGED <<kind, arrived, bodyDone, upload, buffer, taken, process, leased>>
    BY DEF ServerDrops, BodyTaken, Respond, Emit, StartHandOff, Receives, serverVars, workerVars,
           readerVars
  <1>2. toWorker' \in {toWorker, Sent(toWorker, Msg("ack")), Sent(toWorker, Msg("refuse"))}
    BY DEF ServerDrops, BodyTaken, Respond, Emit, StartHandOff
  <1>3. /\ Msg("ack") \in Message /\ Msg("ack").type = "ack"
        /\ Msg("refuse") \in Message /\ Msg("refuse").type = "refuse"
    BY MessagesTyped
  <1>4. \/ toWorker' = toWorker
        \/ \E m \in Message : /\ m.type \in {"abort", "ack", "refuse"}
                              /\ toWorker' = Append(toWorker, m)
    BY <1>2, <1>3 DEF Sent
  <1> QED BY <1>1, <1>4, WayQuiet

(* the worker takes a message that is not of the body, or a connection, or *)
(* goes on with its answer, or ends                                        *)
LEMMA WorkerWay ==
    ASSUME PaceInv, WayInv,
           \/ Acknowledged \/ AbortRequest \/ Refused \/ ReceiveConnection
           \/ SendResponse \/ AskForConnection \/ StreamPart \/ StreamEnd \/ StreamSettled
           \/ WriteToSocket \/ Return \/ Throw \/ CloseSocket \/ Exit
    PROVE  WayInv'
  <1>1. CASE Acknowledged \/ AbortRequest \/ Refused
    <2>1. /\ UNCHANGED <<kind, arrived, bodyDone, buffer, taken, process, leased>>
          /\ upload' = upload \/ (upload = "open" /\ upload' = "destroyed")
          /\ toWorker # <<>> /\ toWorker' = Tail(toWorker)
          /\ Head(toWorker).type \in {"abort", "ack", "refuse"}
      BY <1>1 DEF Acknowledged, AbortRequest, Refused, DestroyUpload, Gets, clientVars, uploadVars,
                  serverVars, readerVars
    <2> QED BY <2>1, WayQuiet
  <1>2. CASE ReceiveConnection \/ CloseSocket \/ Exit
    <2>1. /\ UNCHANGED <<kind, arrived, bodyDone, upload, buffer, taken, leased, toWorker>>
          /\ process' = "up" => process = "up"
      BY <1>2 DEF ReceiveConnection, CloseSocket, Exit, uploadVars, serverVars, readerVars
    <2> QED BY <2>1, WayQuiet
  <1>3. CASE \/ SendResponse \/ AskForConnection \/ StreamPart \/ StreamEnd \/ StreamSettled
             \/ WriteToSocket \/ Return \/ Throw
    <2>1. /\ UNCHANGED <<kind, arrived, bodyDone, buffer, taken, leased, toWorker, process>>
          /\ upload' = upload \/ (upload = "open" /\ upload' = "destroyed")
      BY <1>3 DEF SendResponse, AskForConnection, StreamPart, StreamEnd, StreamSettled,
                  WriteToSocket, Return, Throw, DestroyUpload, Works, uploadVars, serverVars,
                  readerVars
    <2> QED BY <2>1, WayQuiet
  <1> QED BY <1>1, <1>2, <1>3

(* a part is read from the client, or refused                              *)
LEMMA UploadPartWay == ASSUME PaceInv, PaceInv', WayInv, UploadPart PROVE WayInv'
  <1>1. /\ kind = "upload" /\ leased /\ arrived < Parts /\ arrived' = arrived + 1
        /\ UNCHANGED <<kind, bodyDone, handing, giving, process, upload, buffer, taken>>
    BY DEF UploadPart, NotHanded, workerVars, readerVars
  <1>2. /\ arrived \in Nat /\ Parts \in Nat /\ toWorker \in Seq(Message) /\ Upcoming \in Nat
        /\ bodyDone \in BOOLEAN
    BY WayTyped DEF PaceInv
  <1>3. ~bodyDone BY <1>1, <1>2 DEF WayInv, OnlyUploads
  <1>4. OnlyUploads'
    <2>1. arrived' <= Parts BY <1>1, <1>2
    <2> QED BY <1>1, <1>3, <2>1 DEF WayInv, OnlyUploads
  <1>5. ASSUME process = "up" PROVE Way'
    <2>1. Way BY <1>1, <1>5 DEF WayInv
    <2>2. Upcoming' = Upcoming BY <1>1 DEF Upcoming
    <2>3. upload # "ended" BY <1>3, <2>1 DEF Way
    <2>4. InStream => InStream' BY <1>1 DEF InStream
    <2>5. ASSUME OnTheWay PROVE Row(toWorker, "body", Upcoming, arrived, bodyDone)
      BY <1>1, <2>5 DEF OnTheWay
    <2>6. CASE FailRequest
      <3>1. Cleanup(toWorker) BY <2>6 DEF FailRequest
      <3>2. ~leased'
        <4>1. ~IsActive' BY <1>1 DEF PaceInv, NotHandedOver, IsActive
        <4> QED BY <3>1, <4>1, CleanupPace DEF PaceInv
      <3>3. toWorker' = toWorker \/ toWorker' = Append(toWorker, Msg("abort"))
        BY <3>1 DEF Cleanup, Sent
      <3>4. Msg("abort") \in Message /\ Msg("abort").type = "abort" BY MessagesTyped
      <3>5. First(toWorker', upload') BY <1>1, <1>2, <2>1, <3>3, <3>4, FirstAppended DEF Way
      <3>6. ASSUME OnTheWay PROVE OnTheWay'
        <4>1. arrived \in Int /\ Msg("abort").type # "body" BY <1>2, <3>4
        <4>2. Row(toWorker', "body", Upcoming, arrived, bodyDone)
          BY <1>2, <2>5, <3>3, <3>4, <3>6, <4>1, RowAppended
        <4>3. arrived = arrived' - 1 BY <1>1, <1>2
        <4> QED BY <1>1, <1>3, <2>2, <3>2, <4>2, <4>3 DEF OnTheWay
      <3> QED BY <1>1, <2>1, <2>3, <2>4, <3>5, <3>6 DEF Way
    <2>7. CASE toWorker' = Sent(toWorker, [type |-> "body", part |-> arrived'])
      <3> DEFINE m == [type |-> "body", part |-> arrived']
      <3>1. toWorker' = Append(toWorker, m) BY <1>5, <2>7 DEF Sent
      <3>2. m \in Message /\ IsPart(m, "body") /\ m.part = arrived + 1 /\ m.type # "request"
        BY <1>1, <1>2 DEF Message, IsPart
      <3> HIDE DEF m
      <3>3. First(toWorker', upload') BY <1>1, <1>2, <2>1, <3>1, <3>2, FirstAppended DEF Way
      <3>4. ASSUME OnTheWay PROVE OnTheWay'
        <4>1. arrived \in Int BY <1>2
        <4>2. Row(toWorker', "body", Upcoming, arrived + 1, bodyDone)
          BY <1>2, <1>3, <2>5, <3>1, <3>2, <3>4, <4>1, RowAppended
        <4> QED BY <1>1, <2>2, <4>2 DEF OnTheWay
      <3> QED BY <1>1, <2>1, <2>3, <2>4, <3>3, <3>4 DEF Way
    <2> QED BY <2>6, <2>7 DEF UploadPart
  <1> QED BY <1>1, <1>4, <1>5 DEF WayInv

(* the end of the body is read                                             *)
LEMMA UploadEndWay == ASSUME PaceInv, WayInv, UploadEnd PROVE WayInv'
  <1>1. /\ kind = "upload" /\ leased /\ arrived = Parts /\ ~bodyDone /\ bodyDone' = TRUE
        /\ toWorker' = Sent(toWorker, Msg("body"))
        /\ UNCHANGED <<kind, leased, arrived, process, upload, buffer, taken>>
    BY DEF UploadEnd, clientVars, serverVars, workerVars, readerVars
  <1>2. /\ arrived \in Nat /\ arrived \in Int /\ toWorker \in Seq(Message) /\ Upcoming \in Nat
    BY WayTyped DEF PaceInv
  <1>3. OnlyUploads' BY <1>1 DEF WayInv, OnlyUploads
  <1>4. ASSUME process = "up" PROVE Way'
    <2>1. Way /\ upload # "ended" BY <1>1, <1>4 DEF WayInv, Way
    <2>2. Upcoming' = Upcoming BY <1>1 DEF Upcoming
    <2>3. Msg("body") \in Message /\ IsEnd(Msg("body"), "body") /\ Msg("body").type # "request"
      BY DEF Msg, Message, IsEnd
    <2>4. toWorker' = Append(toWorker, Msg("body")) BY <1>1, <1>4 DEF Sent
    <2>5. First(toWorker', upload') BY <1>1, <1>2, <2>1, <2>3, <2>4, FirstAppended DEF Way
    <2>6. InStream => InStream' BY <1>1 DEF InStream
    <2>7. ASSUME OnTheWay PROVE OnTheWay'
      <3>1. Row(toWorker, "body", Upcoming, arrived, bodyDone) BY <1>1, <2>7 DEF OnTheWay
      <3>2. Row(toWorker, "body", Upcoming, arrived, FALSE)
        <4>1. bodyDone = FALSE BY <1>1, WayTyped DEF PaceInv
        <4> QED BY <3>1, <4>1
      <3>3. Row(toWorker', "body", Upcoming, arrived, TRUE)
        BY <1>2, <2>3, <2>4, <3>2, RowEnded
      <3> QED BY <1>1, <2>2, <3>3 DEF OnTheWay
    <2> QED BY <1>1, <2>1, <2>5, <2>6, <2>7 DEF Way
  <1> QED BY <1>1, <1>3, <1>4 DEF WayInv

(* the worker takes the request                                            *)
LEMMA StartRequestWay == ASSUME PaceInv, WayInv, StartRequest PROVE WayInv'
  <1>1. /\ toWorker # <<>> /\ Head(toWorker).type = "request" /\ toWorker' = Tail(toWorker)
        /\ process = "up" /\ upload' = IF kind = "upload" THEN "open" ELSE "none"
        /\ UNCHANGED <<kind, leased, arrived, bodyDone, process, buffer, taken>>
    BY DEF StartRequest, Gets, clientVars, uploadVars, serverVars
  <1>2. OnlyUploads' BY <1>1 DEF WayInv, OnlyUploads
  <1>3. ASSUME kind = "upload" PROVE Way'
    <2>1. Way BY <1>1, <1>3 DEF WayInv
    <2>2. toWorker \in Seq(Message) /\ Upcoming \in Nat /\ arrived \in Nat
      BY WayTyped DEF PaceInv
    <2>3. upload = "none" /\ First(toWorker', upload')
      BY <1>1, <1>3, <2>1, <2>2, FirstTaken DEF Way
    <2>4. InStream' /\ OnTheWay BY <1>1, <2>1, <2>3 DEF Way, InStream
    <2>5. PICK high \in {arrived, arrived - 1} :
             (leased \/ bodyDone => high = arrived) /\ Row(toWorker, "body", Upcoming, high, bodyDone)
      BY <2>4 DEF OnTheWay
    <2>6. Row(toWorker', "body", Upcoming, high, bodyDone)
      <3>1. high \in Int BY <2>2
      <3> QED BY <1>1, <2>2, <2>5, <3>1, RowTaken
    <2>7. Upcoming' = Upcoming BY <1>1 DEF Upcoming
    <2>8. OnTheWay' BY <1>1, <2>5, <2>6, <2>7 DEF OnTheWay
    <2> QED BY <1>1, <1>3, <2>3, <2>4, <2>8 DEF Way
  <1> QED BY <1>1, <1>2, <1>3 DEF WayInv

(* The worker takes a part, which is the next of the body, or the end,     *)
(* before which no part is missing.                                        *)
LEMMA BodyPartWay == ASSUME PaceInv, PaceInv', WayInv, BodyPart PROVE WayInv'
  <1> DEFINE part == Head(toWorker).part
  <1>1. /\ process = "up" /\ toWorker # <<>> /\ Head(toWorker).type = "body"
        /\ toWorker' = Tail(toWorker)
        /\ upload' = IF upload = "open" /\ part = 0 THEN "ended" ELSE upload
        /\ upload = "open" /\ part # 0 => buffer' = Append(buffer, part)
        /\ upload # "open" \/ part = 0 => buffer' = buffer
        /\ UNCHANGED <<kind, leased, arrived, bodyDone, process, taken>>
    BY DEF BodyPart, Gets, clientVars, uploadVars, serverVars
  <1>2. OnlyUploads' BY <1>1 DEF WayInv, OnlyUploads
  <1>3. ASSUME kind = "upload" PROVE Way'
    <2>1. Way BY <1>1, <1>3 DEF WayInv
    <2>2. /\ toWorker \in Seq(Message) /\ Upcoming \in Nat /\ arrived \in Nat
          /\ Len(buffer) \in Nat /\ Len(taken) \in Nat /\ buffer \in Seq(Nat)
          /\ upload \in {"none", "open", "ended", "destroyed"}
      BY WayTyped DEF PaceInv
    <2>3. upload # "none" BY <1>1, <2>1, <2>2, FirstTaken DEF Way
    <2>4. First(toWorker', upload') BY <1>1, <2>1, <2>2, <2>3, FirstTaken DEF Way
    <2>5. CASE upload # "open"
      <3>1. UNCHANGED <<upload, buffer, taken>> BY <1>1, <2>5
      <3>2. InStream => InStream' BY <3>1 DEF InStream
      <3> QED BY <1>1, <2>1, <2>2, <2>3, <2>4, <2>5, <3>1, <3>2 DEF Way
    <2>6. CASE upload = "open"
      <3>1. InStream /\ OnTheWay BY <2>1, <2>6 DEF Way
      <3>2. PICK high \in {arrived, arrived - 1} :
               (leased \/ bodyDone => high = arrived) /\ Row(toWorker, "body", Upcoming, high, bodyDone)
        BY <3>1 DEF OnTheWay
      <3>3. high \in Int BY <2>2
      <3>4. CASE part = 0
        <4>1. IsEnd(Head(toWorker), "body") BY <1>1, <3>4 DEF IsEnd
        <4>2. bodyDone /\ Upcoming = high + 1
          <5> DEFINE done == bodyDone
          <5>1. Row(toWorker, "body", Upcoming, high, done) BY <3>2
          <5> HIDE DEF done
          <5>2. IsEnd(Head(toWorker), "body") =>
                      done /\ Upcoming = high + 1 /\ ~Has(Tail(toWorker), "body")
            BY <1>1, <2>2, <3>3, <5>1, RowTaken
          <5>3. done /\ Upcoming = high + 1 BY <4>1, <5>2
          <5> QED BY <5>3 DEF done
        <4>3. high = arrived BY <3>2, <4>2
        <4>4. Len(taken) + Len(buffer) = arrived BY <2>2, <4>2, <4>3 DEF Upcoming
        <4>5. upload' = "ended" /\ UNCHANGED <<buffer, taken>> BY <1>1, <2>6, <3>4
        <4>6. InStream' BY <3>1, <4>5 DEF InStream
        <4> QED BY <1>1, <2>4, <4>2, <4>4, <4>5, <4>6 DEF Way
      <3>5. CASE part # 0
        <4>1. IsPart(Head(toWorker), "body") BY <1>1, <3>5 DEF IsPart
        <4>2. part = Upcoming /\ Row(toWorker', "body", Upcoming + 1, high, bodyDone)
          BY <1>1, <2>2, <3>2, <3>3, <4>1, RowTaken
        <4>3. buffer' = Append(buffer, Upcoming) /\ upload' = "open" /\ taken' = taken
          BY <1>1, <2>6, <3>5, <4>2
        <4>4. /\ Len(buffer') = Len(buffer) + 1 /\ buffer'[Len(buffer) + 1] = Upcoming
              /\ \A i \in 1..Len(buffer) : buffer'[i] = buffer[i]
          BY <2>2, <4>3
        <4>5. Upcoming' = Upcoming + 1 BY <2>2, <4>3, <4>4 DEF Upcoming
        <4>6. OnTheWay' BY <1>1, <3>2, <4>2, <4>5 DEF OnTheWay
        <4>7. InStream'
          <5>1. \A i \in 1..Len(taken') : taken'[i] = i BY <3>1, <4>3 DEF InStream
          <5>2. ASSUME NEW i \in 1..(Len(buffer) + 1) PROVE buffer'[i] = Len(taken) + i
            <6>1. CASE i = Len(buffer) + 1 BY <2>2, <4>4, <6>1 DEF Upcoming
            <6>2. CASE i \in 1..Len(buffer) BY <3>1, <4>4, <6>2 DEF InStream
            <6> QED BY <2>2, <6>1, <6>2
          <5> QED BY <4>3, <4>4, <5>1, <5>2 DEF InStream
        <4> QED BY <2>4, <4>3, <4>6, <4>7 DEF Way
      <3> QED BY <3>4, <3>5
    <2> QED BY <2>5, <2>6
  <1> QED BY <1>1, <1>2, <1>3 DEF WayInv

(* the worker reads the first part of its stream                           *)
LEMMA ReadBodyTakes ==
    ASSUME PaceInv, WayInv, ReadBody
    PROVE  /\ process = "up" /\ kind = "upload" /\ upload \in {"open", "ended"} /\ Way /\ InStream
           /\ Len(taken) < arrived
           /\ taken' = Append(taken, Len(taken) + 1)
           /\ Len(taken') = Len(taken) + 1 /\ Len(buffer') = Len(buffer) - 1
           /\ \A i \in 1..Len(taken') : taken'[i] = i
           /\ \A i \in 1..Len(buffer') : buffer'[i] = Len(taken') + i
  <1>1. /\ process = "up" /\ upload \in {"open", "ended"} /\ buffer # <<>>
        /\ buffer' = Tail(buffer) /\ taken' = Append(taken, Head(buffer))
    BY DEF ReadBody, Works
  <1>2. kind = "upload" /\ Way BY <1>1 DEF WayInv, OnlyUploads
  <1>3. InStream BY <1>1, <1>2 DEF Way
  <1>4. /\ arrived \in Nat /\ buffer \in Seq(Nat) /\ taken \in Seq(Nat)
        /\ Len(buffer) \in Nat /\ Len(taken) \in Nat /\ Upcoming \in Nat
    BY WayTyped DEF PaceInv
  <1>5. /\ Len(buffer) \in Nat \ {0} /\ Len(buffer') = Len(buffer) - 1
        /\ Head(buffer) = buffer[1] /\ \A i \in 1..(Len(buffer) - 1) : buffer'[i] = buffer[i + 1]
    <2>1. Len(buffer) # 0 BY <1>1, <1>4, EmptySeq
    <2> QED BY <1>1, <1>4, <2>1, HeadTailProperties
  <1>6. Head(buffer) = Len(taken) + 1 BY <1>3, <1>4, <1>5 DEF InStream
  <1>7. /\ Len(taken') = Len(taken) + 1 /\ taken'[Len(taken) + 1] = Len(taken) + 1
        /\ \A i \in 1..Len(taken) : taken'[i] = taken[i]
    BY <1>1, <1>4, <1>6
  <1>8. \A i \in 1..Len(taken') : taken'[i] = i
    <2> SUFFICES ASSUME NEW i \in 1..(Len(taken) + 1) PROVE taken'[i] = i BY <1>7
    <2>1. i = Len(taken) + 1 \/ i \in 1..Len(taken) BY <1>4
    <2> QED BY <1>3, <1>7, <2>1 DEF InStream
  <1>9. \A i \in 1..Len(buffer') : buffer'[i] = Len(taken') + i
    <2> SUFFICES ASSUME NEW i \in 1..(Len(buffer) - 1) PROVE buffer'[i] = Len(taken) + 1 + i
      BY <1>5, <1>7
    <2>1. i + 1 \in 1..Len(buffer) BY <1>4
    <2>2. buffer'[i] = Len(taken) + (i + 1) BY <1>3, <1>5, <2>1 DEF InStream
    <2> QED BY <1>4, <2>2
  <1>10. Len(taken) < arrived
    <2>1. CASE upload = "ended" BY <1>2, <1>4, <1>5, <2>1 DEF Way
    <2>2. CASE upload = "open"
      <3>1. PICK high \in {arrived, arrived - 1} : Row(toWorker, "body", Upcoming, high, bodyDone)
        BY <1>2, <2>2 DEF Way, OnTheWay
      <3>2. Upcoming <= high + 1 BY <3>1 DEF Row
      <3> QED BY <1>4, <1>5, <3>2 DEF Upcoming
    <2> QED BY <1>1, <2>1, <2>2
  <1> QED BY <1>1, <1>2, <1>3, <1>5, <1>6, <1>7, <1>8, <1>9, <1>10

(* a part that is read leaves the stream and joins those read              *)
LEMMA ReadBodyWay == ASSUME PaceInv, WayInv, ReadBody PROVE WayInv'
  <1>1. UNCHANGED <<kind, leased, arrived, bodyDone, process, toWorker, upload>>
    BY DEF ReadBody, Works, uploadVars, serverVars
  <1>2. /\ upload \in {"open", "ended"} /\ Way
        /\ Len(taken') = Len(taken) + 1 /\ Len(buffer') = Len(buffer) - 1
        /\ \A i \in 1..Len(taken') : taken'[i] = i
        /\ \A i \in 1..Len(buffer') : buffer'[i] = Len(taken') + i
    BY ReadBodyTakes
  <1>3. Len(buffer) \in Nat /\ Len(taken) \in Nat BY WayTyped DEF PaceInv
  <1>4. Len(taken') + Len(buffer') = Len(taken) + Len(buffer) BY <1>2, <1>3
  <1>5. Upcoming' = Upcoming BY <1>4 DEF Upcoming
  <1>6. InStream' BY <1>2 DEF InStream
  <1>7. OnTheWay => OnTheWay' BY <1>1, <1>5 DEF OnTheWay
  <1>8. Way' BY <1>1, <1>2, <1>4, <1>6, <1>7 DEF Way
  <1>9. OnlyUploads' BY <1>1 DEF WayInv, OnlyUploads
  <1> QED BY <1>8, <1>9 DEF WayInv

(* WayInv is inductive, one case for each step                             *)
LEMMA WayStep == PaceInv /\ PaceInv' /\ WayInv /\ [Next]_all => WayInv'
  <1> SUFFICES ASSUME PaceInv, PaceInv', WayInv, [Next]_all PROVE WayInv' OBVIOUS
  <1>1. CASE UNCHANGED all
    <2>1. UNCHANGED <<kind, arrived, bodyDone, process, upload, buffer, taken, leased, toWorker>>
      BY <1>1 DEF all, vars, clientVars, uploadVars, serverVars, wires, workerVars, readerVars
    <2> QED BY <2>1, WayQuiet
  <1>2. CASE ReadHandedBody
    <2>1. UNCHANGED <<kind, arrived, bodyDone, process, upload>> /\ kind = "give"
      BY <1>2 DEF ReadHandedBody, Works, uploadVars
    <2> QED BY <2>1 DEF WayInv, OnlyUploads
  <1>3. CASE Step /\ ~ReadHandedBody
    <2>1. CASE UploadPart \/ UploadEnd BY <2>1, UploadPartWay, UploadEndWay
    <2>2. CASE ServerDrops \/ BodyTaken \/ Respond \/ Emit \/ StartHandOff BY <2>2, ReportWay
    <2>3. CASE \/ EmitAfterHandOff \/ RequestHandOffDone \/ HeadWritten
               \/ ConnectionSent \/ ConnectionNotSent \/ Finish \/ Closed \/ TimerFires
      BY <2>3, GivenBackWay
    <2>4. CASE StartRequest \/ BodyPart \/ ReadBody
      BY <2>4, StartRequestWay, BodyPartWay, ReadBodyWay
    <2>5. CASE \/ Acknowledged \/ AbortRequest \/ Refused \/ ReceiveConnection
               \/ SendResponse \/ AskForConnection \/ StreamPart \/ StreamEnd \/ StreamSettled
               \/ WriteToSocket \/ Return \/ Throw \/ CloseSocket \/ Exit
      BY <2>5, WorkerWay
    <2>6. CASE ClientTakes \/ WriteFails \/ ClientLeaves \/ SendConnection BY <2>6, ClientWay
    <2> QED BY <1>3, <2>1, <2>2, <2>3, <2>4, <2>5, <2>6
            DEF Step, ServerStep, SessionStep, WorkerStep
  <1> QED BY <1>1, <1>2, <1>3 DEF Next

-----------------------------------------------------------------------------
(* The refinement                                                          *)

Outcome == IF upload = "ended" /\ buffer = <<>> THEN "complete"
           ELSE IF upload = "destroyed" \/ process # "up" THEN "cut"
           ELSE "open"

Read == IF kind = "give" THEN <<>> ELSE taken

(* the variables of Delivery, as Upload maps them                          *)
LEMMA UploadVars == Upload!vars = <<Numbers(arrived), bodyDone, Read, Outcome>>
  BY DEF Upload!vars, Read, Outcome

(* the exchange begins like Delivery                                       *)
LEMMA UploadStart == Init => Upload!Init
  <1> SUFFICES ASSUME Init PROVE Upload!Init OBVIOUS
  <1>1. /\ arrived = 0 /\ bodyDone = FALSE /\ taken = <<>> /\ upload = "none" /\ process = "up"
    BY DEF Init
  <1>2. Numbers(arrived) = <<>> BY <1>1 DEF Numbers
  <1>3. Read = <<>> /\ Outcome = "open" BY <1>1 DEF Read, Outcome
  <1> QED BY <1>1, <1>2, <1>3 DEF Upload!Init, Read, Outcome

(* a step of something else, or the cut                                    *)
LEMMA UploadStutters ==
    ASSUME UNCHANGED <<kind, arrived, bodyDone>>, Read' = Read,
           Outcome' = Outcome \/ (Outcome = "open" /\ Outcome' = "cut")
    PROVE  [Upload!Next]_(Upload!vars)
  <1>1. Numbers(arrived)' = Numbers(arrived) BY DEF Numbers
  <1>2. CASE Outcome' = Outcome
    <2>1. UNCHANGED Upload!vars BY <1>1, <1>2, UploadVars DEF Read, Outcome, Upload!vars
    <2> QED BY <2>1
  <1>3. CASE Outcome = "open" /\ Outcome' = "cut"
    <2>1. Upload!Cut BY <1>1, <1>3 DEF Upload!Cut, Read, Outcome
    <2> QED BY <2>1 DEF Upload!Next
  <1> QED BY <1>2, <1>3

(* a part that arrives is given                                            *)
LEMMA UploadPartGives == ASSUME PaceInv, WayInv, UploadPart PROVE Upload!Next
  <1>1. /\ kind = "upload" /\ arrived < Parts /\ arrived' = arrived + 1
        /\ UNCHANGED <<kind, bodyDone, process, upload, buffer, taken>>
    BY DEF UploadPart, workerVars, readerVars
  <1>2. arrived \in Nat /\ Parts \in Nat /\ bodyDone \in BOOLEAN BY WayTyped DEF PaceInv
  <1>3. ~bodyDone BY <1>1, <1>2 DEF WayInv, OnlyUploads
  <1>4. Numbers(arrived') = Append(Numbers(arrived), arrived + 1) /\ arrived + 1 \in 1..Parts
    <2>1. Numbers(arrived + 1) = Append(Numbers(arrived), arrived + 1)
      BY <1>2, NumbersGrow, Zenon
    <2>2. arrived + 1 \in 1..Parts BY <1>1, <1>2
    <2> QED BY <1>1, <2>1, <2>2
  <1>5. Upload!Give BY <1>1, <1>2, <1>3, <1>4 DEF Upload!Give
  <1> QED BY <1>5 DEF Upload!Next

(* the end of the body ends what is given                                  *)
LEMMA UploadEndEnds == ASSUME UploadEnd PROVE Upload!Next
  <1>1. /\ ~bodyDone /\ bodyDone' = TRUE
        /\ UNCHANGED <<kind, arrived, process, upload, buffer, taken>>
    BY DEF UploadEnd, clientVars, workerVars, readerVars
  <1>2. Upload!End BY <1>1 DEF Upload!End, Numbers
  <1> QED BY <1>2 DEF Upload!Next

(* a part that is read is taken                                            *)
LEMMA ReadBodyIsTake == ASSUME PaceInv, WayInv, ReadBody PROVE Upload!Next
  <1>1. UNCHANGED <<kind, arrived, bodyDone, process, upload>>
    BY DEF ReadBody, Works, uploadVars
  <1>2. buffer # <<>> /\ buffer' = Tail(buffer) BY DEF ReadBody
  <1>3. /\ process = "up" /\ kind = "upload" /\ upload \in {"open", "ended"} /\ Way
        /\ Len(taken) < arrived
        /\ taken' = Append(taken, Len(taken) + 1)
        /\ Len(taken') = Len(taken) + 1 /\ Len(buffer') = Len(buffer) - 1
        /\ \A i \in 1..Len(taken') : taken'[i] = i
    BY ReadBodyTakes
  <1>4. /\ arrived \in Nat /\ Len(taken) \in Nat /\ Len(buffer) \in Nat /\ taken \in Seq(Nat)
        /\ bodyDone \in BOOLEAN
    BY WayTyped DEF PaceInv
  <1>5. Outcome = "open" /\ Read = taken /\ Read' = taken' BY <1>1, <1>2, <1>3 DEF Outcome, Read
  <1>6. /\ Len(Numbers(arrived)) = arrived
        /\ Numbers(arrived)[Len(taken) + 1] = Len(taken) + 1
    <2>1. Len(taken) + 1 \in 1..arrived BY <1>3, <1>4
    <2>2. Len(Numbers(arrived)) = arrived /\ \A i \in 1..arrived : Numbers(arrived)[i] = i
      BY <1>4, NumbersGrow
    <2> QED BY <2>1, <2>2
  <1>7. Outcome' = "open" \/ (Outcome' = "complete" /\ bodyDone /\ taken' = Numbers(arrived))
    <2>1. CASE upload' = "ended" /\ buffer' = <<>>
      <3>1. bodyDone /\ Len(taken) + Len(buffer) = arrived BY <1>1, <1>3, <2>1 DEF Way
      <3>2. Len(buffer') = 0 BY <2>1
      <3>3. Len(taken') = arrived
        <4>1. Len(taken') = Len(taken) + 1 /\ Len(buffer') = Len(buffer) - 1 BY <1>3
        <4>2. Len(buffer) = 1 BY <1>4, <3>2, <4>1
        <4> QED BY <3>1, <4>1, <4>2
      <3>4. taken' \in Seq(Nat) BY <1>3, <1>4
      <3>5. taken' = Numbers(arrived) BY <1>3, <1>4, <3>3, <3>4, WholeBody
      <3> QED BY <2>1, <3>1, <3>5 DEF Outcome
    <2>2. CASE ~(upload' = "ended" /\ buffer' = <<>>) BY <1>1, <1>3, <2>2 DEF Outcome
    <2> QED BY <2>1, <2>2
  <1>8. Numbers(arrived)' = Numbers(arrived) BY <1>1 DEF Numbers
  <1>9. Upload!Take
    BY <1>1, <1>3, <1>5, <1>6, <1>7, <1>8 DEF Upload!Take, Outcome, Read
  <1> QED BY <1>9 DEF Upload!Next

(* the end of the stream completes the body                                *)
LEMMA BodyPartCompletes ==
    ASSUME PaceInv, PaceInv', WayInv, WayInv', BodyPart
    PROVE  [Upload!Next]_(Upload!vars)
  <1>1. /\ process = "up"
        /\ upload' = upload \/ (upload = "open" /\ upload' = "ended")
        /\ upload' # upload \/ upload # "open" => buffer' = buffer
        /\ UNCHANGED <<kind, arrived, bodyDone, process, taken>>
    BY DEF BodyPart, Gets, clientVars, uploadVars
  <1>2. Read' = Read BY <1>1 DEF Read
  <1>3. CASE upload' = upload
    <2>1. Outcome' = Outcome BY <1>1, <1>3 DEF Outcome
    <2> QED BY <1>1, <1>2, <2>1, UploadStutters
  <1>4. CASE upload = "open" /\ upload' = "ended" /\ buffer # <<>>
    <2>1. Outcome' = Outcome BY <1>1, <1>4 DEF Outcome
    <2> QED BY <1>1, <1>2, <2>1, UploadStutters
  <1>5. CASE upload = "open" /\ upload' = "ended" /\ buffer = <<>>
    <2>1. kind = "upload" /\ Way'
      <3>1. kind = "upload" BY <1>5 DEF WayInv, OnlyUploads
      <3>2. kind' = "upload" /\ process' = "up" BY <1>1, <3>1
      <3> QED BY <3>1, <3>2 DEF WayInv
    <2>2. Outcome = "open" /\ Outcome' = "complete"
      <3>1. upload' = "ended" /\ buffer' = <<>> BY <1>1, <1>5
      <3>2. upload = "open" /\ process = "up" BY <1>1, <1>5
      <3> QED BY <3>1, <3>2 DEF Outcome
    <2>3. /\ bodyDone = TRUE /\ taken = Numbers(arrived)
      <3>1. bodyDone' /\ Len(taken') + Len(buffer') = arrived' /\ InStream'
        BY <1>5, <2>1 DEF Way
      <3>2. Len(buffer') = 0 BY <1>1, <1>5
      <3>3. taken \in Seq(Nat) /\ arrived \in Nat /\ bodyDone \in BOOLEAN
        BY WayTyped DEF PaceInv
      <3>4. Len(taken) = arrived /\ \A i \in 1..Len(taken) : taken[i] = i
        BY <1>1, <3>1, <3>2, <3>3 DEF InStream
      <3> QED BY <1>1, <3>1, <3>3, <3>4, WholeBody
    <2>4. Numbers(arrived)' = Numbers(arrived) BY <1>1 DEF Numbers
    <2>5. Upload!Complete
      BY <1>1, <2>1, <2>2, <2>3, <2>4 DEF Upload!Complete, Outcome
    <2> QED BY <2>5 DEF Upload!Next
  <1> QED BY <1>1, <1>3, <1>4, <1>5

(* every step of the exchange is a step of Delivery or a stutter           *)
LEMMA UploadStep ==
    PaceInv /\ PaceInv' /\ WayInv /\ WayInv' /\ [Next]_all => [Upload!Next]_(Upload!vars)
  <1> SUFFICES ASSUME PaceInv, PaceInv', WayInv, WayInv', [Next]_all
               PROVE  [Upload!Next]_(Upload!vars)
    OBVIOUS
  <1>1. CASE UNCHANGED all
    <2>1. UNCHANGED <<kind, arrived, bodyDone, process, upload, buffer, taken>>
      BY <1>1 DEF all, vars, clientVars, uploadVars, workerVars, readerVars
    <2>2. Read' = Read /\ Outcome' = Outcome BY <2>1 DEF Read, Outcome
    <2> QED BY <2>1, <2>2, UploadStutters
  <1>2. CASE UploadPart \/ UploadEnd \/ ReadBody
    BY <1>2, UploadPartGives, UploadEndEnds, ReadBodyIsTake
  <1>3. CASE BodyPart BY <1>3, BodyPartCompletes
  <1>4. CASE ReadHandedBody
    <2>1. UNCHANGED <<kind, arrived, bodyDone, process, upload, buffer>> /\ kind = "give"
      BY <1>4 DEF ReadHandedBody, Works, uploadVars
    <2>2. Read' = Read /\ Outcome' = Outcome BY <2>1 DEF Read, Outcome
    <2> QED BY <2>1, <2>2, UploadStutters
  <1>5. CASE StartRequest
    <2>1. /\ process = "up" /\ UNCHANGED <<kind, arrived, bodyDone, process, buffer, taken>>
          /\ toWorker # <<>> /\ Head(toWorker).type = "request"
          /\ upload' \in {"none", "open"}
      BY <1>5 DEF StartRequest, Gets, clientVars, uploadVars
    <2>2. upload = "none"
      <3>1. toWorker \in Seq(Message) BY WayTyped DEF PaceInv
      <3>2. CASE kind = "upload" BY <2>1, <3>1, <3>2, FirstTaken DEF WayInv, Way
      <3>3. CASE kind # "upload" BY <3>3 DEF WayInv, OnlyUploads
      <3> QED BY <3>2, <3>3
    <2>3. Read' = Read /\ Outcome' = Outcome BY <2>1, <2>2 DEF Read, Outcome
    <2> QED BY <2>1, <2>3, UploadStutters
  <1>6. CASE Exit \/ Closed
    <2>1. /\ UNCHANGED <<kind, arrived, bodyDone, upload, buffer, taken>>
          /\ process' \in {"gone", "closed"} /\ (process = "up" \/ process = "gone")
      BY <1>6 DEF Exit, Closed, uploadVars, readerVars
    <2>2. Read' = Read BY <2>1 DEF Read
    <2>3. Outcome' = Outcome \/ (Outcome = "open" /\ Outcome' = "cut") BY <2>1 DEF Outcome
    <2> QED BY <2>1, <2>2, <2>3, UploadStutters
  <1>7. CASE \/ Acknowledged \/ AbortRequest \/ Refused \/ SendResponse \/ AskForConnection
             \/ StreamPart \/ StreamEnd \/ StreamSettled \/ WriteToSocket \/ Return \/ Throw
    <2>1. /\ process = "up" /\ UNCHANGED <<kind, arrived, bodyDone, process, buffer, taken>>
          /\ upload' = upload \/ (upload = "open" /\ upload' = "destroyed")
      BY <1>7 DEF Acknowledged, AbortRequest, Refused, SendResponse, AskForConnection, StreamPart,
                  StreamEnd, StreamSettled, WriteToSocket, Return, Throw, DestroyUpload, Gets,
                  Works, clientVars, uploadVars, readerVars
    <2>2. Read' = Read BY <2>1 DEF Read
    <2>3. Outcome' = Outcome \/ (Outcome = "open" /\ Outcome' = "cut") BY <2>1 DEF Outcome
    <2> QED BY <2>1, <2>2, <2>3, UploadStutters
  <1>8. CASE \/ ServerDrops \/ BodyTaken \/ Respond \/ Emit \/ EmitAfterHandOff \/ StartHandOff
             \/ RequestHandOffDone \/ HeadWritten \/ ConnectionSent \/ ConnectionNotSent \/ Finish
             \/ ReceiveConnection \/ ClientTakes \/ WriteFails \/ ClientLeaves \/ TimerFires
             \/ SendConnection \/ CloseSocket
    <2>1. UNCHANGED <<kind, arrived, bodyDone, process, upload, buffer, taken>>
      <3>1. CASE \/ ServerDrops \/ BodyTaken \/ Respond \/ Emit \/ EmitAfterHandOff
                 \/ StartHandOff \/ RequestHandOffDone
        BY <3>1 DEF ServerDrops, BodyTaken, Respond, Emit, EmitAfterHandOff, StartHandOff,
                    RequestHandOffDone, Receives, workerVars, readerVars
      <3>2. CASE \/ HeadWritten \/ ConnectionSent \/ ConnectionNotSent \/ Finish
                 \/ ReceiveConnection
        BY <3>2 DEF HeadWritten, ConnectionSent, ConnectionNotSent, Finish, ReceiveConnection,
                    clientVars, uploadVars, workerVars, readerVars
      <3>3. CASE \/ ClientTakes \/ WriteFails \/ ClientLeaves \/ TimerFires \/ SendConnection
                 \/ CloseSocket
        BY <3>3 DEF ClientTakes, WriteFails, ClientLeaves, TimerFires, SendConnection,
                    CloseSocket, clientVars, uploadVars, workerVars, readerVars
      <3> QED BY <1>8, <3>1, <3>2, <3>3
    <2>2. Read' = Read /\ Outcome' = Outcome BY <2>1 DEF Read, Outcome
    <2> QED BY <2>1, <2>2, UploadStutters
  <1> QED
    BY <1>1, <1>2, <1>3, <1>4, <1>5, <1>6, <1>7, <1>8
    DEF Next, Step, ServerStep, SessionStep, WorkerStep

(* The body of an upload is delivered (create-body-forwarder.ts and        *)
(* create-upload.ts): the worker reads its parts in order, none twice and  *)
(* none left out, and its stream ends only behind the last part of a body  *)
(* that the client has sent to its end, whatever ends the request: the     *)
(* exchange implements the specification Delivery.                         *)
THEOREM UploadDelivered == Spec => UploadIsDelivered
  <1>1. Init => IInv /\ PaceInv /\ WayInv /\ Upload!Init
    BY Initially, PaceInitially, WayInitially, UploadStart
  <1>2. IInv /\ PaceInv /\ WayInv /\ [Next]_all
           => IInv' /\ PaceInv' /\ WayInv' /\ [Upload!Next]_(Upload!vars)
    BY StepKeeps, PaceStep, WayStep, UploadStep
  <1> QED BY <1>1, <1>2, PTL DEF Spec, UploadIsDelivered, Upload!Spec
-----------------------------------------------------------------------------
(* The response on its way                                                 *)

(* the numbers after n                                                     *)
Follows(s, n) == \A i \in 1..Len(s) : s[i] = n + i

(* nothing but one part was written, which the client may have             *)
Alone(part) == \/ got = <<part>> /\ unwritten = <<>>
               \/ got = <<>> /\ unwritten = <<part>>

(* the part that the server waits for                                      *)
Due == Len(got) + Len(unwritten) + 1

(* the parts at the client, written to it and before the server            *)
WayDown ==
    IF answer = "sent"
    THEN IF Has(toServer, "response") THEN got = <<>> /\ unwritten = <<>> ELSE Alone(Whole)
    ELSE /\ Follows(got, 0) /\ Follows(unwritten, Len(got))
         /\ Row(toServer, "emit", Due, produced, answer \in {"last", "over"})

(* While the server has the connection and the lease: what it answers is   *)
(* under way, begins with the first part and ends with the last, and is    *)
(* not handed over unless the worker asked for that.                       *)
AtServer ==
    leased /\ owner = "server" =>
        /\ WayDown
        /\ response = "open" => got = <<>> /\ unwritten = <<>>
        /\ response = "ended" => answer \in Over /\ ~Has(toServer, "emit") /\ ~Has(toServer, "response")
        /\ Has(toServer, "ask") \/ handing \in {"head", "active"} => answer = "asking"

(* A request that was given back finished, or its text is under way.       *)
GivenBack ==
    /\ ~leased => timer = "cleared"
    /\ ~leased /\ owner = "server" => response = "finished" \/ (response = "ended" /\ Alone(ErrorText))
    /\ response = "finished" => unwritten = <<>> /\ owner \in {"server", "closed"}

(* The connection somewhere else: it brought nothing before the worker had *)
(* it, and what the worker wrote since.  A client that left unnoticed is   *)
(* that of a request that is given away.                                   *)
Elsewhere ==
    /\ owner = "wire" => got = <<>>
    /\ owner = "worker" => got = Numbers(produced) /\ (answer = "piping" \/ (kind = "give" /\ answer = "none"))
    /\ answer = "piping" => owner \in {"worker", "closed"}
    /\ answer = "closing" => owner = "closed"
    /\ kind = "give" => answer \in {"none", "piping", "over"} /\ (owner \in {"server", "wire"} => answer = "none")
    /\ client = "gone" /\ owner = "server" => kind = "give"

(* what the worker has sent, also once its process is gone                 *)
SoFar ==
    /\ answer \in {"none", "asking", "piping", "closing", "sent"} => ~Has(toServer, "emit")
    /\ Has(toServer, "response") => answer = "sent"
    /\ Once(toServer, "response")
    /\ answer \in {"none", "asking", "sent"} => produced = 0

DownInv == got \in Seq(Nat) /\ AtServer /\ GivenBack /\ Elsewhere /\ SoFar

-----------------------------------------------------------------------------
(* What is under way is kept                                               *)

(* the types that the steps below compute with                             *)
LEMMA DownTyped ==
    ASSUME TypeOK, EndTypeOK, DownInv
    PROVE  /\ got \in Seq(Nat) /\ Len(got) \in Nat
           /\ unwritten \in Seq(Nat) /\ Len(unwritten) \in Nat
           /\ Due \in Nat \ {0} /\ Chunks \in Nat
           /\ produced \in Nat /\ produced \in Int /\ produced <= Chunks
           /\ toServer \in Seq(Message) /\ toWorker \in Seq(Message)
  <1>1. got \in Seq(Nat) /\ unwritten \in Seq(Nat) BY DEF DownInv, EndTypeOK
  <1>2. Len(got) \in Nat /\ Len(unwritten) \in Nat BY <1>1
  <1>3. Chunks \in Nat BY SizesAssumption
  <1>4. produced \in 0..Chunks BY DEF EndTypeOK
  <1> QED BY <1>1, <1>2, <1>3, <1>4 DEF TypeOK, Due

(* messages that say nothing of the response are sent or handled           *)
IsAside(m) == m.type \notin {"response", "emit"}

Aside ==
    \/ toServer' = toServer
    \/ toServer # <<>> /\ IsAside(Head(toServer)) /\ toServer' = Tail(toServer)
    \/ \E m \in Message : IsAside(m) /\ toServer' = Append(toServer, m)
    \/ \E more \in Seq(Message) :
          (\A i \in 1..Len(more) : IsAside(more[i])) /\ toServer' = toServer \o more

(* a message that is no part of a response leaves what is under way        *)
LEMMA AsideKeeps ==
    ASSUME toServer \in Seq(Message), Aside
    PROVE  /\ \A type \in {"response", "emit"} : Has(toServer', type) <=> Has(toServer, type)
           /\ Once(toServer, "response") => Once(toServer', "response")
           /\ \A low \in Nat, high \in Int : \A done :
                 Row(toServer, "emit", low, high, done) => Row(toServer', "emit", low, high, done)
  <1>1. CASE toServer' = toServer BY <1>1
  <1>2. CASE toServer # <<>> /\ IsAside(Head(toServer)) /\ toServer' = Tail(toServer)
    <2>1. /\ \A type : Has(toServer, type) <=> Head(toServer).type = type \/ Has(Tail(toServer), type)
          /\ \A type : Once(toServer, type) => Once(Tail(toServer), type)
      BY <1>2, Taken
    <2>2. \A low \in Nat, high \in Int : \A done :
             Row(toServer, "emit", low, high, done) => Row(toServer', "emit", low, high, done)
      BY <1>2, RowTaken DEF IsAside
    <2> QED BY <1>2, <2>1, <2>2 DEF IsAside
  <1>3. ASSUME NEW m \in Message, IsAside(m), toServer' = Append(toServer, m)
        PROVE  /\ \A type \in {"response", "emit"} : Has(toServer', type) <=> Has(toServer, type)
               /\ Once(toServer, "response") => Once(toServer', "response")
               /\ \A low \in Nat, high \in Int : \A done :
                     Row(toServer, "emit", low, high, done) => Row(toServer', "emit", low, high, done)
    <2>1. /\ \A type : Has(toServer', type) <=> Has(toServer, type) \/ m.type = type
          /\ \A type : Once(toServer, type) /\ m.type # type => Once(toServer', type)
      BY <1>3, Appended
    <2>2. \A low \in Nat, high \in Int : \A done :
             Row(toServer, "emit", low, high, done) => Row(toServer', "emit", low, high, done)
      BY <1>3, RowAppended DEF IsAside
    <2> QED BY <1>3, <2>1, <2>2 DEF IsAside
  <1>4. ASSUME NEW more \in Seq(Message), \A i \in 1..Len(more) : IsAside(more[i]),
               toServer' = toServer \o more
        PROVE  /\ \A type \in {"response", "emit"} : Has(toServer', type) <=> Has(toServer, type)
               /\ Once(toServer, "response") => Once(toServer', "response")
               /\ \A low \in Nat, high \in Int : \A done :
                     Row(toServer, "emit", low, high, done) => Row(toServer', "emit", low, high, done)
    <2>1. \A type \in {"response", "emit"} : ~Has(more, type) BY <1>4 DEF Has, IsAside
    <2>2. \A type : Has(toServer', type) <=> Has(toServer, type) \/ Has(more, type)
      BY <1>4, HasJoined
    <2>3. \A low \in Nat, high \in Int : \A done :
             Row(toServer, "emit", low, high, done) => Row(toServer', "emit", low, high, done)
      <3>1. \A i \in 1..Len(more) : more[i].type # "emit" BY <1>4 DEF IsAside
      <3> QED BY <1>4, <3>1, RowJoined
    <2>4. Once(toServer, "response") => Once(toServer', "response")
      <3>1. /\ Len(toServer) \in Nat /\ Len(more) \in Nat
            /\ Len(toServer \o more) = Len(toServer) + Len(more)
            /\ \A i \in 1..Len(toServer) : (toServer \o more)[i] = toServer[i]
            /\ \A i \in 1..Len(more) : (toServer \o more)[Len(toServer) + i] = more[i]
        BY QueueJoined
      <3>2. \A i \in 1..(Len(toServer) + Len(more)) :
               \/ i \in 1..Len(toServer)
               \/ i - Len(toServer) \in 1..Len(more) /\ i = Len(toServer) + (i - Len(toServer))
        BY <3>1
      <3>3. \A i \in 1..Len(toServer') : toServer'[i].type = "response" =>
               i \in 1..Len(toServer) /\ toServer'[i] = toServer[i]
        BY <1>4, <3>1, <3>2 DEF IsAside
      <3> QED BY <3>3 DEF Once
    <2> QED BY <2>1, <2>2, <2>3, <2>4
  <1> QED BY <1>1, <1>2, <1>3, <1>4 DEF Aside

(* nothing is under way before the request is sent                         *)
LEMMA DownInitially == Init => DownInv
  <1> SUFFICES ASSUME Init PROVE DownInv OBVIOUS
  <1>1. /\ got = <<>> /\ unwritten = <<>> /\ produced = 0 /\ answer = "none" /\ toServer = <<>>
        /\ handing = "no" /\ leased /\ owner \in {"server", "closed"}
        /\ response \in {"open", "destroyed"} /\ (client = "gone" => owner = "closed")
    BY DEF Init
  <1>2. toServer \in Seq(Message) /\ \A type : ~Has(toServer, type) /\ Once(toServer, type)
    BY <1>1 DEF Has, Once
  <1>3. Due = 1 /\ got \in Seq(Nat) /\ 0 \in Int /\ 1 \in Nat BY <1>1 DEF Due
  <1>4. Row(toServer, "emit", Due, produced, answer \in {"last", "over"})
    <2>1. Row(toServer, "emit", 1, 0, answer \in {"last", "over"}) <=> 1 = 0 + 1
      BY <1>2, <1>3, RowNone
    <2> QED BY <1>1, <1>3, <2>1
  <1>5. WayDown BY <1>1, <1>4 DEF WayDown, Follows
  <1>6. AtServer BY <1>1, <1>2, <1>5 DEF AtServer
  <1>7. GivenBack /\ Elsewhere /\ SoFar BY <1>1, <1>2 DEF GivenBack, Elsewhere, SoFar
  <1> QED BY <1>3, <1>6, <1>7 DEF DownInv

(* what is under way stays when its variables and messages do              *)
LEMMA WayStays ==
    ASSUME TypeOK, EndTypeOK, DownInv, WayDown, UNCHANGED <<got, unwritten, produced>>, Aside,
           \/ answer' = answer
           \/ /\ answer # "sent" /\ answer' # "sent"
              /\ answer \in {"last", "over"} => answer' \in {"last", "over"}
    PROVE  WayDown'
  <1>1. Due' = Due /\ Due \in Nat /\ produced \in Int /\ toServer \in Seq(Message)
    BY DownTyped DEF Due
  <1>2. Has(toServer', "response") <=> Has(toServer, "response") BY <1>1, AsideKeeps
  <1>3. CASE answer = "sent"
    <2>1. answer' = "sent" BY <1>3
    <2> QED BY <1>2, <1>3, <2>1 DEF WayDown, Alone
  <1>4. CASE answer # "sent"
    <2>1. /\ answer' # "sent" /\ Follows(got, 0) /\ Follows(unwritten, Len(got))
          /\ Row(toServer, "emit", Due, produced, answer \in {"last", "over"})
      BY <1>4 DEF WayDown
    <2>2. Row(toServer', "emit", Due, produced, answer \in {"last", "over"})
      BY <1>1, <2>1, AsideKeeps
    <2>3. answer \in {"last", "over"} => answer' \in {"last", "over"} BY <1>4
    <2>4. Row(toServer', "emit", Due, produced, answer' \in {"last", "over"})
      BY <2>2, <2>3 DEF Row
    <2>5. Row(toServer', "emit", Due', produced', answer' \in {"last", "over"})
      <3>1. Due' = Due /\ produced' = produced BY <1>1
      <3> QED BY <2>4, <3>1
    <2> QED BY <2>1, <2>5 DEF WayDown
  <1> QED BY <1>3, <1>4

(* A step beside the response.                                             *)
LEMMA QuietDown ==
    ASSUME TypeOK, EndTypeOK, DownInv,
           UNCHANGED <<kind, owner, got, answer, produced, leased>>,
           client' = client \/ (owner = "server" => kind = "give"),
           unwritten' = unwritten \/ (owner # "server" /\ response # "finished"),
           Aside \/ (~leased /\ TakesOne),
           response' = response \/ (response = "open" /\ response' = "started" /\ leased),
           timer = "cleared" => timer' = "cleared",
           (leased /\ owner = "server" /\ answer # "asking") =>
              /\ Has(toServer', "ask") => Has(toServer, "ask")
              /\ handing' \in {"head", "active"} =>
                    handing \in {"head", "active"} \/ Has(toServer, "ask")
    PROVE  DownInv'
  <1>1. /\ \A type \in {"response", "emit"} : Has(toServer', type) => Has(toServer, type)
        /\ Once(toServer, "response") => Once(toServer', "response")
    <2>1. CASE Aside BY <2>1, AsideKeeps DEF TypeOK
    <2>2. CASE TakesOne BY <2>2, LessForServer
    <2> QED BY <2>1, <2>2
  <1>2. AtServer'
    <2> SUFFICES ASSUME leased, owner = "server"
                 PROVE  /\ WayDown'
                        /\ response' = "open" => got' = <<>> /\ unwritten' = <<>>
                        /\ response' = "ended" => answer' \in Over /\ ~Has(toServer', "emit")
                                                  /\ ~Has(toServer', "response")
                        /\ Has(toServer', "ask") \/ handing' \in {"head", "active"}
                              => answer' = "asking"
      BY DEF AtServer
    <2>1. /\ WayDown
          /\ response = "open" => got = <<>> /\ unwritten = <<>>
          /\ response = "ended" => answer \in Over /\ ~Has(toServer, "emit")
                                   /\ ~Has(toServer, "response")
          /\ Has(toServer, "ask") \/ handing \in {"head", "active"} => answer = "asking"
      BY DEF DownInv, AtServer
    <2>2. Aside /\ unwritten' = unwritten OBVIOUS
    <2>3. WayDown' BY <2>1, <2>2, WayStays
    <2> QED BY <1>1, <2>1, <2>2, <2>3
  <1>3. GivenBack'
    <2>1. response' = "finished" => response = "finished" /\ unwritten' = unwritten OBVIOUS
    <2>2. ~leased => response' = response OBVIOUS
    <2>3. owner = "server" => (Alone(ErrorText) => Alone(ErrorText)') BY DEF Alone, ErrorText
    <2> QED BY <2>1, <2>2, <2>3 DEF DownInv, GivenBack
  <1>4. Elsewhere' BY DEF DownInv, Elsewhere, Numbers
  <1>5. SoFar' BY <1>1 DEF DownInv, SoFar
  <1> QED BY <1>2, <1>3, <1>4, <1>5 DEF DownInv

(* the steps of the server that touch no part of the response              *)
LEMMA ServerQuietDown ==
    ASSUME IInv, EndTypeOK, DownInv, LogInv,
           \/ UploadPart /\ ~FailRequest
           \/ UploadEnd \/ ServerDrops \/ BodyTaken \/ StartHandOff \/ HeadWritten \/ WriteFails
    PROVE  DownInv'
  <1>0. TypeOK BY DEF IInv
  <1>1. UNCHANGED <<kind, client, owner, got, answer, produced, leased>>
    BY DEF UploadPart, UploadEnd, ServerDrops, BodyTaken, StartHandOff, HeadWritten, WriteFails,
           Receives, clientVars, serverVars, workerVars, answerVars
  <1>2. unwritten' = unwritten \/ (owner # "server" /\ response # "finished")
    <2>1. CASE WriteFails BY <2>1 DEF WriteFails, LogInv, CutOff
    <2>2. CASE ~WriteFails
      BY <2>2 DEF UploadPart, UploadEnd, ServerDrops, BodyTaken, StartHandOff, HeadWritten, serverVars
    <2> QED BY <2>1, <2>2
  <1>3. Aside \/ (~leased /\ TakesOne)
    <2>1. CASE BodyTaken \/ StartHandOff
      <3>1. /\ toServer # <<>> /\ toServer' = Tail(toServer)
            /\ Head(toServer).type \in {"bodyAck", "ask"}
        BY <2>1 DEF BodyTaken, StartHandOff, Receives
      <3> QED BY <3>1 DEF Aside, IsAside
    <2>2. CASE ServerDrops BY <2>2 DEF ServerDrops, Receives, TakesOne
    <2>3. CASE UploadPart \/ UploadEnd \/ HeadWritten \/ WriteFails
      BY <2>3 DEF UploadPart, UploadEnd, HeadWritten, WriteFails, Aside, wires
    <2> QED BY <2>1, <2>2, <2>3
  <1>4. response' = response \/ (response = "open" /\ response' = "started" /\ leased)
    BY DEF UploadPart, UploadEnd, ServerDrops, BodyTaken, StartHandOff, HeadWritten, WriteFails,
           serverVars
  <1>5. timer = "cleared" => timer' = "cleared"
    BY ArmedNotCleared DEF UploadPart, UploadEnd, ServerDrops, BodyTaken, StartHandOff, HeadWritten,
                    WriteFails, Written, serverVars
  <1>6. /\ Has(toServer', "ask") => Has(toServer, "ask")
        /\ handing' \in {"head", "active"} => handing \in {"head", "active"} \/ Has(toServer, "ask")
    <2>1. CASE BodyTaken \/ StartHandOff
      <3>1. /\ toServer # <<>> /\ toServer' = Tail(toServer)
            /\ handing' = handing \/ Head(toServer).type = "ask"
        BY <2>1 DEF BodyTaken, StartHandOff, Receives, handVars
      <3>2. Has(toServer, "ask") <=> Head(toServer).type = "ask" \/ Has(Tail(toServer), "ask")
        BY <1>0, <3>1, Taken DEF TypeOK
      <3> QED BY <3>1, <3>2
    <2>2. CASE ServerDrops
      <3>1. TakesOne /\ handing' = handing BY <2>2 DEF ServerDrops, Receives, TakesOne, handVars
      <3> QED BY <1>0, <3>1, LessForServer
    <2>3. CASE UploadPart \/ UploadEnd \/ HeadWritten \/ WriteFails
      BY <2>3 DEF UploadPart, UploadEnd, HeadWritten, WriteFails, NotHanded, handVars, wires
    <2> QED BY <2>1, <2>2, <2>3
  <1> QED BY <1>0, <1>1, <1>2, <1>3, <1>4, <1>5, <1>6, QuietDown

(* The connection of the client is not the server's, or not any more.      *)
LEMMA LeavesDown ==
    ASSUME TypeOK, DownInv, TakesOne, UNCHANGED <<kind, got, answer, produced>>,
           owner' # "server", owner' = owner \/ owner' = "closed",
           ~leased' => timer' = "cleared",
           response' = "finished" => response = "finished" /\ unwritten' = unwritten
    PROVE  DownInv'
  <1>1. /\ \A type : Has(toServer', type) => Has(toServer, type)
        /\ \A type : Once(toServer, type) => Once(toServer', type)
    BY LessForServer
  <1>2. AtServer' BY DEF AtServer
  <1>3. GivenBack' BY DEF DownInv, GivenBack
  <1>4. Elsewhere' BY DEF DownInv, Elsewhere, Numbers
  <1>5. SoFar' BY <1>1 DEF DownInv, SoFar
  <1> QED BY <1>2, <1>3, <1>4, <1>5 DEF DownInv

(* A request that fails while the connection is the server's: nothing was  *)
(* sent and the text stands alone, or the connection is closed.            *)
LEMMA FailDown ==
    ASSUME IInv, EndTypeOK, DownInv, LogInv, FailRequest, leased,
           UNCHANGED <<kind, client, got, toServer, answer, produced>>,
           response = "open" => ~IsActive'
    PROVE  DownInv'
  <1>1. TypeOK /\ TakesOne /\ response # "finished" BY DEF IInv, TakesOne, LogInv, LoggedOnce
  <1>2. timer' = "cleared" BY DEF FailRequest, Cleanup
  <1>3. CASE owner' # "server"
    <2>1. owner' = owner \/ owner' = "closed" BY DEF FailRequest
    <2>2. response' # "finished" BY <1>1 DEF FailRequest
    <2> QED BY <1>1, <1>2, <1>3, <2>1, <2>2, LeavesDown
  <1>4. CASE owner' = "server"
    <2>1. response = "open" /\ owner = "server" BY <1>1, <1>4 DEF FailRequest
    <2>2. response' = "ended" /\ unwritten' = Append(unwritten, ErrorText)
      BY <2>1 DEF FailRequest
    <2>3. ~leased' BY <2>1 DEF FailRequest, Cleanup
    <2>4. got = <<>> /\ unwritten = <<>> BY <2>1 DEF DownInv, AtServer
    <2>5. Alone(ErrorText)'
      <3>1. got' = <<>> /\ unwritten' = <<ErrorText>> BY <2>2, <2>4
      <3>2. ErrorText' = ErrorText BY DEF ErrorText
      <3> QED BY <3>1, <3>2 DEF Alone
    <2>6. AtServer' BY <2>3 DEF AtServer
    <2>7. GivenBack' BY <1>2, <2>2, <2>5 DEF GivenBack
    <2>8. Elsewhere' BY <1>4, <2>1 DEF DownInv, Elsewhere
    <2>9. SoFar' BY DEF DownInv, SoFar
    <2> QED BY <2>6, <2>7, <2>8, <2>9 DEF DownInv
  <1> QED BY <1>3, <1>4

(* the steps that fail a request: a text of the server stands alone        *)
LEMMA FailStepsDown ==
    ASSUME IInv, EndTypeOK, DownInv, LogInv,
           \/ TimerFires \/ (UploadPart /\ FailRequest) \/ ConnectionNotSent \/ Closed
    PROVE  DownInv'
  <1>1. UNCHANGED <<kind, client, got, toServer, answer, produced>>
    BY DEF TimerFires, UploadPart, ConnectionNotSent, Closed, workerVars, answerVars
  <1>2. CASE TimerFires \/ (UploadPart /\ FailRequest)
    <2>1. FailRequest /\ NotHanded BY <1>2 DEF TimerFires, UploadPart
    <2>2. leased BY <1>2 DEF TimerFires, UploadPart, DownInv, GivenBack
    <2>3. giving = "no" BY <1>2 DEF TimerFires, UploadPart, LogInv, Given
    <2>4. response = "open" => ~IsActive'
      BY <2>1, <2>2, <2>3 DEF NotHanded, IsActive, LogInv, OneWay
    <2> QED BY <1>1, <2>1, <2>2, <2>4, FailDown
  <1>3. CASE (ConnectionNotSent \/ Closed) /\ leased
    <2>1. FailRequest /\ handing' = "no" /\ giving' = "no"
      BY <1>3 DEF ConnectionNotSent, Closed
    <2> QED BY <1>1, <1>3, <2>1, FailDown DEF IsActive
  <1>4. CASE (ConnectionNotSent \/ Closed) /\ ~leased
    <2>1. UNCHANGED <<response, unwritten, owner, timer, leased>>
      BY <1>4 DEF ConnectionNotSent, Closed
    <2> QED BY <1>1, <1>4, <2>1, QuietDown DEF IInv, Aside
  <1> QED BY <1>2, <1>3, <1>4

(* the hand-off is over: the connection is not the server's                *)
LEMMA HandedDown ==
    ASSUME IInv, EndTypeOK, DownInv, LogInv,
           EmitAfterHandOff \/ RequestHandOffDone \/ ConnectionSent
    PROVE  DownInv'
  <1>1. /\ TypeOK /\ TakesOne
        /\ UNCHANGED <<kind, got, owner, unwritten, answer, produced>>
        /\ response' = "finished" => response = "finished"
    BY DEF IInv, TakesOne, EmitAfterHandOff, RequestHandOffDone, ConnectionSent, Receives,
           clientVars, workerVars, answerVars
  <1>2. ~leased' => timer' = "cleared"
    BY DEF EmitAfterHandOff, RequestHandOffDone, ConnectionSent, Cleanup, DownInv, GivenBack
  <1>3. owner # "server"
    <2>1. CASE EmitAfterHandOff
      <3>1. /\ leased /\ handing = "active"
            /\ toServer # <<>> /\ Head(toServer).type = "emit"
        BY <2>1 DEF EmitAfterHandOff, Receives
      <3>2. Has(toServer, "emit") BY <1>1, <3>1, Taken DEF TypeOK
      <3>3. answer # "asking" BY <3>2 DEF DownInv, SoFar
      <3> QED BY <3>1, <3>3 DEF DownInv, AtServer
    <2>2. CASE RequestHandOffDone
      <3>1. toServer # <<>> /\ Head(toServer).type = "done"
        BY <2>2 DEF RequestHandOffDone, Receives
      <3>2. Has(toServer, "done") BY <1>1, <3>1, Taken DEF TypeOK
      <3> QED BY <3>2 DEF LogInv, Given
    <2>3. CASE ConnectionSent BY <2>3 DEF ConnectionSent, LogInv, CutOff
    <2> QED BY <2>1, <2>2, <2>3
  <1> QED BY <1>1, <1>2, <1>3, LeavesDown

(* the response finishes and the lease ends                                *)
LEMMA FinishDown == ASSUME IInv, DownInv, LogInv', Finish PROVE DownInv'
  <1>1. /\ UNCHANGED <<kind, client, got, unwritten, toServer, answer, produced>>
        /\ unwritten = <<>> /\ client = "there" /\ owner = "server"
        /\ response' = "finished" /\ owner' \in {"server", "closed"}
    BY DEF Finish, workerVars, answerVars
  <1>2. ~leased' BY <1>1 DEF LogInv, LoggedOnce
  <1>3. timer' = "cleared" BY <1>2 DEF Finish, Cleanup, DownInv, GivenBack
  <1>4. AtServer' BY <1>2 DEF AtServer
  <1>5. GivenBack' BY <1>1, <1>3 DEF GivenBack
  <1>6. Elsewhere' BY <1>1 DEF DownInv, Elsewhere
  <1>7. SoFar' BY <1>1 DEF DownInv, SoFar
  <1> QED BY <1>1, <1>4, <1>5, <1>6, <1>7 DEF DownInv

(* the client leaves: the request is aborted, or was given away            *)
LEMMA ClientLeavesDown ==
    ASSUME IInv, EndTypeOK, DownInv, LogInv, ClientLeaves
    PROVE  DownInv'
  <1>1. UNCHANGED <<kind, got, unwritten, handing, toServer, answer, produced>>
    BY DEF ClientLeaves, NotHanded, handVars, workerVars, answerVars
  <1>2. TypeOK /\ TakesOne /\ Aside BY <1>1 DEF IInv, TakesOne, Aside
  <1>3. CASE owner = "server" /\ giving # "active"
    <2>1. owner' = "closed" /\ (response' = "finished" => response = "finished")
      BY <1>3 DEF ClientLeaves
    <2>2. ~leased' => timer' = "cleared"
      BY <1>3 DEF ClientLeaves, Cleanup, DownInv, GivenBack
    <2> QED BY <1>1, <1>2, <2>1, <2>2, LeavesDown
  <1>4. CASE ~(owner = "server" /\ giving # "active")
    <2>1. UNCHANGED <<owner, response, timer, leased>> BY <1>4 DEF ClientLeaves
    <2>2. owner = "server" => kind = "give" BY <1>4 DEF LogInv, Given
    <2> QED BY <1>1, <1>2, <2>1, <2>2, QuietDown
  <1> QED BY <1>3, <1>4

(* a connection that is still to be given away brought the client nothing  *)
LEMMA NothingYet ==
    ASSUME TypeOK, EndTypeOK, DownInv, leased, owner = "server",
           answer \in {"none", "asking"}
    PROVE  got = <<>> /\ unwritten = <<>> /\ produced = 0
  <1>1. produced = 0 BY DEF DownInv, SoFar
  <1>2. Row(toServer, "emit", Due, produced, answer \in {"last", "over"})
    BY DEF DownInv, AtServer, WayDown
  <1>3. Due <= produced + 1 BY <1>2 DEF Row
  <1>4. Len(got) = 0 /\ Len(unwritten) = 0 BY <1>1, <1>3, DownTyped DEF Due
  <1>5. got = <<>> /\ unwritten = <<>> BY <1>4, DownTyped, EmptySeq
  <1> QED BY <1>1, <1>5

(* a connection that is to be given has brought the client nothing         *)
LEMMA ToBeGiven ==
    ASSUME IInv, EndTypeOK, DownInv, LogInv, SendConnection, owner = "server"
    PROVE  /\ leased /\ response # "finished" /\ answer \in {"none", "asking"}
           /\ got = <<>> /\ unwritten = <<>> /\ produced = 0
  <1>1. leased /\ IsActive BY DEF SendConnection, IInv, Up, Lease
  <1>2. response # "finished" BY <1>1 DEF LogInv, LoggedOnce
  <1>3. answer \in {"none", "asking"}
    <2>1. CASE handing = "active" BY <1>1, <2>1 DEF DownInv, AtServer
    <2>2. CASE giving = "active"
      <3>1. kind = "give" BY <2>2 DEF LogInv, Given
      <3> QED BY <3>1 DEF DownInv, Elsewhere
    <2> QED BY <1>1, <2>1, <2>2 DEF IsActive
  <1> QED BY <1>1, <1>2, <1>3, NothingYet DEF IInv

(* the connection goes to the worker                                       *)
LEMMA SendConnectionDown ==
    ASSUME IInv, EndTypeOK, DownInv, LogInv, SendConnection
    PROVE  DownInv'
  <1>1. /\ UNCHANGED <<kind, client, got, response, unwritten, timer, leased, toServer, answer,
                       produced>>
        /\ owner' = IF owner = "server" THEN "wire" ELSE owner
    BY DEF SendConnection, serverVars, workerVars, answerVars
  <1>2. TypeOK /\ TakesOne BY <1>1 DEF IInv, TakesOne
  <1>3. CASE owner # "server"
    <2>1. ~leased' => timer' = "cleared" BY <1>1 DEF DownInv, GivenBack
    <2> QED BY <1>1, <1>2, <1>3, <2>1, LeavesDown
  <1>4. CASE owner = "server"
    <2>1. leased /\ response # "finished" /\ got = <<>> BY <1>4, ToBeGiven
    <2>2. owner' = "wire" BY <1>1, <1>4
    <2>3. AtServer' /\ GivenBack' BY <1>1, <2>1, <2>2 DEF AtServer, GivenBack
    <2>4. Elsewhere' BY <1>1, <1>4, <2>1, <2>2 DEF DownInv, Elsewhere
    <2>5. SoFar' BY <1>1 DEF DownInv, SoFar
    <2> QED BY <1>1, <2>3, <2>4, <2>5 DEF DownInv
  <1> QED BY <1>3, <1>4

-----------------------------------------------------------------------------
(* Steps of the response                                                   *)

(* the client takes the part that comes after those it has                 *)
LEMMA TakenInOrder ==
    ASSUME TypeOK, EndTypeOK, DownInv, ClientTakes, leased, answer # "sent"
    PROVE  /\ got' = Append(got, Len(got) + 1) /\ Len(got) + 1 <= produced
           /\ Len(got') = Len(got) + 1 /\ Due' = Due
           /\ Follows(got', 0) /\ Follows(unwritten', Len(got'))
  <1>1. /\ owner = "server" /\ unwritten # <<>> /\ unwritten' = Tail(unwritten)
        /\ got' = Append(got, Head(unwritten))
    BY DEF ClientTakes
  <1>2. /\ Follows(got, 0) /\ Follows(unwritten, Len(got))
        /\ Row(toServer, "emit", Due, produced, answer \in {"last", "over"})
    BY <1>1 DEF DownInv, AtServer, WayDown
  <1>3. /\ got \in Seq(Nat) /\ Len(got) \in Nat /\ unwritten \in Seq(Nat) /\ produced \in Nat
    BY DownTyped
  <1>4. /\ Len(unwritten) \in Nat \ {0} /\ Len(unwritten') = Len(unwritten) - 1
        /\ Head(unwritten) = unwritten[1] /\ Head(unwritten) \in Nat
        /\ \A i \in 1..(Len(unwritten) - 1) : unwritten'[i] = unwritten[i + 1]
    BY <1>1, <1>3, QueueTaken
  <1>5. Head(unwritten) = Len(got) + 1 BY <1>2, <1>3, <1>4 DEF Follows
  <1>6. /\ Len(got') = Len(got) + 1 /\ got'[Len(got) + 1] = Len(got) + 1
        /\ \A i \in 1..Len(got) : got'[i] = got[i]
    BY <1>1, <1>3, <1>4, <1>5, QueueAppended
  <1>7. Due' = Due BY <1>3, <1>4, <1>6 DEF Due
  <1>8. Len(got) + 1 <= produced
    <2>1. Due <= produced + 1 BY <1>2 DEF Row
    <2> QED BY <1>3, <1>4, <2>1 DEF Due
  <1>9. Follows(got', 0)
    <2> SUFFICES ASSUME NEW i \in 1..(Len(got) + 1) PROVE got'[i] = 0 + i BY <1>6 DEF Follows
    <2>1. i = Len(got) + 1 \/ i \in 1..Len(got) BY <1>3
    <2> QED BY <1>2, <1>3, <1>6, <2>1 DEF Follows
  <1>10. Follows(unwritten', Len(got'))
    <2> SUFFICES ASSUME NEW i \in 1..(Len(unwritten) - 1)
                 PROVE  unwritten'[i] = Len(got) + 1 + i
      BY <1>4, <1>6 DEF Follows
    <2>1. i + 1 \in 1..Len(unwritten) /\ unwritten'[i] = unwritten[i + 1] BY <1>4
    <2>2. unwritten[i + 1] = Len(got) + (i + 1) BY <1>2, <2>1 DEF Follows
    <2> QED BY <1>3, <2>1, <2>2
  <1> QED BY <1>1, <1>5, <1>6, <1>7, <1>8, <1>9, <1>10

(* the single part is taken: it is all that the client has                 *)
LEMMA AloneTaken ==
    ASSUME NEW part \in Nat, Alone(part), ClientTakes
    PROVE  got = <<>> /\ unwritten = <<part>> /\ got' = <<part>> /\ unwritten' = <<>>
  <1>1. /\ unwritten # <<>> /\ unwritten' = Tail(unwritten)
        /\ got' = Append(got, Head(unwritten))
    BY DEF ClientTakes
  <1>2. got = <<>> /\ unwritten = <<part>> BY <1>1 DEF Alone
  <1>3. Head(<<part>>) = part /\ Tail(<<part>>) = <<>> /\ Append(<<>>, part) = <<part>> OBVIOUS
  <1> QED BY <1>1, <1>2, <1>3

(* the client takes the next part, whichever it is                         *)
LEMMA ClientTakesDown ==
    ASSUME IInv, EndTypeOK, DownInv, ClientTakes
    PROVE  DownInv'
  <1>1. /\ UNCHANGED <<kind, client, owner, response, leased, handing, toServer, answer, produced>>
        /\ owner = "server" /\ response \in {"started", "ended"}
        /\ timer = "cleared" => timer' = "cleared"
    BY ArmedNotCleared DEF ClientTakes, Written, handVars, workerVars, answerVars
  <1>2. TypeOK /\ ErrorText \in Nat /\ Whole \in Nat /\ ErrorText' = ErrorText /\ Whole' = Whole
    BY SizesAssumption DEF IInv, ErrorText, Whole
  <1>3. got' \in Seq(Nat)
    <2>1. unwritten # <<>> /\ got' = Append(got, Head(unwritten)) BY DEF ClientTakes
    <2>2. Head(unwritten) \in Nat /\ got \in Seq(Nat) BY <1>2, <2>1, DownTyped, QueueTaken
    <2> QED BY <2>1, <2>2, QueueAppended
  <1>4. AtServer'
    <2> SUFFICES ASSUME leased PROVE AtServer' BY <1>1 DEF AtServer
    <2>1. /\ WayDown
          /\ response = "ended" => answer \in Over /\ ~Has(toServer, "emit")
                                   /\ ~Has(toServer, "response")
          /\ Has(toServer, "ask") \/ handing \in {"head", "active"} => answer = "asking"
      BY <1>1 DEF DownInv, AtServer
    <2>2. WayDown'
      <3>1. CASE answer = "sent"
        <4>1. ~Has(toServer, "response") /\ Alone(Whole)
          BY <2>1, <3>1 DEF WayDown, ClientTakes
        <4>2. got' = <<Whole>> /\ unwritten' = <<>> BY <1>2, <4>1, AloneTaken
        <4> QED BY <1>1, <1>2, <3>1, <4>1, <4>2 DEF WayDown, Alone
      <3>2. CASE answer # "sent"
        <4>1. Due' = Due /\ Follows(got', 0) /\ Follows(unwritten', Len(got'))
          BY <1>2, <3>2, TakenInOrder
        <4>2. Row(toServer, "emit", Due, produced, answer \in {"last", "over"})
          BY <2>1, <3>2 DEF WayDown
        <4>3. Row(toServer', "emit", Due', produced', answer' \in {"last", "over"})
          BY <1>1, <4>1, <4>2
        <4> QED BY <1>1, <3>2, <4>1, <4>3 DEF WayDown
      <3> QED BY <3>1, <3>2
    <2> QED BY <1>1, <2>1, <2>2 DEF AtServer
  <1>5. GivenBack'
    <2>1. ASSUME ~leased PROVE Alone(ErrorText)'
      <3>1. response = "ended" /\ Alone(ErrorText) BY <1>1, <2>1 DEF DownInv, GivenBack
      <3>2. got' = <<ErrorText>> /\ unwritten' = <<>> BY <1>2, <3>1, AloneTaken
      <3> QED BY <1>2, <3>2 DEF Alone
    <2> QED BY <1>1, <2>1 DEF DownInv, GivenBack
  <1>6. Elsewhere' BY <1>1 DEF DownInv, Elsewhere
  <1>7. SoFar' BY <1>1 DEF DownInv, SoFar
  <1> QED BY <1>3, <1>4, <1>5, <1>6, <1>7 DEF DownInv

(* the response in one message, or a part of it, is written                *)
LEMMA WrittenDown ==
    ASSUME IInv, EndTypeOK, DownInv, LogInv, Respond \/ Emit
    PROVE  /\ UNCHANGED <<kind, client, owner, got, leased, handing, answer, produced>>
           /\ TypeOK /\ leased /\ TakesOne
           /\ toServer # <<>> /\ toServer' = Tail(toServer) /\ Head(toServer) \in Message
           /\ \A type : Has(toServer, type) <=> Head(toServer).type = type \/ Has(toServer', type)
           /\ Once(toServer, "response") => Once(toServer', "response")
           /\ response' # "finished" /\ (timer = "cleared" => timer' = "cleared")
           /\ owner = "server" => response # "destroyed"
  <1>1. /\ UNCHANGED <<kind, client, owner, got, leased, handing, answer, produced>>
        /\ leased /\ toServer # <<>> /\ toServer' = Tail(toServer)
        /\ response' \in {"destroyed", "started", "ended"}
    BY DEF Respond, Emit, Receives, Unless, handVars, workerVars, answerVars
  <1>2. /\ Head(toServer) \in Message
        /\ \A type : Has(toServer, type) <=> Head(toServer).type = type \/ Has(toServer', type)
        /\ Once(toServer, "response") => Once(toServer', "response")
    BY <1>1, Taken DEF IInv, TypeOK
  <1>3. timer = "cleared" => timer' = "cleared" BY ArmedNotCleared DEF Respond, Emit
  <1>4. owner = "server" => response # "destroyed" BY DEF LogInv, CutOff
  <1> QED BY <1>1, <1>2, <1>3, <1>4 DEF IInv, TakesOne

(* the answer in one piece is written, before anything else                *)
LEMMA RespondDown == ASSUME IInv, EndTypeOK, DownInv, LogInv, Respond PROVE DownInv'
  <1>1. /\ UNCHANGED <<kind, client, owner, got, leased, handing, answer, produced>>
        /\ TypeOK /\ leased /\ TakesOne
        /\ toServer # <<>> /\ toServer' = Tail(toServer)
        /\ \A type : Has(toServer, type) <=> Head(toServer).type = type \/ Has(toServer', type)
        /\ Once(toServer, "response") => Once(toServer', "response")
        /\ response' # "finished"
        /\ owner = "server" => response # "destroyed"
    BY WrittenDown
  <1>2. Head(toServer).type = "response" /\ unwritten' = Append(unwritten, Whole)
    BY DEF Respond, Receives
  <1>3. CASE owner # "server" BY <1>1, <1>3, LeavesDown
  <1>4. CASE owner = "server"
    <2>1. Has(toServer, "response") /\ answer = "sent" BY <1>1, <1>2 DEF DownInv, SoFar
    <2>2. ~Has(toServer', "response")
      <3>1. Once(toServer, "response") BY DEF DownInv, SoFar
      <3> QED BY <1>1, <1>2, <3>1, Taken DEF TypeOK
    <2>3. got = <<>> /\ unwritten = <<>> BY <1>1, <1>4, <2>1 DEF DownInv, AtServer, WayDown
    <2>4. unwritten' = <<Whole>> /\ Whole' = Whole BY <1>2, <2>3 DEF Whole
    <2>5. WayDown' BY <1>1, <2>1, <2>2, <2>3, <2>4 DEF WayDown, Alone
    <2>6. response' = "ended" BY <1>1, <1>4 DEF Respond, Unless
    <2>7. ~Has(toServer', "emit") BY <1>1, <2>1 DEF DownInv, SoFar
    <2>8. Has(toServer', "ask") \/ handing' \in {"head", "active"} => answer' = "asking"
      BY <1>1, <1>4 DEF DownInv, AtServer
    <2>9. AtServer' BY <1>1, <2>1, <2>2, <2>5, <2>6, <2>7, <2>8 DEF AtServer, Over
    <2>10. GivenBack' BY <1>1 DEF GivenBack
    <2>11. Elsewhere' BY <1>1, <1>4 DEF DownInv, Elsewhere
    <2>12. SoFar' BY <1>1 DEF DownInv, SoFar
    <2> QED BY <1>1, <2>9, <2>10, <2>11, <2>12 DEF DownInv
  <1> QED BY <1>3, <1>4

(* a part that is received is the one the server waits for                 *)
LEMMA EmitDown == ASSUME IInv, EndTypeOK, DownInv, LogInv, Emit PROVE DownInv'
  <1> DEFINE part == Head(toServer).part
  <1>1. /\ UNCHANGED <<kind, client, owner, got, leased, handing, answer, produced>>
        /\ TypeOK /\ leased /\ TakesOne
        /\ toServer # <<>> /\ toServer' = Tail(toServer) /\ Head(toServer) \in Message
        /\ \A type : Has(toServer, type) <=> Head(toServer).type = type \/ Has(toServer', type)
        /\ Once(toServer, "response") => Once(toServer', "response")
        /\ response' # "finished"
        /\ owner = "server" => response # "destroyed"
    BY WrittenDown
  <1>2. /\ Head(toServer).type = "emit"
        /\ part = 0 => response' = Unless("ended") /\ unwritten' = unwritten
        /\ part # 0 => response' = Unless("started") /\ unwritten' = Append(unwritten, part)
    BY DEF Emit, Receives
  <1>3. CASE owner # "server" BY <1>1, <1>3, LeavesDown
  <1>4. CASE owner = "server"
    <2>1. Has(toServer, "emit") /\ answer # "sent" /\ ~Has(toServer', "response")
      BY <1>1, <1>2 DEF DownInv, SoFar
    <2>2. /\ Follows(got, 0) /\ Follows(unwritten, Len(got))
          /\ Row(toServer, "emit", Due, produced, answer \in {"last", "over"})
          /\ Has(toServer, "ask") \/ handing \in {"head", "active"} => answer = "asking"
      BY <1>1, <1>4, <2>1 DEF DownInv, AtServer, WayDown
    <2>3. /\ got \in Seq(Nat) /\ Len(got) \in Nat /\ unwritten \in Seq(Nat)
          /\ Due \in Nat /\ produced \in Int /\ toServer \in Seq(Message) /\ toServer' \in Seq(Message)
      BY <1>1, DownTyped, Taken
    <2> DEFINE last == answer \in {"last", "over"}
    <2>4. /\ IsPart(Head(toServer), "emit") =>
                Head(toServer).part = Due /\ Row(toServer', "emit", Due + 1, produced, last)
          /\ IsEnd(Head(toServer), "emit") =>
                last /\ Due = produced + 1 /\ ~Has(toServer', "emit")
      <3>1. Row(toServer, "emit", Due, produced, last) BY <2>2
      <3> HIDE DEF last
      <3>2. /\ IsPart(Head(toServer), "emit") =>
                  /\ Head(toServer).part = Due
                  /\ Row(Tail(toServer), "emit", Due + 1, produced, last)
            /\ IsEnd(Head(toServer), "emit") =>
                  last /\ Due = produced + 1 /\ ~Has(Tail(toServer), "emit")
        BY <1>1, <2>3, <3>1, RowTaken
      <3> QED BY <1>1, <3>2
    <2>5. WayDown' /\ (response' = "ended" => answer' \in Over /\ ~Has(toServer', "emit"))
          /\ response' # "open"
      <3>1. CASE part = 0
        <4>1. IsEnd(Head(toServer), "emit") BY <1>2, <3>1 DEF IsEnd
        <4>2. answer \in {"last", "over"} /\ Due = produced + 1 /\ ~Has(toServer', "emit")
          BY <2>4, <4>1
        <4>3. Due' = Due BY <1>1, <1>2, <3>1 DEF Due
        <4>4. Row(toServer', "emit", Due, produced, answer \in {"last", "over"})
          BY <2>3, <4>2, RowNone
        <4>5. Row(toServer', "emit", Due', produced', answer' \in {"last", "over"})
          BY <1>1, <4>3, <4>4
        <4>6. WayDown' BY <1>1, <1>2, <2>1, <2>2, <3>1, <4>5 DEF WayDown, Follows
        <4> QED BY <1>1, <1>2, <1>4, <3>1, <4>2, <4>6 DEF Unless, Over
      <3>2. CASE part # 0
        <4>1. IsPart(Head(toServer), "emit") BY <1>2, <3>2 DEF IsPart
        <4>2. part = Due /\ Row(toServer', "emit", Due + 1, produced, answer \in {"last", "over"})
          BY <2>4, <4>1
        <4>3. unwritten' = Append(unwritten, Due) BY <1>2, <3>2, <4>2
        <4>4. /\ Len(unwritten) \in Nat /\ Len(unwritten') = Len(unwritten) + 1
              /\ unwritten'[Len(unwritten) + 1] = Due
              /\ \A i \in 1..Len(unwritten) : unwritten'[i] = unwritten[i]
          BY <2>3, <4>3, QueueAppended
        <4>5. Due' = Due + 1 BY <1>1, <2>3, <4>4 DEF Due
        <4>6. Row(toServer', "emit", Due', produced', answer' \in {"last", "over"})
          BY <1>1, <4>2, <4>5
        <4>7. Follows(unwritten', Len(got'))
          <5> SUFFICES ASSUME NEW i \in 1..(Len(unwritten) + 1)
                       PROVE  unwritten'[i] = Len(got) + i
            BY <1>1, <4>4 DEF Follows
          <5>1. CASE i = Len(unwritten) + 1 BY <2>3, <4>4, <5>1 DEF Due
          <5>2. CASE i \in 1..Len(unwritten) BY <2>2, <4>4, <5>2 DEF Follows
          <5> QED BY <4>4, <5>1, <5>2
        <4>8. Follows(got', 0) BY <1>1, <2>2 DEF Follows
        <4>9. WayDown' BY <1>1, <2>1, <4>6, <4>7, <4>8 DEF WayDown
        <4>10. response' \notin {"open", "ended"} BY <1>1, <1>2, <1>4, <3>2 DEF Unless
        <4> QED BY <4>9, <4>10
      <3> QED BY <3>1, <3>2
    <2>6. AtServer' BY <1>1, <2>1, <2>2, <2>5 DEF AtServer
    <2>7. GivenBack' BY <1>1 DEF GivenBack
    <2>8. Elsewhere' BY <1>1, <1>4 DEF DownInv, Elsewhere
    <2>9. SoFar' BY <1>1 DEF DownInv, SoFar
    <2> QED BY <1>1, <2>6, <2>7, <2>8, <2>9 DEF DownInv
  <1> QED BY <1>3, <1>4

-----------------------------------------------------------------------------
(* Steps of the worker                                                     *)

(* what a step of the worker leaves alone                                  *)
LEMMA WorkerLeaves ==
    ASSUME \/ SessionStep \/ WorkerStep \/ ReadBody \/ ReadHandedBody \/ CloseSocket
    PROVE  /\ UNCHANGED <<kind, client, unwritten, response, timer, leased, handing>>
           /\ process = "up" /\ process' = "up"
  BY DEF SessionStep, WorkerStep, ReadBody, ReadHandedBody, CloseSocket, StartRequest, BodyPart,
         Acknowledged, AbortRequest, Refused, ReceiveConnection, Gets, SendResponse,
         AskForConnection, StreamPart, StreamEnd, StreamSettled, WriteToSocket, Return, Throw,
         Works, serverVars, handVars, clientVars

(* the steps of the worker that produce no part                            *)
LEMMA WorkerQuietDown ==
    ASSUME IInv, EndTypeOK, DownInv,
           \/ StartRequest \/ BodyPart \/ Acknowledged \/ Return \/ ReadBody \/ ReadHandedBody
    PROVE  DownInv'
  <1>1. UNCHANGED <<kind, client, unwritten, response, timer, leased, handing>>
    BY WorkerLeaves DEF SessionStep, WorkerStep
  <1>2. UNCHANGED <<owner, got, answer, produced>>
    BY DEF StartRequest, BodyPart, Acknowledged, Return, ReadBody, ReadHandedBody, Gets, clientVars,
           answerVars
  <1>3. TypeOK /\ toServer \in Seq(Message) BY DEF IInv, TypeOK
  <1>4. Aside /\ (Has(toServer', "ask") => Has(toServer, "ask"))
    <2>1. Msg("bodyAck") \in Message /\ Msg("bodyAck").type = "bodyAck" BY MessagesTyped
    <2>2. CASE toServer' = toServer BY <2>2 DEF Aside
    <2>3. CASE toServer' = Append(toServer, Msg("bodyAck"))
      <3>1. Has(toServer', "ask") => Has(toServer, "ask") BY <1>3, <2>1, <2>3, Appended
      <3> QED BY <2>1, <2>3, <3>1 DEF Aside, IsAside
    <2>4. CASE toServer' = toServer \o [i \in 1..owed |-> Msg("bodyAck")]
      <3> DEFINE more == [i \in 1..owed |-> Msg("bodyAck")]
      <3>1. owed \in Nat BY <1>3 DEF TypeOK
      <3>2. more \in Seq(Message) /\ \A i \in 1..Len(more) : more[i].type = "bodyAck"
        BY <2>1, <3>1
      <3>3. Has(toServer', "ask") => Has(toServer, "ask") BY <1>3, <2>4, <3>1, Joined
      <3> QED BY <2>4, <3>2, <3>3 DEF Aside, IsAside
    <2>5. \/ toServer' = toServer
          \/ toServer' = Append(toServer, Msg("bodyAck"))
          \/ toServer' = toServer \o [i \in 1..owed |-> Msg("bodyAck")]
      BY DEF StartRequest, BodyPart, Acknowledged, Return, ReadBody, ReadHandedBody
    <2> QED BY <2>2, <2>3, <2>4, <2>5
  <1> QED BY <1>1, <1>2, <1>3, <1>4, QuietDown

(* The response goes another way, or is over, without a message of it.     *)
LEMMA TurnsDown ==
    ASSUME TypeOK, EndTypeOK, DownInv, kind # "give", owner # "worker",
           UNCHANGED <<kind, client, owner, got, unwritten, response, timer, leased, handing,
                       produced>>,
           Aside, answer # "sent",
           answer' \in {"asking", "streaming", "last", "over"},
           answer' = "asking" => answer = "none",
           answer \in {"last", "over"} => answer' \in {"last", "over"},
           leased /\ owner = "server" /\ answer' # "asking" =>
              ~Has(toServer', "ask") /\ handing \notin {"head", "active"}
    PROVE  DownInv'
  <1>1. /\ \A type \in {"response", "emit"} : Has(toServer', type) <=> Has(toServer, type)
        /\ Once(toServer, "response") => Once(toServer', "response")
    BY AsideKeeps DEF TypeOK
  <1>2. AtServer'
    <2> SUFFICES ASSUME leased, owner = "server"
                 PROVE  /\ WayDown'
                        /\ response' = "open" => got' = <<>> /\ unwritten' = <<>>
                        /\ response' = "ended" => answer' \in Over /\ ~Has(toServer', "emit")
                                                  /\ ~Has(toServer', "response")
                        /\ Has(toServer', "ask") \/ handing' \in {"head", "active"}
                              => answer' = "asking"
      BY DEF AtServer
    <2>1. /\ WayDown
          /\ response = "open" => got = <<>> /\ unwritten = <<>>
          /\ response = "ended" => answer \in Over /\ ~Has(toServer, "emit")
                                   /\ ~Has(toServer, "response")
      BY DEF DownInv, AtServer
    <2>2. WayDown' BY <2>1, WayStays
    <2> QED BY <1>1, <2>1, <2>2 DEF Over
  <1>3. GivenBack' BY DEF DownInv, GivenBack, Alone, ErrorText
  <1>4. Elsewhere' BY DEF DownInv, Elsewhere
  <1>5. SoFar' BY <1>1 DEF DownInv, SoFar
  <1> QED BY <1>2, <1>3, <1>4, <1>5 DEF DownInv

(* the question for the connection ends without one                        *)
LEMMA RefusedDown ==
    ASSUME IInv, EndTypeOK, DownInv, AbortRequest \/ Refused
    PROVE  DownInv'
  <1>1. /\ UNCHANGED <<kind, client, unwritten, response, timer, leased, handing>>
        /\ process = "up"
    BY WorkerLeaves DEF SessionStep
  <1>2. /\ UNCHANGED <<owner, got, produced, toServer>>
        /\ answer' = IF answer = "asking" THEN "streaming" ELSE answer
        /\ toWorker # <<>> /\ Head(toWorker).type \in {"abort", "refuse"}
    BY DEF AbortRequest, Refused, Gets, clientVars
  <1>3. TypeOK /\ Up /\ Aside BY <1>1, <1>2 DEF IInv, Aside
  <1>4. CASE answer # "asking"
    <2>1. answer' = answer BY <1>2, <1>4
    <2> QED BY <1>1, <1>2, <1>3, <2>1, QuietDown
  <1>5. CASE answer = "asking"
    <2>1. answer' = "streaming" /\ kind # "give" /\ owner # "worker"
      BY <1>2, <1>5 DEF DownInv, Elsewhere
    <2>2. leased => ~Has(toServer', "ask") /\ handing \notin {"head", "active"}
      <3>1. Has(toWorker, "abort") \/ Has(toWorker, "refuse")
        BY <1>2, <1>3, Taken DEF TypeOK
      <3> QED BY <1>2, <1>3, <3>1 DEF Up, Question
    <2> QED BY <1>1, <1>2, <1>3, <1>5, <2>1, <2>2, TurnsDown
  <1> QED BY <1>4, <1>5

(* the worker asks for the connection before it has produced a part        *)
LEMMA AskDown == ASSUME IInv, EndTypeOK, DownInv, AskForConnection PROVE DownInv'
  <1>1. /\ UNCHANGED <<kind, client, unwritten, response, timer, leased, handing>>
        /\ TypeOK /\ toServer \in Seq(Message)
    BY WorkerLeaves DEF WorkerStep, IInv, TypeOK
  <1>2. /\ kind # "give" /\ answer = "none" /\ UNCHANGED <<owner, got, produced>>
        /\ \/ answer' = "streaming" /\ toServer' = toServer
           \/ answer' = "asking" /\ toServer' = Append(toServer, Msg("ask"))
    BY DEF AskForConnection
  <1>3. Msg("ask") \in Message /\ Msg("ask").type = "ask" BY MessagesTyped
  <1>4. Aside BY <1>2, <1>3 DEF Aside, IsAside
  <1>5. owner # "worker" BY <1>2 DEF DownInv, Elsewhere
  <1>6. leased /\ owner = "server" => ~Has(toServer, "ask") /\ handing \notin {"head", "active"}
    BY <1>2 DEF DownInv, AtServer
  <1>7. answer # "sent" /\ answer \notin {"last", "over"} /\ answer' \in {"asking", "streaming"}
    BY <1>2
  <1> QED BY <1>1, <1>2, <1>4, <1>5, <1>6, <1>7, TurnsDown

(* a stream that settled, or takes no more                                 *)
LEMMA OverDown ==
    ASSUME IInv, EndTypeOK, DownInv,
           StreamSettled \/ (aborted /\ (StreamPart \/ StreamEnd))
    PROVE  DownInv'
  <1>1. /\ UNCHANGED <<kind, client, unwritten, response, timer, leased, handing>>
        /\ TypeOK /\ toServer \in Seq(Message)
    BY WorkerLeaves DEF WorkerStep, IInv, TypeOK
  <1>2. /\ UNCHANGED <<owner, got, produced, toServer>> /\ answer' = "over"
        /\ answer \in {"none", "streaming", "closing", "last"} /\ (answer = "none" => kind # "give")
    BY DEF StreamSettled, StreamPart, StreamEnd
  <1>3. kind # "give" /\ owner # "worker" BY <1>2 DEF DownInv, Elsewhere
  <1>4. leased /\ owner = "server" => ~Has(toServer, "ask") /\ handing \notin {"head", "active"}
    BY <1>2 DEF DownInv, AtServer
  <1>5. answer # "sent" /\ answer' # "asking" BY <1>2
  <1> QED BY <1>1, <1>2, <1>3, <1>4, <1>5, TurnsDown DEF Aside

(* a message of the response is sent                                       *)
LEMMA SentDown ==
    ASSUME TypeOK, EndTypeOK, DownInv, kind # "give", owner # "worker", answer \notin Over,
           NEW m \in Message, toServer' = Append(toServer, m),
           UNCHANGED <<kind, client, owner, got, unwritten, response, timer, leased, handing>>,
           leased /\ owner = "server" => WayDown' /\ answer # "asking",
           \/ m.type = "response" /\ answer' = "sent" /\ answer = "none" /\ produced' = 0
           \/ m.type = "emit" /\ answer' \in {"streaming", "last"}
    PROVE  DownInv'
  <1>1. /\ \A type : Has(toServer', type) <=> Has(toServer, type) \/ m.type = type
        /\ \A type : Once(toServer, type) /\ (m.type # type \/ ~Has(toServer, type))
                        => Once(toServer', type)
    BY Appended DEF TypeOK
  <1>2. ~Has(toServer, "response") /\ Once(toServer, "response") BY DEF DownInv, SoFar, Over
  <1>3. AtServer'
    <2> SUFFICES ASSUME leased, owner = "server"
                 PROVE  /\ WayDown'
                        /\ response' = "open" => got' = <<>> /\ unwritten' = <<>>
                        /\ response' # "ended"
                        /\ ~Has(toServer', "ask") /\ handing' \notin {"head", "active"}
      BY DEF AtServer
    <2> QED BY <1>1 DEF DownInv, AtServer
  <1>4. GivenBack' BY DEF DownInv, GivenBack, Alone, ErrorText
  <1>5. Elsewhere' BY DEF DownInv, Elsewhere
  <1>6. SoFar' BY <1>1, <1>2 DEF DownInv, SoFar
  <1> QED BY <1>3, <1>4, <1>5, <1>6 DEF DownInv

(* the answer in one piece is sent                                         *)
LEMMA SendDown ==
    ASSUME IInv, EndTypeOK, DownInv, SendResponse \/ Throw
    PROVE  DownInv'
  <1>1. /\ UNCHANGED <<kind, client, unwritten, response, timer, leased, handing>>
        /\ TypeOK /\ toServer \in Seq(Message)
    BY WorkerLeaves DEF WorkerStep, IInv, TypeOK
  <1>2. /\ kind # "give" /\ answer = "none" /\ answer' = "sent" /\ UNCHANGED <<owner, got, produced>>
        /\ toServer' = Append(toServer, Msg("response"))
    BY DEF SendResponse, Throw
  <1>3. Msg("response") \in Message /\ Msg("response").type = "response" BY MessagesTyped
  <1>4. owner # "worker" /\ produced' = 0 BY <1>2 DEF DownInv, Elsewhere, SoFar
  <1>5. ASSUME leased, owner = "server" PROVE WayDown' /\ answer # "asking"
    <2>1. got = <<>> /\ unwritten = <<>> BY <1>1, <1>2, <1>5, NothingYet
    <2>2. Has(toServer', "response") BY <1>1, <1>2, <1>3, Appended
    <2> QED BY <1>1, <1>2, <2>1, <2>2 DEF WayDown
  <1> QED BY <1>1, <1>2, <1>3, <1>4, <1>5, SentDown DEF Over

(* the worker sends its next part, or the end behind all of them           *)
LEMMA StreamDown ==
    ASSUME IInv, EndTypeOK, DownInv, ~aborted, StreamPart \/ StreamEnd
    PROVE  DownInv'
  <1> DEFINE m == [type |-> "emit", part |-> IF StreamPart THEN produced + 1 ELSE 0]
  <1>1. /\ UNCHANGED <<kind, client, unwritten, response, timer, leased, handing>>
        /\ TypeOK /\ toServer \in Seq(Message) /\ produced \in Nat /\ Due \in Nat /\ produced \in Int
    BY WorkerLeaves, DownTyped DEF WorkerStep, IInv, TypeOK
  <1>2. /\ UNCHANGED <<owner, got>>
        /\ answer \in {"none", "streaming", "closing"} /\ (answer = "none" => kind # "give")
        /\ \/ /\ answer # "closing" /\ answer' = "streaming" /\ produced' = produced + 1
              /\ m.part = produced + 1 /\ toServer' = Append(toServer, m)
           \/ /\ answer # "none" /\ answer' = "last" /\ produced' = produced
              /\ m.part = 0 /\ toServer' = Append(toServer, m)
    <2>1. CASE StreamPart BY <2>1 DEF StreamPart
    <2>2. CASE ~StreamPart BY <2>2 DEF StreamEnd, Msg
    <2> QED BY <2>1, <2>2
  <1>3. m \in Message /\ m.type = "emit" BY <1>1 DEF Message
  <1> HIDE DEF m
  <1>4. kind # "give" /\ owner # "worker" BY <1>2 DEF DownInv, Elsewhere
  <1>5. ASSUME leased, owner = "server" PROVE WayDown' /\ answer # "asking"
    <2>1. /\ answer # "closing" /\ Follows(got, 0) /\ Follows(unwritten, Len(got))
          /\ Row(toServer, "emit", Due, produced, FALSE)
      <3>1. answer # "closing" BY <1>5 DEF DownInv, Elsewhere
      <3>2. answer # "sent" /\ (answer \in {"last", "over"} <=> FALSE) BY <1>2
      <3>3. /\ Follows(got, 0) /\ Follows(unwritten, Len(got))
            /\ Row(toServer, "emit", Due, produced, answer \in {"last", "over"})
        BY <1>5, <3>2 DEF DownInv, AtServer, WayDown
      <3>4. Row(toServer, "emit", Due, produced, FALSE) BY <3>2, <3>3 DEF Row
      <3> QED BY <3>1, <3>3, <3>4
    <2>2. Due' = Due BY <1>1, <1>2 DEF Due
    <2>3. CASE answer' = "streaming"
      <3>1. produced' = produced + 1 /\ m.part = produced + 1 /\ toServer' = Append(toServer, m)
        BY <1>2, <2>3
      <3>2. IsPart(m, "emit") /\ produced + 1 \in Int BY <1>1, <1>3, <3>1 DEF IsPart
      <3>3. Row(Append(toServer, m), "emit", Due, produced + 1, FALSE)
        BY <1>1, <1>3, <2>1, <3>1, <3>2, RowAppended
      <3>4. Row(toServer', "emit", Due', produced', FALSE) BY <2>2, <3>1, <3>3
      <3>5. Row(toServer', "emit", Due', produced', answer' \in {"last", "over"})
        BY <3>4 DEF Row
      <3> QED BY <1>1, <1>2, <2>1, <2>3, <3>5 DEF WayDown, Follows
    <2>4. CASE answer' = "last"
      <3>1. produced' = produced /\ m.part = 0 /\ toServer' = Append(toServer, m) BY <1>2, <2>4
      <3>2. IsEnd(m, "emit") BY <1>3, <3>1 DEF IsEnd
      <3>3. Row(Append(toServer, m), "emit", Due, produced, TRUE)
        BY <1>1, <1>3, <2>1, <3>2, RowEnded
      <3>4. Row(toServer', "emit", Due', produced', TRUE) BY <2>2, <3>1, <3>3
      <3>5. Row(toServer', "emit", Due', produced', answer' \in {"last", "over"})
        BY <2>4, <3>4 DEF Row
      <3> QED BY <1>1, <1>2, <2>1, <2>4, <3>5 DEF WayDown, Follows
    <2>5. answer' = "streaming" \/ answer' = "last" BY <1>2
    <2>6. WayDown' BY <2>3, <2>4, <2>5
    <2> QED BY <1>2, <2>6
  <1> QED BY <1>1, <1>2, <1>3, <1>4, <1>5, SentDown DEF Over

(* the worker writes its next part to the connection                       *)
LEMMA WriteToSocketDown == ASSUME IInv, EndTypeOK, DownInv, WriteToSocket PROVE DownInv'
  <1>1. /\ UNCHANGED <<kind, client, unwritten, response, timer, leased, handing>>
        /\ TypeOK /\ produced \in Nat
    BY WorkerLeaves DEF WorkerStep, IInv, TypeOK
  <1>2. /\ owner = "worker" /\ UNCHANGED <<owner, toServer>> /\ answer' = "piping"
        /\ answer \in {"none", "piping"}
        /\ produced' = produced + 1 /\ got' = Append(got, produced + 1)
    BY DEF WriteToSocket
  <1>3. got = Numbers(produced) BY <1>2 DEF DownInv, Elsewhere
  <1>4. got' = Numbers(produced + 1) /\ got' \in Seq(Nat)
    <2>1. Numbers(produced + 1) = Append(Numbers(produced), produced + 1)
      BY <1>1, NumbersGrow, Zenon
    <2>2. produced + 1 \in Nat BY <1>1
    <2>3. Numbers(produced + 1) \in Seq(Nat) BY <2>2, NumbersGrow, Zenon
    <2> QED BY <1>2, <1>3, <2>1, <2>3
  <1>5. AtServer' BY <1>2 DEF AtServer
  <1>6. GivenBack' BY <1>1, <1>2 DEF DownInv, GivenBack
  <1>7. got' = Numbers(produced)' BY <1>2, <1>4 DEF Numbers
  <1>8. Elsewhere' BY <1>1, <1>2, <1>7 DEF DownInv, Elsewhere
  <1>9. SoFar' BY <1>1, <1>2 DEF DownInv, SoFar
  <1> QED BY <1>4, <1>5, <1>6, <1>8, <1>9 DEF DownInv

(* the worker ends the connection that it was given                        *)
LEMMA CloseSocketDown == ASSUME IInv, EndTypeOK, DownInv, CloseSocket PROVE DownInv'
  <1>1. /\ UNCHANGED <<kind, client, unwritten, response, timer, leased, handing>>
        /\ TypeOK /\ toServer \in Seq(Message)
    BY WorkerLeaves DEF IInv, TypeOK
  <1>2. /\ owner = "worker" /\ owner' = "closed" /\ UNCHANGED <<got, produced>>
        /\ \/ kind = "give" /\ answer' = "over" /\ toServer' = Append(toServer, Msg("done"))
           \/ kind # "give" /\ answer' = "closing" /\ toServer' = toServer
    BY DEF CloseSocket, SocketWritten
  <1>3. answer \in {"none", "piping"} /\ ~Has(toServer, "response") /\ ~Has(toServer, "emit")
    BY <1>2 DEF DownInv, Elsewhere, SoFar
  <1>4. ~Has(toServer', "response") /\ ~Has(toServer', "emit")
    <2>1. Msg("done") \in Message /\ Msg("done").type = "done" BY MessagesTyped
    <2>2. CASE kind = "give"
      <3> DEFINE longer == Append(toServer, Msg("done"))
      <3>1. toServer' = longer BY <1>2, <2>2
      <3>2. \A type : Has(longer, type) <=> Has(toServer, type) \/ Msg("done").type = type
        BY <1>1, <2>1, Appended
      <3> HIDE DEF longer
      <3>3. ~Has(longer, "response") /\ ~Has(longer, "emit") BY <1>3, <2>1, <3>2
      <3> QED BY <3>1, <3>3
    <2>3. CASE kind # "give"
      <3>1. toServer' = toServer BY <1>2, <2>3
      <3> QED BY <1>3, <3>1
    <2> QED BY <2>2, <2>3
  <1>5. Once(toServer', "response") BY <1>4 DEF Once, Has
  <1>6. AtServer' BY <1>2 DEF AtServer
  <1>7. GivenBack' BY <1>1, <1>2 DEF DownInv, GivenBack
  <1>8. Elsewhere' BY <1>1, <1>2 DEF DownInv, Elsewhere
  <1>9. SoFar' BY <1>1, <1>2, <1>4, <1>5 DEF DownInv, SoFar
  <1> QED BY <1>2, <1>6, <1>7, <1>8, <1>9 DEF DownInv

(* the connection arrives, or is closed as nobody waits for it             *)
LEMMA ReceiveConnectionDown == ASSUME IInv, EndTypeOK, DownInv, ReceiveConnection PROVE DownInv'
  <1>1. /\ UNCHANGED <<kind, client, unwritten, response, timer, leased, handing>>
        /\ TypeOK /\ Up
    BY WorkerLeaves DEF SessionStep, IInv
  <1>2. UNCHANGED <<got, produced, toServer>> /\ TakesOne /\ Aside
    BY DEF ReceiveConnection, TakesOne, Aside
  <1>3. ipc # <<>> /\ Head(ipc) = ipc[1] /\ 1 \in 1..Len(ipc)
    BY <1>1 DEF ReceiveConnection, TypeOK
  <1>4. Head(ipc).with => owner = "wire" /\ (Head(ipc).type = "request" <=> kind = "give")
    BY <1>1, <1>3 DEF Up, Carried
  <1>5. CASE ~Head(ipc).with
    <2>1. UNCHANGED <<owner, answer>> BY <1>5 DEF ReceiveConnection
    <2> QED BY <1>1, <1>2, <2>1, QuietDown
  <1>6. CASE Head(ipc).with /\ owner' = "worker"
    <2>1. /\ owner = "wire" /\ got = <<>> /\ answer \in {"none", "asking"}
          /\ answer' = "piping" \/ (kind = "give" /\ answer' = "none")
          /\ answer = "none" => kind = "give"
      BY <1>4, <1>6 DEF ReceiveConnection, StartHandedRequest, DownInv, Elsewhere
    <2>2. produced = 0 /\ ~Has(toServer, "response") /\ ~Has(toServer, "emit")
      BY <2>1 DEF DownInv, SoFar
    <2>3. got' = Numbers(produced)' BY <1>2, <2>1, <2>2 DEF Numbers
    <2>4. AtServer' /\ GivenBack' BY <1>1, <1>6, <2>1 DEF AtServer, DownInv, GivenBack
    <2>5. Elsewhere' BY <1>1, <1>6, <2>1, <2>3 DEF DownInv, Elsewhere
    <2>6. SoFar' BY <1>2, <2>1, <2>2 DEF DownInv, SoFar
    <2> QED BY <1>2, <2>4, <2>5, <2>6 DEF DownInv
  <1>7. CASE Head(ipc).with /\ owner' # "worker"
    <2>1. owner' = "closed" /\ answer' = answer
      BY <1>7 DEF ReceiveConnection, StartHandedRequest
    <2>2. ~leased' => timer' = "cleared" BY <1>1 DEF DownInv, GivenBack
    <2> QED BY <1>1, <1>2, <2>1, <2>2, LeavesDown
  <1> QED BY <1>5, <1>6, <1>7

(* the process exits: what it sent is still before the server              *)
LEMMA ExitDown == ASSUME IInv, EndTypeOK, DownInv, Exit PROVE DownInv'
  <1>1. /\ UNCHANGED <<kind, client, got, response, unwritten, timer, leased, handing, toServer,
                       answer, produced>>
        /\ owner' = IF owner \in {"worker", "wire"} THEN "closed" ELSE owner
        /\ TypeOK /\ TakesOne /\ Aside
    BY DEF Exit, serverVars, handVars, answerVars, IInv, TakesOne, Aside
  <1>2. CASE owner' = owner BY <1>1, <1>2, QuietDown
  <1>3. CASE owner' # owner
    <2>1. owner' = "closed" /\ (~leased' => timer' = "cleared")
      BY <1>1, <1>3 DEF DownInv, GivenBack
    <2> QED BY <1>1, <2>1, LeavesDown
  <1> QED BY <1>2, <1>3

(* DownInv is inductive, one case for each step                            *)
LEMMA DownStep == IInv /\ EndTypeOK /\ LogInv /\ LogInv' /\ DownInv /\ [Next]_all => DownInv'
  <1> SUFFICES ASSUME IInv, EndTypeOK, LogInv, LogInv', DownInv, [Next]_all PROVE DownInv' OBVIOUS
  <1>1. CASE UNCHANGED all
    <2>1. UNCHANGED <<kind, client, owner, got, response, unwritten, timer, leased, handing,
                      toServer, answer, produced>>
      BY <1>1 DEF all, vars, clientVars, serverVars, handVars, wires, workerVars, answerVars
    <2> QED BY <2>1, QuietDown DEF IInv, Aside
  <1>2. CASE ServerStep
    BY <1>2, ServerQuietDown, FailStepsDown, RespondDown, EmitDown, HandedDown, FinishDown
    DEF ServerStep
  <1>3. CASE SessionStep BY <1>3, WorkerQuietDown, RefusedDown, ReceiveConnectionDown DEF SessionStep
  <1>4. CASE WorkerStep
    BY <1>4, SendDown, AskDown, OverDown, StreamDown, WriteToSocketDown, WorkerQuietDown
    DEF WorkerStep
  <1>5. CASE \/ ClientTakes \/ WriteFails \/ ClientLeaves \/ TimerFires
             \/ SendConnection \/ ReadBody \/ ReadHandedBody \/ CloseSocket \/ Exit
    BY <1>5, ClientTakesDown, ServerQuietDown, ClientLeavesDown, FailStepsDown, SendConnectionDown,
       WorkerQuietDown, CloseSocketDown, ExitDown
  <1> QED BY <1>1, <1>2, <1>3, <1>4, <1>5 DEF Next, Step

-----------------------------------------------------------------------------
(* The refinement: the response                                            *)

(* what the mapping of the response says: given, ended, taken, outcome     *)
Out == IF answer = "sent" THEN <<Whole>> ELSE Numbers(produced)
AtEnd == produced \in {Chunks} \ {0} \/ answer \in {"sent", "closing", "last", "over"}
Came == IF got = <<ErrorText>> THEN <<>> ELSE got
Result == IF IsFailed THEN "cut"
          ELSE IF response = "finished" THEN "complete"
          ELSE IF owner # "server" /\ Len(got) \in {Chunks} \ {0} THEN "complete"
          ELSE IF client = "gone" \/ owner = "closed" THEN "cut"
          ELSE "open"

(* what is known of every state that the exchange reaches                  *)
Facts == IInv /\ EndTypeOK /\ LogInv /\ DownInv

(* the outcome of a response that has not come to its end                  *)
Pending == IF client = "gone" THEN "cut" ELSE "open"

(* how the response stands, by who has the connection                      *)
Stands ==
    /\ owner = "server" /\ leased => Came = got /\ ~Contains(got, ErrorText) /\ Result = Pending
    /\ owner = "server" /\ ~leased /\ response # "finished" => Came = <<>> /\ Result = "cut"
    /\ owner = "wire" => got = <<>> /\ Result = Pending
    /\ owner = "worker" =>
          /\ Came = got /\ ~Contains(got, ErrorText)
          /\ Result = IF Len(got) \in {Chunks} \ {0} THEN "complete" ELSE Pending
    /\ owner = "closed" \/ response = "finished" =>
          Result = IF ~Contains(got, ErrorText) /\ (response = "finished" \/ Len(got) \in {Chunks} \ {0})
                   THEN "complete" ELSE "cut"

(* no part is the text of the server                                       *)
LEMMA NoText ==
    ASSUME NEW s \in Seq(Nat), NEW n \in Nat, Follows(s, n), n + Len(s) <= Chunks
    PROVE  ~Contains(s, ErrorText)
  <1>1. Len(s) \in Nat /\ Chunks \in Nat BY SizesAssumption
  <1>2. \A i \in 1..Len(s) : s[i] <= Chunks BY <1>1 DEF Follows
  <1> QED BY <1>1, <1>2 DEF Contains, ErrorText

(* what is under way from the server is the response, and all of it when   *)
(* the client has as much as there is                                      *)
LEMMA WhatCame ==
    ASSUME Facts, owner = "server", leased
    PROVE  /\ ~Contains(got, ErrorText) /\ ~Contains(unwritten, ErrorText)
           /\ (response = "ended" /\ unwritten = <<>>) \/ Len(got) \in {Chunks} \ {0}
                 => got = Out /\ AtEnd
           /\ Len(got) # 0 => client = "there"
           /\ response # "finished"
  <1>1. /\ got \in Seq(Nat) /\ Len(got) \in Nat /\ unwritten \in Seq(Nat) /\ Len(unwritten) \in Nat
        /\ Due \in Nat /\ produced \in Nat /\ produced \in Int /\ produced <= Chunks
        /\ Chunks \in Nat /\ toServer \in Seq(Message) /\ TypeOK
    BY DownTyped DEF Facts, IInv
  <1>2. WayDown /\ (response = "ended" => ~Has(toServer, "response") /\ ~Has(toServer, "emit")
                                          /\ answer \in Over)
    BY DEF Facts, DownInv, AtServer
  <1>3. CASE answer = "sent"
    <2>1. (got = <<>> /\ unwritten = <<>>) \/ Alone(Whole) BY <1>2, <1>3 DEF WayDown
    <2>2. \A i \in 1..Len(<<Whole>>) : <<Whole>>[i] = 0 BY DEF Whole
    <2>3. ErrorText # 0 BY <1>1 DEF ErrorText
    <2>4. ~Contains(got, ErrorText) /\ ~Contains(unwritten, ErrorText)
      BY <2>1, <2>2, <2>3 DEF Contains, Alone
    <2>5. (response = "ended" /\ unwritten = <<>>) \/ Len(got) \in {Chunks} \ {0} => got = <<Whole>>
      <3>1. response = "ended" => Alone(Whole) BY <1>2, <1>3 DEF WayDown
      <3>2. Len(<<>>) = 0 /\ <<Whole>> # <<>> OBVIOUS
      <3> QED BY <2>1, <3>1, <3>2 DEF Alone
    <2>6. client = "there" BY <1>1, <1>3 DEF TypeOK, Facts, DownInv, Elsewhere
    <2>7. response # "finished" BY DEF Facts, LogInv, LoggedOnce
    <2> QED BY <1>3, <2>4, <2>5, <2>6, <2>7 DEF Out, AtEnd
  <1>4. CASE answer # "sent"
    <2>1. /\ Follows(got, 0) /\ Follows(unwritten, Len(got))
          /\ Row(toServer, "emit", Due, produced, answer \in {"last", "over"})
      BY <1>2, <1>4 DEF WayDown
    <2>2. Len(got) + Len(unwritten) <= produced
      <3>1. Due <= produced + 1 BY <2>1 DEF Row
      <3> QED BY <1>1, <3>1 DEF Due
    <2>3. ~Contains(got, ErrorText) BY <1>1, <2>1, <2>2, NoText
    <2>4. ~Contains(unwritten, ErrorText) BY <1>1, <2>1, <2>2, NoText
    <2>5. Len(got) = produced => got = Numbers(produced)
      <3>1. \A i \in 1..Len(got) : got[i] = i BY <1>1, <2>1 DEF Follows
      <3> QED BY <1>1, <3>1, WholeBody
    <2>6. response = "ended" /\ unwritten = <<>> => Len(got) = produced /\ AtEnd
      <3> SUFFICES ASSUME response = "ended", unwritten = <<>> PROVE Len(got) = produced /\ AtEnd
        OBVIOUS
      <3>1. ~Has(toServer, "emit") /\ answer \in Over BY <1>2
      <3>2. Due = produced + 1
        <4> DEFINE done == answer \in {"last", "over"}
        <4>1. Row(toServer, "emit", Due, produced, done) BY <2>1
        <4> HIDE DEF done
        <4> QED BY <1>1, <3>1, <4>1, RowNone
      <3> QED BY <1>1, <3>1, <3>2 DEF Due, AtEnd, Over
    <2>7. Len(got) \in {Chunks} \ {0} => Len(got) = produced /\ AtEnd BY <1>1, <2>2 DEF AtEnd
    <2>8. Len(got) # 0 => client = "there"
      <3> SUFFICES ASSUME client # "there" PROVE Len(got) = 0 OBVIOUS
      <3>1. answer = "none" BY <1>1 DEF TypeOK, Facts, DownInv, Elsewhere
      <3>2. got = <<>> BY <1>1, <3>1, NothingYet DEF Facts
      <3> QED BY <3>2
    <2>9. response # "finished" BY DEF Facts, LogInv, LoggedOnce
    <2> QED BY <1>4, <2>3, <2>4, <2>5, <2>6, <2>7, <2>8, <2>9 DEF Out
  <1> QED BY <1>3, <1>4

(* the outcome that the mapping computes, in each place of the connection  *)
LEMMA HowItStands == Facts => Stands
  <1> SUFFICES ASSUME Facts PROVE Stands OBVIOUS
  <1>1. /\ got \in Seq(Nat) /\ Len(got) \in Nat /\ unwritten \in Seq(Nat) /\ Len(unwritten) \in Nat
        /\ produced \in Nat /\ produced <= Chunks /\ Chunks \in Nat /\ TypeOK
        /\ ErrorText = Chunks + 1 /\ ErrorText \in Nat \ {0}
    BY DownTyped DEF Facts, IInv, ErrorText
  <1>2. GivenBack /\ Elsewhere BY DEF Facts, DownInv
  <1>3. \A i \in 1..Len(<<ErrorText>>) : <<ErrorText>>[i] = ErrorText OBVIOUS
  <1>4. ~Contains(got, ErrorText) => got # <<ErrorText>>
    <2>1. Contains(<<ErrorText>>, ErrorText) BY DEF Contains
    <2> QED BY <2>1
  <1>5. Contains(got \o unwritten, ErrorText) <=> Contains(got, ErrorText) \/ Contains(unwritten, ErrorText)
    <2> DEFINE both == got \o unwritten
    <2>1. /\ Len(both) = Len(got) + Len(unwritten)
          /\ \A i \in 1..Len(got) : both[i] = got[i]
          /\ \A i \in 1..Len(unwritten) : both[Len(got) + i] = unwritten[i]
      BY <1>1, QueueJoined
    <2> HIDE DEF both
    <2>2. ASSUME Contains(both, ErrorText) PROVE Contains(got, ErrorText) \/ Contains(unwritten, ErrorText)
      <3>1. PICK i \in 1..Len(both) : both[i] = ErrorText BY <2>2 DEF Contains
      <3>2. CASE i \in 1..Len(got) BY <2>1, <3>1, <3>2 DEF Contains
      <3>3. CASE i \notin 1..Len(got)
        <4>1. i - Len(got) \in 1..Len(unwritten) /\ i = Len(got) + (i - Len(got))
          BY <1>1, <2>1, <3>1, <3>3
        <4> QED BY <2>1, <3>1, <4>1 DEF Contains
      <3> QED BY <3>2, <3>3
    <2>3. ASSUME Contains(got, ErrorText) PROVE Contains(both, ErrorText)
      <3>1. PICK i \in 1..Len(got) : got[i] = ErrorText BY <2>3 DEF Contains
      <3>2. i \in 1..Len(both) BY <1>1, <2>1
      <3> QED BY <2>1, <3>1, <3>2 DEF Contains
    <2>4. ASSUME Contains(unwritten, ErrorText) PROVE Contains(both, ErrorText)
      <3>1. PICK i \in 1..Len(unwritten) : unwritten[i] = ErrorText BY <2>4 DEF Contains
      <3>2. Len(got) + i \in 1..Len(both) BY <1>1, <2>1
      <3> QED BY <2>1, <3>1, <3>2 DEF Contains
    <2> QED BY <2>2, <2>3, <2>4 DEF both
  <1>6. ~Contains(<<>>, ErrorText) BY DEF Contains
  <1>7. owner = "server" /\ leased => Came = got /\ ~Contains(got, ErrorText) /\ Result = Pending
    <2> SUFFICES ASSUME owner = "server", leased
                 PROVE  Came = got /\ ~Contains(got, ErrorText) /\ Result = Pending
      OBVIOUS
    <2>1. /\ ~Contains(got, ErrorText) /\ ~Contains(unwritten, ErrorText) /\ response # "finished"
      BY WhatCame
    <2> QED BY <1>4, <1>5, <2>1 DEF Came, Result, IsFailed, Pending
  <1>8. owner = "server" /\ ~leased /\ response # "finished" => Came = <<>> /\ Result = "cut"
    <2> SUFFICES ASSUME owner = "server", ~leased, response # "finished"
                 PROVE  Came = <<>> /\ Result = "cut"
      OBVIOUS
    <2>1. Alone(ErrorText) BY <1>2 DEF GivenBack
    <2>2. Contains(<<ErrorText>>, ErrorText) BY <1>3 DEF Contains
    <2>3. Contains(got, ErrorText) \/ Contains(unwritten, ErrorText) BY <2>1, <2>2 DEF Alone
    <2> QED BY <1>5, <2>1, <2>3 DEF Came, Result, IsFailed, Alone
  <1>9. owner = "wire" => got = <<>> /\ Result = Pending
    <2> SUFFICES ASSUME owner = "wire" PROVE got = <<>> /\ Result = Pending OBVIOUS
    <2>1. got = <<>> /\ response # "finished" /\ Len(got) = 0 BY <1>2 DEF GivenBack, Elsewhere
    <2> QED BY <1>6, <2>1 DEF Result, IsFailed, Pending
  <1>10. ASSUME owner = "worker"
         PROVE  /\ Came = got /\ ~Contains(got, ErrorText)
                /\ Result = IF Len(got) \in {Chunks} \ {0} THEN "complete" ELSE Pending
    <2>1. got = Numbers(produced) /\ response # "finished" BY <1>2, <1>10 DEF GivenBack, Elsewhere
    <2>2. Len(got) = produced /\ Follows(got, 0)
      <3>1. Len(Numbers(produced)) = produced /\ \A i \in 1..produced : Numbers(produced)[i] = i
        BY <1>1, NumbersGrow
      <3> QED BY <1>1, <2>1, <3>1 DEF Follows
    <2>3. ~Contains(got, ErrorText) BY <1>1, <2>2, NoText
    <2> QED BY <1>4, <1>10, <2>1, <2>3 DEF Came, Result, IsFailed, Pending
  <1>11. owner = "closed" =>
            Result = IF ~Contains(got, ErrorText) /\ (response = "finished" \/ Len(got) \in {Chunks} \ {0})
                     THEN "complete" ELSE "cut"
    BY DEF Result, IsFailed
  <1>12. response = "finished" /\ owner # "closed" =>
            Result = IF ~Contains(got, ErrorText) /\ (response = "finished" \/ Len(got) \in {Chunks} \ {0})
                     THEN "complete" ELSE "cut"
    <2> SUFFICES ASSUME response = "finished", owner # "closed"
                 PROVE  Result = IF ~Contains(got, ErrorText) THEN "complete" ELSE "cut"
      OBVIOUS
    <2>1. owner = "server" /\ unwritten = <<>> BY <1>2 DEF GivenBack
    <2>2. ~Contains(unwritten, ErrorText) BY <1>6, <2>1
    <2> QED BY <1>5, <2>1, <2>2 DEF Result, IsFailed
  <1> QED BY <1>7, <1>8, <1>9, <1>10, <1>11, <1>12 DEF Stands

(* the same of the next state                                              *)
LEMMA HowItWillStand == Facts' => Stands'
  BY HowItStands, PTL

(* A step that neither sends nor brings anything: it ends the sender, the  *)
(* response is complete, or cut, or nothing of this.                       *)
LEMMA ResponseMoves ==
    ASSUME Out' = Out, Came' = Came, AtEnd' = AtEnd \/ AtEnd',
           \/ Result' = Result
           \/ Result = "open" /\ Result' = "cut"
           \/ Result = "open" /\ Result' = "complete" /\ AtEnd' /\ Came = Out
    PROVE  [Response!Next]_(Response!vars)
  <1>1. AtEnd \in BOOLEAN /\ AtEnd' \in BOOLEAN BY DEF AtEnd
  <1>2. CASE Result' = Result
    <2>1. CASE AtEnd' = AtEnd
      <3>1. UNCHANGED Response!vars BY <1>2, <2>1 DEF Out, AtEnd, Came, Result, Response!vars
      <3> QED BY <3>1
    <2>2. CASE ~AtEnd /\ AtEnd'
      <3>1. Response!End BY <1>2, <2>2 DEF Out, AtEnd, Came, Result, Response!End
      <3> QED BY <3>1 DEF Response!Next
    <2> QED BY <1>1, <2>1, <2>2
  <1>3. CASE Result = "open" /\ Result' = "cut"
    <2>1. AtEnd' \in {AtEnd, TRUE} BY <1>1
    <2>2. Response!Cut BY <1>3, <2>1 DEF Out, AtEnd, Came, Result, Response!Cut
    <2> QED BY <2>2 DEF Response!Next
  <1>4. CASE Result = "open" /\ Result' = "complete" /\ AtEnd' /\ Came = Out
    <2>1. AtEnd' = TRUE BY <1>1, <1>4
    <2>2. Response!Complete BY <1>4, <2>1 DEF Out, AtEnd, Came, Result, Response!Complete
    <2> QED BY <2>2 DEF Response!Next
  <1> QED BY <1>2, <1>3, <1>4

(* the outcome stays when what it is computed from does                    *)
LEMMA OutStays ==
    ASSUME produced' = produced, answer' = answer \/ (answer # "sent" /\ answer' # "sent")
    PROVE  Out' = Out
  BY DEF Out, Numbers, Whole

(* A step beside the parts, by where the connection goes.                  *)
LEMMA BesideResponse ==
    ASSUME Facts, Facts', UNCHANGED <<kind, got>>, Out' = Out, AtEnd' = AtEnd \/ AtEnd',
           client' = client \/ client' = "gone",
           leased' => leased,
           \/ owner' = owner \/ owner' = "closed"
           \/ owner = "server" /\ owner' = "wire" /\ leased
           \/ owner = "wire" /\ owner' = "worker",
           response' = "finished" <=> response = "finished"
    PROVE  [Response!Next]_(Response!vars)
  <1>1. Stands /\ Stands' BY HowItStands, HowItWillStand
  <1>2. Came' = Came BY DEF Came, ErrorText
  <1>3. Contains(got', ErrorText') <=> Contains(got, ErrorText) BY DEF ErrorText
  <1>4. /\ TypeOK /\ Elsewhere /\ GivenBack /\ GivenBack' /\ TypeOK'
        /\ client \in {"there", "gone"} /\ client' \in {"there", "gone"}
        /\ owner \in {"server", "wire", "worker", "closed"} /\ leased \in BOOLEAN
    BY DEF Facts, DownInv, IInv, TypeOK
  <1>5. CASE owner = "closed" \/ response = "finished"
    <2>1. owner' = "closed" \/ response' = "finished" BY <1>5
    <2>2. Result' = Result BY <1>1, <1>3, <1>5, <2>1 DEF Stands
    <2> QED BY <1>2, <2>2, ResponseMoves
  <1>6. CASE owner = "server" /\ leased /\ response # "finished"
    <2>1. Result = Pending /\ ~Contains(got, ErrorText) BY <1>1, <1>6 DEF Stands
    <2>2. CASE owner' = "server" /\ leased'
      <3>1. Result' = Pending' BY <1>1, <2>2 DEF Stands
      <3> QED BY <1>2, <1>4, <2>1, <3>1, ResponseMoves DEF Pending
    <2>3. CASE owner' = "server" /\ ~leased'
      <3>1. Result' = "cut" BY <1>1, <1>6, <2>3 DEF Stands
      <3> QED BY <1>2, <2>1, <3>1, ResponseMoves DEF Pending
    <2>4. CASE owner' = "wire"
      <3>1. Result' = Pending' BY <1>1, <2>4 DEF Stands
      <3> QED BY <1>2, <1>4, <2>1, <3>1, ResponseMoves DEF Pending
    <2>5. CASE owner' = "closed" /\ Len(got) \in {Chunks} \ {0}
      <3>1. got = Out /\ AtEnd /\ client = "there" BY <1>6, <2>5, WhatCame
      <3>2. Result = "open" /\ Came = Out BY <1>1, <1>6, <3>1 DEF Stands, Pending
      <3>3. Result' = "complete" BY <1>1, <1>3, <2>1, <2>5 DEF Stands
      <3>4. AtEnd' BY <3>1
      <3> QED BY <1>2, <3>2, <3>3, <3>4, ResponseMoves
    <2>6. CASE owner' = "closed" /\ Len(got) \notin {Chunks} \ {0}
      <3>1. Result' = "cut" BY <1>1, <1>6, <2>6 DEF Stands
      <3> QED BY <1>2, <2>1, <3>1, ResponseMoves DEF Pending
    <2> QED BY <1>6, <2>2, <2>3, <2>4, <2>5, <2>6
  <1>7. CASE owner = "server" /\ ~leased /\ response # "finished"
    <2>1. Result = "cut" /\ Came = <<>> BY <1>1, <1>7 DEF Stands
    <2>2. CASE owner' = "server"
      <3>1. Result' = "cut" BY <1>1, <1>7, <2>2 DEF Stands
      <3> QED BY <1>2, <2>1, <3>1, ResponseMoves
    <2>3. CASE owner' = "closed"
      <3>1. Result' = "cut"
        <4>1. Alone(ErrorText) BY <1>4, <1>7 DEF GivenBack
        <4>2. got = <<>> \/ got = <<ErrorText>> BY <4>1 DEF Alone
        <4>3. got = <<>> => Len(got) = 0 OBVIOUS
        <4>4. got = <<ErrorText>> => Contains(got, ErrorText)
          <5>1. Len(<<ErrorText>>) = 1 /\ <<ErrorText>>[1] = ErrorText OBVIOUS
          <5> QED BY <5>1 DEF Contains
        <4> QED BY <1>1, <1>3, <1>7, <2>3, <4>2, <4>3, <4>4 DEF Stands
      <3> QED BY <1>2, <2>1, <3>1, ResponseMoves
    <2> QED BY <1>7, <2>2, <2>3
  <1>8. CASE owner = "wire"
    <2>1. got = <<>> /\ Len(got) = 0 /\ Result = Pending /\ response # "finished"
      BY <1>1, <1>4, <1>8 DEF Stands, GivenBack
    <2>2. CASE owner' = "closed"
      <3>1. Result' = "cut" BY <1>1, <2>1, <2>2 DEF Stands
      <3> QED BY <1>2, <2>1, <3>1, ResponseMoves DEF Pending
    <2>3. CASE owner' # "closed"
      <3>1. Result' = Pending' BY <1>1, <1>8, <2>1, <2>3 DEF Stands
      <3> QED BY <1>2, <1>4, <2>1, <3>1, ResponseMoves DEF Pending
    <2> QED BY <2>2, <2>3
  <1>9. CASE owner = "worker"
    <2>1. /\ ~Contains(got, ErrorText) /\ response # "finished"
          /\ Result = IF Len(got) \in {Chunks} \ {0} THEN "complete" ELSE Pending
      BY <1>1, <1>4, <1>9 DEF Stands, GivenBack
    <2>2. CASE owner' = "closed"
      <3>1. Result' = IF Len(got) \in {Chunks} \ {0} THEN "complete" ELSE "cut"
        BY <1>1, <1>3, <2>1, <2>2 DEF Stands
      <3> QED BY <1>2, <2>1, <3>1, ResponseMoves DEF Pending
    <2>3. CASE owner' # "closed"
      <3>1. owner' = "worker" BY <1>9, <2>3
      <3>2. Result' = IF Len(got) \in {Chunks} \ {0} THEN "complete" ELSE Pending'
        BY <1>1, <3>1 DEF Stands
      <3> QED BY <1>2, <1>4, <2>1, <3>2, ResponseMoves DEF Pending
    <2> QED BY <2>2, <2>3
  <1> QED BY <1>4, <1>5, <1>6, <1>7, <1>8, <1>9

(* what the server, the client and the wire do beside                      *)
LEMMA ServerBesideResponse ==
    ASSUME Facts, Facts',
           \/ UploadPart \/ UploadEnd \/ ServerDrops \/ BodyTaken \/ Respond \/ Emit
           \/ EmitAfterHandOff \/ StartHandOff \/ RequestHandOffDone \/ HeadWritten
           \/ ConnectionSent \/ ConnectionNotSent \/ Closed \/ TimerFires \/ WriteFails
           \/ ClientLeaves \/ SendConnection \/ Exit
    PROVE  [Response!Next]_(Response!vars)
  <1>1. UNCHANGED <<kind, got, answer, produced>>
    <2>1. CASE \/ UploadPart \/ UploadEnd \/ ServerDrops \/ BodyTaken \/ Respond \/ Emit
               \/ EmitAfterHandOff \/ StartHandOff \/ RequestHandOffDone
      BY <2>1 DEF UploadPart, UploadEnd, ServerDrops, BodyTaken, Respond, Emit, EmitAfterHandOff,
                  StartHandOff, RequestHandOffDone, Receives, clientVars, workerVars, answerVars
    <2>2. CASE \/ HeadWritten \/ ConnectionSent \/ ConnectionNotSent \/ Closed \/ TimerFires
               \/ WriteFails \/ ClientLeaves \/ SendConnection \/ Exit
      BY <2>2 DEF HeadWritten, ConnectionSent, ConnectionNotSent, Closed, TimerFires, WriteFails,
                  ClientLeaves, SendConnection, Exit, clientVars, workerVars, answerVars
    <2> QED BY <2>1, <2>2
  <1>2. Out' = Out /\ (AtEnd' = AtEnd) BY <1>1, OutStays DEF AtEnd
  <1>3. client' = client \/ client' = "gone"
    <2>1. CASE \/ UploadPart \/ UploadEnd \/ ServerDrops \/ BodyTaken \/ Respond \/ Emit
               \/ EmitAfterHandOff \/ StartHandOff \/ RequestHandOffDone
      BY <2>1 DEF UploadPart, UploadEnd, ServerDrops, BodyTaken, Respond, Emit, EmitAfterHandOff,
                  StartHandOff, RequestHandOffDone, Receives, clientVars
    <2>2. CASE \/ HeadWritten \/ ConnectionSent \/ ConnectionNotSent \/ Closed \/ TimerFires
               \/ WriteFails \/ ClientLeaves \/ SendConnection \/ Exit
      BY <2>2 DEF HeadWritten, ConnectionSent, ConnectionNotSent, Closed, TimerFires, WriteFails,
                  ClientLeaves, SendConnection, Exit, clientVars
    <2> QED BY <2>1, <2>2
  <1>4. leased' => leased
    <2>1. \A out : Cleanup(out) => (leased' => leased) BY DEF Cleanup
    <2>2. FailRequest => (leased' => leased) BY <2>1 DEF FailRequest
    <2>3. CASE \/ UploadPart \/ UploadEnd \/ ServerDrops \/ BodyTaken \/ Respond \/ Emit
               \/ EmitAfterHandOff \/ StartHandOff \/ RequestHandOffDone
      BY <2>1, <2>2, <2>3
      DEF UploadPart, UploadEnd, ServerDrops, BodyTaken, Respond, Emit, EmitAfterHandOff,
          StartHandOff, RequestHandOffDone, serverVars
    <2>4. CASE \/ HeadWritten \/ ConnectionSent \/ ConnectionNotSent \/ Closed \/ TimerFires
               \/ WriteFails \/ ClientLeaves \/ SendConnection \/ Exit
      BY <2>1, <2>2, <2>4
      DEF HeadWritten, ConnectionSent, ConnectionNotSent, Closed, TimerFires, WriteFails,
          ClientLeaves, SendConnection, Exit, serverVars
    <2> QED BY <2>3, <2>4
  <1>5. \/ owner' = owner \/ owner' = "closed"
        \/ owner = "server" /\ owner' = "wire" /\ leased
    <2>1. FailRequest => owner' = owner \/ owner' = "closed" BY DEF FailRequest
    <2>2. CASE SendConnection
      <3>1. owner' = IF owner = "server" THEN "wire" ELSE owner BY <2>2 DEF SendConnection
      <3> QED BY <2>2, <3>1, ToBeGiven DEF Facts
    <2>3. CASE \/ UploadPart \/ UploadEnd \/ ServerDrops \/ BodyTaken \/ Respond \/ Emit
               \/ EmitAfterHandOff \/ StartHandOff \/ RequestHandOffDone
      BY <2>1, <2>3
      DEF UploadPart, UploadEnd, ServerDrops, BodyTaken, Respond, Emit, EmitAfterHandOff,
          StartHandOff, RequestHandOffDone, clientVars
    <2>4. CASE \/ HeadWritten \/ ConnectionSent \/ ConnectionNotSent \/ Closed \/ TimerFires
               \/ WriteFails \/ ClientLeaves \/ Exit
      BY <2>1, <2>4
      DEF HeadWritten, ConnectionSent, ConnectionNotSent, Closed, TimerFires, WriteFails,
          ClientLeaves, Exit, clientVars
    <2> QED BY <2>2, <2>3, <2>4
  <1>6. response' = "finished" <=> response = "finished"
    <2>1. FailRequest => (response' = "finished" <=> response = "finished") BY DEF FailRequest
    <2>2. CASE Respond \/ Emit
      <3>1. leased /\ response' # "finished" BY <2>2, WrittenDown DEF Facts
      <3> QED BY <3>1 DEF Facts, LogInv, LoggedOnce
    <2>3. CASE \/ UploadPart \/ UploadEnd \/ ServerDrops \/ BodyTaken
               \/ EmitAfterHandOff \/ StartHandOff \/ RequestHandOffDone
      BY <2>1, <2>3
      DEF UploadPart, UploadEnd, ServerDrops, BodyTaken, EmitAfterHandOff, StartHandOff,
          RequestHandOffDone, serverVars
    <2>4. CASE \/ HeadWritten \/ ConnectionSent \/ ConnectionNotSent \/ Closed \/ TimerFires
               \/ WriteFails \/ ClientLeaves \/ SendConnection \/ Exit
      BY <2>1, <2>4
      DEF HeadWritten, ConnectionSent, ConnectionNotSent, Closed, TimerFires, WriteFails,
          ClientLeaves, SendConnection, Exit, serverVars
    <2> QED BY <2>2, <2>3, <2>4
  <1> QED BY <1>1, <1>2, <1>3, <1>4, <1>5, <1>6, BesideResponse

(* what the worker does beside, and when it is at its end                  *)
LEMMA WorkerBesideResponse ==
    ASSUME Facts, Facts',
           \/ SessionStep \/ AskForConnection \/ StreamEnd \/ StreamSettled \/ Return
           \/ ReadBody \/ ReadHandedBody \/ CloseSocket \/ (aborted /\ StreamPart)
    PROVE  [Response!Next]_(Response!vars)
  <1>1. UNCHANGED <<kind, client, leased, response>> /\ process = "up" /\ IInv /\ DownInv
    BY WorkerLeaves DEF WorkerStep, Facts
  <1>2. UNCHANGED <<got, produced>>
    BY DEF SessionStep, StartRequest, BodyPart, Acknowledged, AbortRequest, Refused, ReceiveConnection,
           Gets, AskForConnection, StreamEnd, StreamSettled, Return, ReadBody, ReadHandedBody,
           CloseSocket, StreamPart, clientVars, answerVars
  <1>3. /\ answer' = answer \/ (answer # "sent" /\ answer' # "sent")
        /\ answer \in {"sent", "closing", "last", "over"} => answer' \in {"sent", "closing", "last", "over"}
    <2>1. CASE SessionStep
      BY <2>1
      DEF SessionStep, StartRequest, BodyPart, Acknowledged, AbortRequest, Refused, ReceiveConnection,
          StartHandedRequest, answerVars
    <2>2. CASE \/ AskForConnection \/ StreamEnd \/ StreamSettled \/ Return \/ ReadBody
               \/ ReadHandedBody \/ (aborted /\ StreamPart)
      BY <2>2 DEF AskForConnection, StreamEnd, StreamSettled, Return, ReadBody, ReadHandedBody,
                  StreamPart, answerVars
    <2>3. CASE CloseSocket
      <3>1. answer \in {"none", "piping"} BY <1>1, <2>3 DEF CloseSocket, DownInv, Elsewhere
      <3>2. answer' \in {"over", "closing"} BY <2>3 DEF CloseSocket, SocketWritten
      <3> QED BY <3>1, <3>2
    <2> QED BY <2>1, <2>2, <2>3
  <1>4. Out' = Out BY <1>2, <1>3, OutStays
  <1>5. AtEnd' = AtEnd \/ AtEnd'
    <2>1. AtEnd => AtEnd' BY <1>2, <1>3 DEF AtEnd
    <2>2. AtEnd \in BOOLEAN /\ AtEnd' \in BOOLEAN BY DEF AtEnd
    <2> QED BY <2>1, <2>2
  <1>6. \/ owner' = owner \/ owner' = "closed"
        \/ owner = "wire" /\ owner' = "worker"
    <2>1. CASE ReceiveConnection
      <3>1. ipc # <<>> /\ Head(ipc) = ipc[1] /\ 1 \in 1..Len(ipc)
        BY <1>1, <2>1 DEF ReceiveConnection, IInv, TypeOK
      <3>2. Head(ipc).with => owner = "wire" BY <1>1, <3>1 DEF IInv, Up, Carried
      <3>3. owner' = owner \/ (Head(ipc).with /\ owner' \in {"worker", "closed"})
        BY <2>1 DEF ReceiveConnection, StartHandedRequest
      <3> QED BY <3>2, <3>3
    <2>2. CASE SessionStep /\ ~ReceiveConnection
      BY <2>2 DEF SessionStep, StartRequest, BodyPart, Acknowledged, AbortRequest, Refused, Gets,
                  clientVars
    <2>3. CASE ~SessionStep
      BY <2>3 DEF AskForConnection, StreamEnd, StreamSettled, Return, ReadBody, ReadHandedBody,
                  CloseSocket, StreamPart
    <2> QED BY <2>1, <2>2, <2>3
  <1> QED BY <1>1, <1>2, <1>4, <1>5, <1>6, BesideResponse

(* the response, or a part of it, is handed over                           *)
LEMMA ResponseGiven ==
    ASSUME Facts, (~aborted /\ StreamPart) \/ SendResponse \/ Throw
    PROVE  [Response!Next]_(Response!vars)
  <1>1. /\ UNCHANGED <<client, unwritten, response>> /\ UNCHANGED <<owner, got>>
        /\ produced \in Nat /\ Chunks \in Nat /\ DownInv
    BY WorkerLeaves, DownTyped DEF WorkerStep, StreamPart, SendResponse, Throw, Facts, IInv
  <1>2. Came' = Came /\ Result' = Result
    BY <1>1 DEF Came, Result, IsFailed, ErrorText, Contains
  <1>3. ~AtEnd /\ (AtEnd' \in BOOLEAN) /\ \E part \in 0..Chunks : Out' = Append(Out, part)
    <2>1. CASE StreamPart
      <3>1. /\ answer \in {"none", "streaming"} /\ produced < Chunks
            /\ answer' = "streaming" /\ produced' = produced + 1
        BY <2>1, <1>1 DEF StreamPart, SendResponse, Throw
      <3>2. Out = Numbers(produced) /\ Out' = Numbers(produced + 1)
        BY <3>1 DEF Out, Numbers
      <3>3. Out' = Append(Out, produced + 1)
        <4>1. Numbers(produced + 1) = Append(Numbers(produced), produced + 1)
          BY <1>1, NumbersGrow, Zenon
        <4> QED BY <3>2, <4>1
      <3>4. produced + 1 \in 0..Chunks BY <1>1, <3>1
      <3>5. ~AtEnd BY <1>1, <3>1 DEF AtEnd
      <3>6. AtEnd' \in BOOLEAN BY DEF AtEnd
      <3> QED BY <3>3, <3>4, <3>5, <3>6
    <2>2. CASE SendResponse \/ Throw
      <3>1. answer = "none" /\ answer' = "sent" BY <2>2 DEF SendResponse, Throw
      <3>2. produced = 0 BY <1>1, <3>1 DEF DownInv, SoFar
      <3>3. Numbers(0) = <<>> BY DEF Numbers
      <3>4. Out = <<>> /\ Out' = <<Whole>> BY <3>1, <3>2, <3>3 DEF Out, Whole
      <3>5. <<Whole>> = Append(<<>>, Whole) /\ Whole \in 0..Chunks BY <1>1 DEF Whole
      <3>6. ~AtEnd BY <3>1, <3>2 DEF AtEnd
      <3>7. AtEnd' \in BOOLEAN BY DEF AtEnd
      <3> QED BY <3>4, <3>5, <3>6, <3>7
    <2> QED BY <2>1, <2>2
  <1>4. Response!Give BY <1>2, <1>3 DEF Out, AtEnd, Came, Result, Response!Give
  <1> QED BY <1>4 DEF Response!Next

(* a part goes to the client on the connection itself                      *)
LEMMA ResponsePassed ==
    ASSUME Facts, Facts', WriteToSocket
    PROVE  [Response!Next]_(Response!vars)
  <1>1. /\ owner = "worker" /\ owner' = "worker" /\ client = "there" /\ client' = "there"
        /\ produced < Chunks /\ produced' = produced + 1 /\ got' = Append(got, produced + 1)
        /\ answer \in {"none", "piping"} /\ answer' = "piping"
    BY DEF WriteToSocket, Works
  <1>2. /\ produced \in Nat /\ Chunks \in Nat /\ got = Numbers(produced)
        /\ Stands /\ Stands'
    BY <1>1, DownTyped, HowItStands, HowItWillStand DEF Facts, IInv, DownInv, Elsewhere
  <1>3. /\ Len(got) = produced /\ Len(got') = produced + 1
        /\ got' = Numbers(produced + 1) /\ got' = Append(got, produced + 1)
    <2>1. /\ Numbers(produced + 1) = Append(Numbers(produced), produced + 1)
          /\ Len(Numbers(produced)) = produced
      BY <1>2, NumbersGrow, Zenon
    <2>2. produced + 1 \in Nat BY <1>2
    <2>3. Len(Numbers(produced + 1)) = produced + 1 BY <2>2, NumbersGrow, Zenon
    <2> QED BY <1>1, <1>2, <2>1, <2>3
  <1>4. Out = got /\ Out' = got' BY <1>1, <1>2, <1>3 DEF Out, Numbers
  <1>5. Came = got /\ Came' = got' BY <1>1, <1>2 DEF Stands
  <1>6. ~AtEnd BY <1>1, <1>2 DEF AtEnd
  <1>7. Result = "open"
    <2>1. Len(got) \notin {Chunks} \ {0} BY <1>1, <1>2, <1>3
    <2> QED BY <1>1, <1>2, <2>1 DEF Stands, Pending
  <1>8. Result' \in {"open"} \cup {o \in {"complete"} : AtEnd'}
    <2>1. Result' = IF Len(got') \in {Chunks} \ {0} THEN "complete" ELSE "open"
      BY <1>1, <1>2 DEF Stands, Pending
    <2>2. Len(got') \in {Chunks} \ {0} => AtEnd' BY <1>1, <1>3 DEF AtEnd
    <2> QED BY <2>1, <2>2
  <1>9. produced + 1 \in 0..Chunks BY <1>1, <1>2
  <1>10. AtEnd' \in BOOLEAN BY DEF AtEnd
  <1>11. Response!Pass
    BY <1>3, <1>4, <1>5, <1>6, <1>7, <1>8, <1>9, <1>10 DEF Out, AtEnd, Came, Result, Response!Pass
  <1> QED BY <1>11 DEF Response!Next

(* the client takes the next part, or the text of the server               *)
LEMMA ResponseTaken ==
    ASSUME Facts, Facts', ClientTakes
    PROVE  [Response!Next]_(Response!vars)
  <1>1. /\ owner = "server" /\ owner' = "server" /\ client = "there" /\ client' = "there"
        /\ UNCHANGED <<response, leased, answer, produced>> /\ response \in {"started", "ended"}
        /\ TypeOK /\ EndTypeOK /\ DownInv /\ leased \in BOOLEAN
    BY DEF ClientTakes, workerVars, answerVars, Facts, IInv, TypeOK
  <1>2. Stands /\ Stands' BY HowItStands, HowItWillStand
  <1>3. Out' = Out /\ AtEnd' = AtEnd BY <1>1, OutStays DEF AtEnd
  <1>4. CASE ~leased
    <2>1. Came' = Came /\ Result' = Result BY <1>1, <1>2, <1>4 DEF Stands
    <2> QED BY <1>3, <2>1, ResponseMoves
  <1>5. CASE leased
    <2>1. Came = got /\ Came' = got' /\ Result = "open" /\ Result' = "open"
      BY <1>1, <1>2, <1>5 DEF Stands, Pending
    <2>2. Len(got) < Len(Out) /\ got' = Append(got, Out[Len(got) + 1])
      <3>1. CASE answer = "sent"
        <4>1. Alone(Whole) BY <1>1, <1>5, <3>1 DEF DownInv, AtServer, WayDown, ClientTakes
        <4>2. got = <<>> /\ got' = <<Whole>> BY <4>1, AloneTaken DEF Whole
        <4>3. Out = <<Whole>> BY <3>1 DEF Out
        <4>4. /\ Len(<<>>) = 0 /\ Len(<<Whole>>) = 1 /\ <<Whole>>[1] = Whole
              /\ Append(<<>>, Whole) = <<Whole>>
          OBVIOUS
        <4> QED BY <4>2, <4>3, <4>4
      <3>2. CASE answer # "sent"
        <4>1. got' = Append(got, Len(got) + 1) /\ Len(got) + 1 <= produced
          BY <1>1, <1>5, <3>2, TakenInOrder
        <4>2. produced \in Nat /\ Len(got) \in Nat BY <1>1, DownTyped
        <4>3. Len(Numbers(produced)) = produced /\ \A i \in 1..produced : Numbers(produced)[i] = i
          BY <4>2, NumbersGrow
        <4>4. Out = Numbers(produced) BY <3>2 DEF Out
        <4>5. Len(got) + 1 \in 1..produced BY <4>1, <4>2
        <4> QED BY <4>1, <4>2, <4>3, <4>4, <4>5
      <3> QED BY <3>1, <3>2
    <2>3. Response!Take BY <1>3, <2>1, <2>2 DEF Out, AtEnd, Came, Result, Response!Take
    <2> QED BY <2>3 DEF Response!Next
  <1> QED BY <1>1, <1>4, <1>5

(* the response finishes: all of it has come, or the text of the server    *)
LEMMA ResponseFinishes ==
    ASSUME Facts, Facts', Finish
    PROVE  [Response!Next]_(Response!vars)
  <1>1. /\ owner = "server" /\ client = "there" /\ response = "ended" /\ unwritten = <<>>
        /\ response' = "finished" /\ UNCHANGED <<kind, got, answer, produced>>
        /\ leased \in BOOLEAN
    BY DEF Finish, workerVars, answerVars, Facts, IInv, TypeOK
  <1>2. Stands /\ Stands' BY HowItStands, HowItWillStand
  <1>3. Out' = Out /\ AtEnd' = AtEnd BY <1>1, OutStays DEF AtEnd
  <1>4. Came' = Came /\ (Contains(got', ErrorText') <=> Contains(got, ErrorText))
    BY <1>1 DEF Came, ErrorText
  <1>5. CASE leased
    <2>1. got = Out /\ AtEnd /\ ~Contains(got, ErrorText) BY <1>1, <1>5, WhatCame
    <2>2. Came = Out /\ Result = "open" BY <1>1, <1>2, <1>5, <2>1 DEF Stands, Pending
    <2>3. Result' = "complete" BY <1>1, <1>2, <1>4, <2>1 DEF Stands
    <2>4. AtEnd' BY <1>3, <2>1
    <2> QED BY <1>3, <1>4, <2>2, <2>3, <2>4, ResponseMoves
  <1>6. CASE ~leased
    <2>1. Result = "cut" BY <1>1, <1>2, <1>6 DEF Stands
    <2>2. got = <<ErrorText>> BY <1>1, <1>6 DEF Facts, DownInv, GivenBack, Alone
    <2>3. Contains(got, ErrorText)
      <3>1. Len(<<ErrorText>>) = 1 /\ <<ErrorText>>[1] = ErrorText OBVIOUS
      <3> QED BY <2>2, <3>1 DEF Contains
    <2>4. Result' = "cut" BY <1>1, <1>2, <1>4, <2>3 DEF Stands
    <2> QED BY <1>3, <1>4, <2>1, <2>4, ResponseMoves
  <1> QED BY <1>1, <1>5, <1>6

(* the exchange begins like Delivery                                       *)
LEMMA ResponseStart == Init => Response!Init
  <1> SUFFICES ASSUME Init PROVE Response!Init OBVIOUS
  <1>1. /\ got = <<>> /\ unwritten = <<>> /\ produced = 0 /\ answer = "none"
        /\ response \in {"open", "destroyed"}
    BY DEF Init
  <1>2. Numbers(0) = <<>> /\ Len(<<>>) = 0 /\ <<>> # <<ErrorText>> /\ <<>> \o <<>> = <<>>
    BY DEF Numbers
  <1>3. ~Contains(<<>>, ErrorText) BY DEF Contains
  <1>4. Out = <<>> /\ AtEnd = FALSE /\ Came = <<>>
    BY <1>1, <1>2 DEF Out, AtEnd, Came
  <1>5. ~IsFailed BY <1>1, <1>2, <1>3 DEF IsFailed
  <1>6. Result \in {"open", "cut"} BY <1>1, <1>2, <1>5 DEF Result
  <1> QED BY <1>4, <1>6 DEF Response!Init, Out, AtEnd, Came, Result

(* every step of the exchange is a step of Delivery or a stutter           *)
LEMMA ResponseStep == Facts /\ Facts' /\ [Next]_all => [Response!Next]_(Response!vars)
  <1> SUFFICES ASSUME Facts, Facts', [Next]_all PROVE [Response!Next]_(Response!vars) OBVIOUS
  <1>1. CASE UNCHANGED all
    <2>1. UNCHANGED <<client, owner, got, response, unwritten, answer, produced>>
      BY <1>1 DEF all, vars, clientVars, serverVars, workerVars, answerVars
    <2>2. UNCHANGED Response!vars BY <2>1 DEF Response!vars, IsFailed, Numbers, ErrorText, Whole
    <2> QED BY <2>2
  <1>2. CASE ServerStep \/ WriteFails \/ ClientLeaves \/ TimerFires \/ SendConnection \/ Exit
    BY <1>2, ServerBesideResponse, ResponseFinishes DEF ServerStep
  <1>3. CASE SessionStep \/ WorkerStep \/ ReadBody \/ ReadHandedBody \/ CloseSocket
    BY <1>3, WorkerBesideResponse, ResponseGiven, ResponsePassed DEF WorkerStep
  <1>4. CASE ClientTakes BY <1>4, ResponseTaken
  <1> QED BY <1>1, <1>2, <1>3, <1>4 DEF Next, Step

(* The response is delivered (serve-request.ts, create-response-sender.ts, *)
(* stream-response.ts and write-to-socket.ts): the client receives its     *)
(* parts in order, none twice and none left out, through the server or on  *)
(* the connection that was handed over; it takes the response for complete *)
(* only when the worker was at its end and all of it has come, and a text  *)
(* of the server stands for it only when nothing of it came.  The exchange *)
(* implements the specification Delivery in this direction too.            *)
THEOREM ResponseDelivered == Spec => ResponseIsDelivered
  <1>1. Init => Facts /\ Response!Init
    BY Initially, EndTypedInitially, LogInitially, DownInitially, ResponseStart DEF Facts
  <1>2. Facts /\ [Next]_all => Facts'
    <2> SUFFICES ASSUME Facts, [Next]_all PROVE Facts' OBVIOUS
    <2>1. IInv' BY StepKeeps DEF Facts
    <2>2. EndTypeOK' BY EndTypedKept DEF Facts
    <2>3. LogInv' BY <2>1, LogKept DEF Facts
    <2>4. DownInv' BY <2>3, DownStep DEF Facts
    <2> QED BY <2>1, <2>2, <2>3, <2>4 DEF Facts
  <1> QED BY <1>1, <1>2, ResponseStep, PTL DEF Spec, ResponseIsDelivered, Response!Spec
=============================================================================
