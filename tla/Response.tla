------------------------------ MODULE Response ------------------------------
(***************************************************************************)
(* What the handlers around a server make of its response: the page of an  *)
(* error status in place of the body, inside the compression, whose places *)
(* the responses of a server share.  The response is written in one call,  *)
(* in parts as a worker streams it, or piped from the target of a proxy,   *)
(* whose head is a list that neither handler changes.  A handler that took *)
(* its time answers a response that is closed as well.  Requests are no    *)
(* HEAD, whose answers are never compressed.                               *)
(***************************************************************************)
EXTENDS Integers, Sequences, FiniteSets, SequencesExt, FiniteSetsExt

CONSTANTS
    Responses,      \* responses of a server at a time
    Concurrency,    \* places of the compression, 0 for no limit
    Parts,          \* of a body
    Sources,        \* "send", "parts" or "proxy"
    Kinds,          \* of a body: "text", "html", "small" (a text below the threshold),
                    \* "encoded" (or not to be changed) or "binary"
    Supported,      \* the encodings of the options, in their order
    Accepts,        \* what clients accept: encoding or "*" -> weight
    Upgrades        \* whether a proxied request may ask for an upgrade

VARIABLES
    plan,       \* of each response: where it is from, its type and status
    target,     \* of a proxy: "unasked", "asked", "answered", "destroyed" (its error is to come) or "over"
    written,    \* parts the server wrote, -1 before the head, Parts + 1 ended
    page,       \* the page is sent in place of the body
    head,       \* the heads that were written; "gone": after the response was closed
    stream,     \* the compressor: "none", "open", "destroyed", "ended" or "closed"
    inside,     \* what it was given and did not put out, End at last
    paused,     \* it waits for the client
    out,        \* what went out of the original write and end
    connection, \* the response: "open", "finished" or "closed"
    released,   \* whether its place was given back
    active      \* places that are taken

vars == <<plan, target, written, page, head, stream, inside, paused, out, connection,
          released, active>>

Plans == [source : Sources, kind : Kinds, paged : BOOLEAN, accepts : Accepts, upgrade : {FALSE}]
         \cup [source : Sources \cap {"proxy"}, kind : {"binary"}, paged : {FALSE}, accepts : Accepts,
               upgrade : Upgrades]

Init ==
    /\ plan \in [Responses -> Plans]
    /\ target = [r \in Responses |-> "unasked"]
    /\ written = [r \in Responses |-> -1] /\ page = [r \in Responses |-> FALSE]
    /\ head = [r \in Responses |-> <<>>]
    /\ stream = [r \in Responses |-> "none"] /\ inside = [r \in Responses |-> <<>>]
    /\ paused = [r \in Responses |-> FALSE] /\ out = [r \in Responses |-> <<>>]
    /\ connection = [r \in Responses |-> "open"]
    /\ released = [r \in Responses |-> TRUE] /\ active = 0

-----------------------------------------------------------------------------

IsList(r, status) == plan[r].source = "proxy" /\ status = "own"
Page == 0
Failure == -1
End == -2

(* a writeHead of a status with a page takes the place of the body, unless *)
(* that is a page already                                                  *)
KindOf(r, status) == IF status = "own" THEN plan[r].kind ELSE "small"
FindsPage(r, status) == plan[r].paged /\ ~IsList(r, status) /\ KindOf(r, status) # "html"

(* the kind of what is sent; a page is a text, as its own headers say      *)
Sent(r, status) == IF FindsPage(r, status) THEN "text" ELSE KindOf(r, status)

(* chooseEncoding: the one that the client likes most, the order of the    *)
(* options settles ties; "none" of them                                    *)
WeightOf(accepts, encoding) ==
    IF encoding \in DOMAIN accepts THEN accepts[encoding]
    ELSE IF "*" \in DOMAIN accepts THEN accepts["*"] ELSE 0
ChooseEncoding(accepts) ==
    LET weight(i) == WeightOf(accepts, Supported[i])
        liked == {i \in 1..Len(Supported) : weight(i) > 0}
        best == {i \in liked : \A j \in liked : weight(i) >= weight(j)}
    IN  IF liked = {} THEN "none" ELSE Supported[Min(best)]

(* varyOnEncoding                                                          *)
Varies(r, status) == Sent(r, status) # "binary" /\ ~IsList(r, status)

IsOpenToEncoding(r, status) == Sent(r, status) # "encoded"

(* decideCompression: an encoding, a type and a size that are worth it, as *)
(* far as the size is known, and a free place                              *)
Compresses(r, status, length) ==
    /\ Varies(r, status) /\ IsOpenToEncoding(r, status)
    /\ ChooseEncoding(plan[r].accepts) # "none"
    /\ Sent(r, status) = "small" => length = -1
    /\ Concurrency = 0 \/ active < Concurrency

(* acquire, and the function that gives the place back                     *)
Acquire(r) == released' = [released EXCEPT ![r] = FALSE] /\ active' = active + 1

(* each of the end and the close of the stream gives it back               *)
ReleaseAgain(r) == released' = [released EXCEPT ![r] = TRUE] /\ active' = active - 1

Release(r) ==
    /\ released' = [released EXCEPT ![r] = TRUE]
    /\ active' = IF released[r] THEN active ELSE active - 1

placeVars == <<released, active>>

(* The head goes through both handlers: it has the encoding, or the length *)
(* of the body when that is known and is still the length of what is sent. *)
(* A response that is closed takes it all the same.                        *)
WriteHead(r, status, length) ==
    LET compress == Compresses(r, status, length)
        size == IF FindsPage(r, status) THEN 1 ELSE length
    IN  /\ page' = [page EXCEPT ![r] = FindsPage(r, status)]
        /\ head' = [head EXCEPT ![r] = Append(@,
                [status |-> status, varies |-> Varies(r, status),
                 encoding |-> IF compress THEN ChooseEncoding(plan[r].accepts) ELSE "none",
                 length |-> IF compress THEN -1 ELSE size,
                 gone |-> connection[r] = "closed"])]
        /\ IF compress
           THEN stream' = [stream EXCEPT ![r] = "open"] /\ Acquire(r)
           ELSE UNCHANGED <<stream, placeVars>>

(* a body, or its end, on its way through the compression; what goes to a  *)
(* closed response goes nowhere                                            *)
Through(r, cells, ends, compress) ==
    IF compress
    THEN /\ inside' = [inside EXCEPT ![r] = @ \o cells \o (IF ends THEN <<End>> ELSE <<>>)]
         /\ UNCHANGED <<out, connection>>
    ELSE IF connection[r] = "closed"
    THEN UNCHANGED <<inside, out, connection>>
    ELSE /\ out' = [out EXCEPT ![r] = @ \o [i \in 1..Len(cells) |-> [cell |-> cells[i], encoded |-> FALSE]]]
         /\ connection' = IF ends THEN [connection EXCEPT ![r] = "finished"] ELSE connection
         /\ UNCHANGED inside

Body == [i \in 1..Parts |-> i]

(* send: the head of a response that is ended with its whole body          *)
Answer(r, status, cells) ==
    /\ written[r] = -1
    /\ WriteHead(r, status, Len(cells))
    /\ Through(r, IF FindsPage(r, status) THEN <<Page>> ELSE cells, TRUE,
               Compresses(r, status, Len(cells)))
    /\ written' = [written EXCEPT ![r] = Parts + 1]

Send(r) ==
    /\ plan[r].source = "send" /\ Answer(r, "own", Body)
    /\ UNCHANGED <<plan, target, paused>>

(* A worker streams, or the target of a proxy answers: the head, the       *)
(* parts and the end, as fast as they are taken.  The parts of a body that *)
(* a page replaces are dropped.  Both stop when the response closes; a     *)
(* worker does not hear of a close that came before its request did.       *)
StartParts(r) ==
    /\ \/ plan[r].source = "parts"
       \/ target[r] = "asked" /\ ~plan[r].upgrade
    /\ written[r] = -1
    /\ target' = [target EXCEPT ![r] = IF @ = "asked" THEN "answered" ELSE @]
    /\ WriteHead(r, "own", IF IsList(r, "own") THEN Parts ELSE -1)
    /\ written' = [written EXCEPT ![r] = 0]
    /\ UNCHANGED <<plan, inside, paused, out, connection>>

HearsNoClose(r) == connection[r] = "open" \/ head[r][1].gone

WritePart(r) ==
    /\ written[r] \in 0..(Parts - 1) /\ HearsNoClose(r)
    /\ written' = [written EXCEPT ![r] = @ + 1]
    /\ Through(r, IF page[r] THEN <<>> ELSE <<written[r] + 1>>, FALSE, stream[r] = "open")
    /\ UNCHANGED <<plan, target, page, head, stream, paused, placeVars>>

EndParts(r) ==
    /\ written[r] = Parts /\ HearsNoClose(r)
    /\ written' = [written EXCEPT ![r] = Parts + 1]
    /\ Through(r, IF page[r] THEN <<Page>> ELSE <<>>, TRUE, stream[r] = "open")
    /\ target' = [target EXCEPT ![r] = IF @ = "answered" THEN "over" ELSE @]
    /\ UNCHANGED <<plan, page, head, stream, paused, placeVars>>

-----------------------------------------------------------------------------

(* The compressor puts out what it was given and waits when the client     *)
(* does not keep up; its place is free before the response ends.  A        *)
(* response that was closed before takes nothing, and tells of no drain.   *)
Compressed(r) ==
    /\ stream[r] = "open" /\ inside[r] # <<>> /\ ~paused[r]
    /\ inside' = [inside EXCEPT ![r] = Tail(@)]
    /\ IF Head(inside[r]) = End
       THEN /\ stream' = [stream EXCEPT ![r] = "ended"] /\ Release(r)
            /\ connection' = [connection EXCEPT ![r] = "finished"]
            /\ UNCHANGED <<out, paused>>
       ELSE /\ IF connection[r] = "closed"
               THEN paused' = [paused EXCEPT ![r] = TRUE] /\ UNCHANGED out
               ELSE /\ out' = [out EXCEPT ![r] = Append(@, [cell |-> Head(inside[r]), encoded |-> TRUE])]
                    /\ paused' \in {paused, [paused EXCEPT ![r] = TRUE]}
            /\ UNCHANGED <<stream, placeVars, connection>>
    /\ UNCHANGED <<plan, target, written, page, head>>

Drain(r) ==
    /\ paused[r] /\ connection[r] = "open"
    /\ paused' = [paused EXCEPT ![r] = FALSE]
    /\ UNCHANGED <<plan, target, written, page, head, stream, inside, out, connection, placeVars>>

(* a stream that ended or was destroyed is closed                          *)
StreamCloses(r) ==
    /\ stream[r] \in {"ended", "destroyed"}
    /\ stream' = [stream EXCEPT ![r] = "closed"] /\ Release(r)
    /\ inside' = [inside EXCEPT ![r] = <<>>]
    /\ UNCHANGED <<plan, target, written, page, head, paused, out, connection>>

(* a response that closes destroys the compressor that listens by then     *)
DestroyUnheard(r) == connection' = [connection EXCEPT ![r] = "closed"] /\ UNCHANGED stream

Destroy(r) ==
    /\ connection' = [connection EXCEPT ![r] = "closed"]
    /\ stream' = [stream EXCEPT ![r] = IF @ = "open" THEN "destroyed" ELSE @]

(* the client goes away, or the compression fails: the response is closed, *)
(* and what asks a target for it is destroyed, which is an error when the  *)
(* target did not answer yet                                               *)
Closes(r) ==
    /\ connection[r] = "open" /\ Destroy(r)
    /\ target' = [target EXCEPT ![r] =
            IF @ = "asked" THEN "destroyed" ELSE IF @ = "answered" THEN "over" ELSE @]
    /\ UNCHANGED <<plan, written, page, head, inside, paused, out, placeVars>>

-----------------------------------------------------------------------------
(* The proxy                                                               *)

ProxyRequest(r) ==
    /\ plan[r].source = "proxy" /\ target[r] = "unasked" /\ connection[r] = "open"
    /\ target' = [target EXCEPT ![r] = "asked"]
    /\ UNCHANGED <<plan, written, page, head, stream, inside, paused, out, connection, placeVars>>

(* the target accepts the upgrade: the connections belong to each other    *)
TargetUpgrades(r) ==
    /\ target[r] = "asked" /\ plan[r].upgrade /\ written[r] = -1
    /\ target' = [target EXCEPT ![r] = "over"]
    /\ head' = [head EXCEPT ![r] = Append(@, [status |-> "101", varies |-> FALSE, encoding |-> "none",
                                               length |-> -1, gone |-> FALSE])]
    /\ written' = [written EXCEPT ![r] = Parts + 1]
    /\ connection' = [connection EXCEPT ![r] = "finished"]
    /\ UNCHANGED <<plan, page, stream, inside, paused, out, placeVars>>

(* fail: a target that cannot be reached is 502, one that is silent 504;   *)
(* a response that is on its way can only be cut.  One that closed without *)
(* a head is answered like any other.                                      *)
Fail(r, status) ==
    /\ target[r] \in {"asked", "answered", "destroyed"}
    /\ target' = [target EXCEPT ![r] = "over"]
    /\ IF head[r] # <<>>
       THEN Destroy(r) /\ UNCHANGED <<written, page, head, inside, out, placeVars>>
       ELSE Answer(r, status, <<Failure>>)
    /\ UNCHANGED <<plan, paused>>

Next ==
    \E r \in Responses :
        \/ Send(r) \/ StartParts(r) \/ WritePart(r) \/ EndParts(r)
        \/ Compressed(r) \/ Drain(r) \/ StreamCloses(r) \/ Closes(r)
        \/ ProxyRequest(r) \/ TargetUpgrades(r)
        \/ \E status \in {"502", "504"} : Fail(r, status)

Spec == Init /\ [][Next]_vars

-----------------------------------------------------------------------------

(* the places that are held: by a compressor until it ends, or until its   *)
(* own close, which is to come once the response closed                    *)
Holding == {r \in Responses : stream[r] = "destroyed" \/ (stream[r] = "open" /\ connection[r] = "open")}

(* a compressor that started after the close of its response never hears   *)
(* of it: its place is lost                                                *)
Lost == {r \in Responses : stream[r] = "open" /\ head[r][1].gone}

(* A response that was sent to its end has one head, and a body that is    *)
(* all of one piece: the page or the whole body, in its order, all of it   *)
(* in the encoding that the head says, which the client likes most and     *)
(* caches are told of, or none of it, and as long as the head says;        *)
(* what was sent of another is a beginning of that.  The places taken in   *)
(* the budget are those of compressors that did not end on an open         *)
(* response or whose close is to come (start-compressing.ts:6 "holding a   *)
(* place of the budget until it ends or the client is gone"): none is      *)
(* given back twice, and a closed response keeps none.  The exception is a *)
(* response that is answered after it closed and is compressed then, as by *)
(* the error of the target that the close itself destroys: its place is    *)
(* never given back.                                                       *)
AnswerIsOfOnePiece ==
    /\ \A r \in Responses :
        LET sent == head[r][1]
            body == CASE page[r] -> <<Page>>
                      [] ~page[r] /\ sent.status \in {"502", "504"} -> <<Failure>>
                      [] sent.status = "101" -> <<>>
                      [] OTHER -> Body
        IN  /\ Len(head[r]) <= 1
            /\ head[r] = <<>> => out[r] = <<>>
            /\ head[r] # <<>> =>
                /\ \A i \in 1..Len(out[r]) : out[r][i].encoded <=> sent.encoding # "none"
                /\ sent.encoding # "none" =>
                      /\ sent.varies /\ WeightOf(plan[r].accepts, sent.encoding) > 0
                      /\ \A encoding \in Range(Supported) :
                            WeightOf(plan[r].accepts, encoding) <= WeightOf(plan[r].accepts, sent.encoding)
                /\ IsPrefix([i \in 1..Len(out[r]) |-> out[r][i].cell], body)
                /\ connection[r] = "finished" => Len(out[r]) = Len(body)
                /\ sent.length # -1 => sent.length = Len(body)
    /\ active = Cardinality(Holding \cup Lost)
=============================================================================
