------------------------------- MODULE Lambda -------------------------------
(***************************************************************************)
(* The lambda middleware with one lambda process: requests wait for the    *)
(* process, which answers one at a time; the body goes up as it arrives    *)
(* and the handler runs once it is there; what happens first settles the   *)
(* invocation: the response, the exit, the timeout, a body over the limit  *)
(* or the client going away.  The pool is the one of module WorkerPool,    *)
(* here with a limit of one process.                                       *)
(***************************************************************************)
EXTENDS Naturals, Sequences, FiniteSets, SequencesExt

CONSTANTS
    Requests,       \* bound: one invocation of each
    Bodies,         \* "none", "fits", "declared" or "grows" over the limit
    Results,        \* what a handler comes to: "response", "nothing" or "error"
    Processes,      \* bound: how many are started
    DefaultLimited  \* whether there is a limit for the body at all

VARIABLES
    requests,   \* where each request is
    client,     \* "there", or "gone" before its answer
    body,       \* of each request
    arrived,    \* the request body has arrived
    answers,    \* the answers each request got
    line,       \* the requests that wait for the process
    holder,     \* the request with the lease, or Nobody
    process,    \* "none", "starting", "up", "ending" or "exited"
    started,    \* how many processes were started
    toLambda, toServer,
    contexts,   \* of the process: what it does with a request
    wholes,     \* the requests whose handler got the whole body
    closed      \* the middleware was closed

vars == <<requests, client, body, arrived, answers, line, holder, process, started,
          toLambda, toServer, contexts, wholes, closed>>
clientVars == <<client, body>>
lambdaVars == <<contexts, wholes, toLambda>>
poolVars == <<process, started>>

Nobody == 0
At(r, at) == requests' = [requests EXCEPT ![r] = at]
Give(r, status) ==
    answers' = [answers EXCEPT ![r] = IF client[r] = "gone" THEN @ ELSE Append(@, status)]

Init ==
    /\ requests = [r \in Requests |-> "idle"] /\ client = [r \in Requests |-> "there"]
    /\ body \in [Requests -> Bodies] /\ arrived = [r \in Requests |-> FALSE]
    /\ answers = [r \in Requests |-> <<>>]
    /\ line = <<>> /\ holder = Nobody /\ process = "none" /\ started = 0
    /\ toLambda = <<>> /\ toServer = <<>>
    /\ contexts = [r \in Requests |-> "none"] /\ wholes = {} /\ closed = FALSE

HasBody(r) == body[r] # "none"

-----------------------------------------------------------------------------
(* The server                                                              *)

(* dispatchRequest without a route and without a fallback                  *)
NotFound(r) ==
    /\ requests[r] = "idle" /\ ~closed
    /\ At(r, "over") /\ Give(r, 404)
    /\ UNCHANGED <<clientVars, arrived, line, holder, poolVars, lambdaVars, toServer, closed>>

(* handle: a body that says it is too large is not worth a lambda          *)
Handle(r) ==
    /\ requests[r] = "idle" /\ ~closed
    /\ IF DefaultLimited /\ body[r] = "declared"
       THEN At(r, "over") /\ Give(r, 413) /\ UNCHANGED line
       ELSE At(r, "waiting") /\ line' = Append(line, r) /\ UNCHANGED answers
    /\ UNCHANGED <<clientVars, arrived, holder, poolVars, lambdaVars, toServer, closed>>

(* acquire hands the process to the first of the line, and starts one when *)
(* there is none: in a folder of its own, with a channel of its own        *)
Acquire ==
    /\ line # <<>> /\ holder = Nobody /\ process \in {"none", "up"}
    /\ process = "none" => started < Processes
    /\ holder' = Head(line) /\ line' = Tail(line) /\ At(Head(line), "leased")
    /\ IF process = "up" THEN UNCHANGED <<poolVars, lambdaVars, toServer>>
       ELSE /\ process' = "starting" /\ started' = started + 1
            /\ toLambda' = <<>> /\ toServer' = <<>>
            /\ contexts' = [r \in Requests |-> "none"] /\ wholes' = {}
    /\ UNCHANGED <<clientVars, arrived, answers, closed>>

(* the waiter is taken out of the line, wherever it stands in it           *)
LeaveLine(r) == \E i \in DOMAIN line : line[i] = r /\ line' = RemoveAt(line, i)

(* acquireTimeout                                                          *)
Busy(r) ==
    /\ requests[r] = "waiting"
    /\ LeaveLine(r) /\ At(r, "over") /\ Give(r, 503)
    /\ UNCHANGED <<clientVars, arrived, holder, poolVars, lambdaVars, toServer, closed>>

Release(r) == holder' = IF holder = r THEN Nobody ELSE holder

(* the process stays, with the request that timed out                      *)
SettleWithoutKill(r, outcome, status) ==
    /\ At(r, "over") /\ Release(r)
    /\ IF outcome = "abandoned" THEN UNCHANGED answers ELSE Give(r, status)
    /\ toLambda' = IF outcome \in {"tooLarge", "abandoned"} /\ process = "up"
                   THEN Append(toLambda, [type |-> "REQUEST_ABORT", request |-> r])
                   ELSE toLambda
    /\ UNCHANGED <<process, started>>

(* answerOutcome, and the lease is released after it; the process that is  *)
(* still busy with a request that timed out is killed first                *)
Settle(r, outcome, status) ==
    /\ At(r, "over") /\ Release(r)
    /\ CASE outcome = "response"  -> Give(r, status)
         [] outcome = "tooLarge"  -> Give(r, 413)
         [] outcome = "timeout"   -> Give(r, 504)
         [] outcome = "abandoned" -> UNCHANGED answers
    /\ toLambda' = IF outcome \in {"tooLarge", "abandoned"} /\ process = "up"
                   THEN Append(toLambda, [type |-> "REQUEST_ABORT", request |-> r])
                   ELSE toLambda
    /\ process' = IF outcome = "timeout" /\ process = "up" THEN "ending" ELSE process
    /\ UNCHANGED started

(* lease.ready: a client that left meanwhile is not served                 *)
Invoke(r) ==
    /\ requests[r] = "leased" /\ process = "up"
    /\ IF client[r] = "gone"
       THEN At(r, "over") /\ Release(r) /\ UNCHANGED toLambda
       ELSE /\ At(r, "invoked") /\ UNCHANGED holder
            /\ toLambda' = Append(toLambda, [type |-> "REQUEST", request |-> r])
    /\ UNCHANGED <<clientVars, arrived, answers, line, poolVars, contexts, wholes, toServer, closed>>

(* a part of the body arrives, its last one, or one over the limit         *)
BodyArrives(r) ==
    /\ requests[r] = "invoked" /\ HasBody(r) /\ ~arrived[r] /\ client[r] = "there"
    /\ IF DefaultLimited /\ body[r] = "grows"
       THEN Settle(r, "tooLarge", 413) /\ UNCHANGED arrived
       ELSE /\ arrived' = [arrived EXCEPT ![r] = TRUE]
            /\ toLambda' = Append(toLambda, [type |-> "REQUEST_BODY", request |-> r])
            /\ UNCHANGED <<requests, holder, answers, poolVars>>
    /\ UNCHANGED <<clientVars, line, contexts, wholes, toServer, closed>>

(* The client goes away: from the line at once, from an invocation only    *)
(* before its whole body arrived.                                          *)
ClientLeaves(r) ==
    /\ client[r] = "there" /\ requests[r] \in {"waiting", "leased", "invoked"}
    /\ client' = [client EXCEPT ![r] = "gone"]
    /\ CASE requests[r] = "waiting" ->
            /\ LeaveLine(r) /\ At(r, "over")
            /\ UNCHANGED <<holder, answers, toLambda, poolVars>>
         [] requests[r] = "invoked" /\ HasBody(r) /\ ~arrived[r] ->
            Settle(r, "abandoned", 0) /\ UNCHANGED line
         [] OTHER -> UNCHANGED <<requests, line, holder, answers, toLambda, poolVars>>
    /\ UNCHANGED <<body, arrived, contexts, wholes, toServer, closed>>

Timeout(r) ==
    /\ requests[r] = "invoked"
    /\ Settle(r, "timeout", 504)
    /\ UNCHANGED <<clientVars, arrived, line, contexts, wholes, toServer, closed>>

(* a message of the process, dropped when its request is over              *)
Receive ==
    /\ toServer # <<>> /\ process # "none"
    /\ toServer' = Tail(toServer)
    /\ LET message == Head(toServer)
       IN  IF requests[message.request] = "invoked"
           THEN Settle(message.request, "response", message.status)
           ELSE UNCHANGED <<requests, holder, answers, toLambda, poolVars>>
    /\ UNCHANGED <<clientVars, arrived, line, contexts, wholes, closed>>

(* The process is gone, once all it wrote was read; the request that holds *)
(* it is answered with 502, whether it was to be started or was busy.      *)
Gone ==
    /\ process = "exited" /\ toServer = <<>>
    /\ process' = "none"
    /\ IF holder # Nobody
       THEN At(holder, "over") /\ Give(holder, 502) /\ holder' = Nobody
       ELSE UNCHANGED <<requests, answers, holder>>
    /\ UNCHANGED <<clientVars, arrived, line, started, lambdaVars, toServer, closed>>

(* a process is stopped when it is idle: too old, unused or the middleware *)
(* is closed                                                               *)
Stop ==
    /\ process = "up" /\ holder = Nobody /\ (line = <<>> \/ closed)
    /\ process' = "ending"
    /\ UNCHANGED <<requests, clientVars, arrived, answers, line, holder, started, lambdaVars,
                   toServer, closed>>

Close ==
    /\ ~closed /\ closed' = TRUE
    /\ UNCHANGED <<requests, clientVars, arrived, answers, line, holder, poolVars, lambdaVars, toServer>>

-----------------------------------------------------------------------------
(* The process                                                             *)

serverVars == <<requests, clientVars, arrived, answers, line, holder, started, closed>>

(* the module was loaded and its handler found: the process says it is     *)
(* ready                                                                   *)
Load ==
    /\ process = "starting" /\ process' = "up"
    /\ UNCHANGED <<serverVars, lambdaVars, toServer>>

(* findHandler finds none, or the module cannot be loaded                  *)
LoadFails ==
    /\ process = "starting" /\ process' = "exited"
    /\ toLambda' = <<>>
    /\ UNCHANGED <<serverVars, contexts, wholes, toServer>>

(* it crashes, hangs for too long or ends as it was told                   *)
Exit ==
    /\ process \in {"starting", "up", "ending"} /\ process' = "exited"
    /\ contexts' = [r \in Requests |-> "none"] /\ toLambda' = <<>>
    /\ UNCHANGED <<serverVars, wholes, toServer>>

(* readBodyStream: the context of a request after a message for it; an     *)
(* abort ends the body with an error                                       *)
ReadBodyStream(context, message) ==
    CASE message.type = "REQUEST"       -> IF HasBody(message.request) THEN "reading" ELSE "read"
      [] message.type = "REQUEST_BODY"  -> IF context = "reading" THEN "read" ELSE context
      [] message.type = "REQUEST_ABORT" -> "none"

(* createLambdaWorker: a message of the server; a request without its      *)
(* whole body is not invoked                                               *)
Take ==
    /\ process \in {"up", "ending"} /\ toLambda # <<>>
    /\ toLambda' = Tail(toLambda)
    /\ LET message == Head(toLambda)
           r == message.request
       IN  /\ contexts' = [contexts EXCEPT ![r] = ReadBodyStream(@, message)]
           /\ wholes' = IF contexts'[r] = "read" THEN wholes \cup {r} ELSE wholes
    /\ UNCHANGED <<serverVars, process, toServer>>

Run(r) ==
    /\ process \in {"up", "ending"} /\ contexts[r] = "read"
    /\ contexts' = [contexts EXCEPT ![r] = "running"]
    /\ UNCHANGED <<serverVars, process, toLambda, toServer, wholes>>

(* runHandler: what a handler returns, throws, rejects with or gives to    *)
(* its callback, the first of them; 0 for what has no status               *)
RunHandler(result) ==
    CASE result = "response" -> 200 [] result = "nothing" -> 0 [] result = "error" -> 502

IsValidResponse(status) == status \in 100..599

(* only a valid response is passed on                                      *)
ToWorkerResponse(status) == IF IsValidResponse(status) THEN status ELSE 502

Settles(r, result) ==
    /\ process \in {"up", "ending"} /\ contexts[r] = "running"
    /\ contexts' = [contexts EXCEPT ![r] = "none"]
    /\ toServer' = Append(toServer,
            [request |-> r, status |-> ToWorkerResponse(RunHandler(result))])
    /\ UNCHANGED <<serverVars, process, toLambda, wholes>>

Next ==
    \/ \E r \in Requests :
        \/ NotFound(r) \/ Handle(r) \/ Busy(r) \/ Invoke(r) \/ BodyArrives(r)
        \/ ClientLeaves(r) \/ Timeout(r) \/ Run(r)
        \/ \E result \in Results : Settles(r, result)
    \/ Acquire \/ Receive \/ Gone \/ Stop \/ Close \/ Load \/ LoadFails \/ Exit \/ Take

Spec == Init /\ [][Next]_vars

-----------------------------------------------------------------------------

(* A handler has its process for itself, and only ever runs with the whole *)
(* body of its request (create-lambda-worker.ts:10, invoke-lambda.ts:26).  *)
(* A process that is handed to a request has nothing else to do than what  *)
(* it is told to stop in front of that request.  And a client that stayed  *)
(* gets one answer, a handler's only when its handler ran.                 *)
HandlerRunsAlone ==
    /\ \A r \in Requests : contexts[r] = "running" =>
          /\ r \in wholes
          /\ \A q \in Requests \ {r} : contexts[q] = "none"
          /\ holder = r \/ process = "ending"
    /\ \A r \in Requests : requests[r] = "invoked" /\ process = "up" =>
          \A q \in Requests \ {r} : contexts[q] # "none" =>
              \E i, j \in 1..Len(toLambda) :
                  /\ i < j /\ toLambda[i] = [type |-> "REQUEST_ABORT", request |-> q]
                  /\ toLambda[j] = [type |-> "REQUEST", request |-> r]
    /\ \A r \in Requests :
          /\ requests[r] = "over" /\ client[r] = "there" => Len(answers[r]) = 1
          /\ requests[r] # "over" => answers[r] = <<>>
          /\ Len(answers[r]) <= 1
=============================================================================
