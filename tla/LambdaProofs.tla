---------------------------- MODULE LambdaProofs ----------------------------
(***************************************************************************)
(* One lambda process for any number of requests, bodies, results and      *)
(* processes.                                                              *)
(*                                                                         *)
(* HandlerRunsAlone is about the process; what makes it true is the order  *)
(* of the messages to it.  A request leaves the process with its answer,   *)
(* behind which nothing of it follows (AnsweredLast), or with an abort in  *)
(* front of whatever is sent for the next one (InTurn, Told).  A timeout   *)
(* sends no abort, but ends the process, which then is leased to nobody    *)
(* (Leased).  So a message that is taken finds the process without any     *)
(* other request, and the handler runs behind the last message of its own  *)
(* (Whole, Ordered).                                                       *)
(***************************************************************************)
EXTENDS Lambda, QueueProofs

Message == [type : {"REQUEST", "REQUEST_BODY", "REQUEST_ABORT"}, request : Requests]
Answer == [request : Requests, status : 100..599]

TypeOK ==
    /\ Nobody \notin Requests
    /\ requests \in [Requests -> {"idle", "waiting", "leased", "invoked", "over"}]
    /\ client \in [Requests -> {"there", "gone"}]
    /\ arrived \in [Requests -> BOOLEAN]
    /\ answers \in [Requests -> Seq(Nat)]
    /\ line \in Seq(Requests)
    /\ holder \in Requests \cup {Nobody}
    /\ process \in {"none", "starting", "up", "ending", "exited"}
    /\ toLambda \in Seq(Message) /\ toServer \in Seq(Answer)
    /\ contexts \in [Requests -> {"none", "reading", "read", "running"}]
    /\ wholes \subseteq Requests

(* the line holds requests that wait, each once                            *)
InLine ==
    /\ \A i \in 1..Len(line) : requests[line[i]] = "waiting"
    /\ \A i, j \in 1..Len(line) : line[i] = line[j] => i = j

(* the lease is of the one request that the server still works for; a      *)
(* process that ends is nobody's                                           *)
Leased ==
    /\ \A r \in Requests : requests[r] \in {"leased", "invoked"} <=> holder = r
    /\ process = "ending" => holder = Nobody

(* a client that stayed got one answer when its request is over            *)
Answered ==
    \A r \in Requests :
        /\ requests[r] = "over" /\ client[r] = "there" => Len(answers[r]) = 1
        /\ requests[r] # "over" => answers[r] = <<>>
        /\ Len(answers[r]) <= 1

Works == process \in {"up", "ending"}

(* a process that does not work has nothing, one that starts is not sent   *)
(* anything either                                                         *)
Empty ==
    /\ ~Works => \A r \in Requests : contexts[r] = "none"
    /\ process = "starting" =>
          toLambda = <<>> /\ toServer = <<>> /\ \A r \in Requests : requests[r] # "invoked"

-----------------------------------------------------------------------------
Abort(r) == [type |-> "REQUEST_ABORT", request |-> r]

(* an abort of r among the messages of a queue from low to high            *)
Aborted(queue, r, low, high) == \E k \in low..high : queue[k] = Abort(r)

NothingOf(queue, r) == \A i \in 1..Len(queue) : queue[i].request # r

(* Between the messages of two requests the first is aborted, and so is a  *)
(* request that the process works on in front of another's messages.  It   *)
(* works on one.                                                           *)
InTurn ==
    /\ \A i, j \in 1..Len(toLambda) : i < j /\ toLambda[i].request # toLambda[j].request =>
          Aborted(toLambda, toLambda[i].request, i, j - 1)
    /\ \A r \in Requests : \A j \in 1..Len(toLambda) :
          contexts[r] # "none" /\ toLambda[j].request # r => Aborted(toLambda, r, 1, j - 1)
    /\ \A q, r \in Requests : contexts[q] # "none" /\ contexts[r] # "none" => q = r

(* what is no longer invoked is aborted behind its last message            *)
Told ==
    process = "up" => \A r \in Requests : requests[r] # "invoked" =>
        /\ contexts[r] # "none" => Aborted(toLambda, r, 1, Len(toLambda))
        /\ \A i \in 1..Len(toLambda) : toLambda[i].request = r => Aborted(toLambda, r, i, Len(toLambda))

(* who answered has nothing left in the process                            *)
AnsweredLast ==
    \A i \in 1..Len(toServer) :
        LET r == toServer[i].request
        IN  /\ requests[r] \in {"invoked", "over"} /\ (HasBody(r) => arrived[r])
            /\ contexts[r] = "none" /\ NothingOf(toLambda, r)

(* a handler that runs or is about to has its whole body                   *)
Whole ==
    \A r \in Requests :
        /\ contexts[r] # "none" => requests[r] \in {"invoked", "over"}
        /\ contexts[r] = "reading" => HasBody(r)
        /\ contexts[r] \in {"read", "running"} =>
              r \in wholes /\ (HasBody(r) => arrived[r]) /\ NothingOf(toLambda, r)

(* The messages of a request: the request, then its body or an abort.      *)
Ordered ==
    \A i \in 1..Len(toLambda) :
        LET m == toLambda[i]
            IsLast == \A j \in (i + 1)..Len(toLambda) : toLambda[j].request # m.request
        IN  /\ requests[m.request] \in {"invoked", "over"}
            /\ m.type = "REQUEST" => HasBody(m.request) \/ IsLast
            /\ m.type = "REQUEST_BODY" => HasBody(m.request) /\ arrived[m.request] /\ IsLast
            /\ m.type = "REQUEST_ABORT" =>
                  HasBody(m.request) /\ ~arrived[m.request] /\ requests[m.request] = "over" /\ IsLast

(* a request that was sent is still before the process, or has it alone    *)
Sent ==
    process = "up" => \A r \in Requests : requests[r] = "invoked" =>
        \/ \E j \in 1..Len(toLambda) : toLambda[j] = [type |-> "REQUEST", request |-> r]
        \/ \A q \in Requests \ {r} : contexts[q] = "none" /\ NothingOf(toLambda, q)

ProcessInv == InTurn /\ Told /\ AnsweredLast /\ Whole /\ Ordered /\ Sent

IInv == TypeOK /\ InLine /\ Leased /\ Answered /\ Empty /\ (Works => ProcessInv)
-----------------------------------------------------------------------------
(* Types                                                                   *)

(* without its place i a line goes on with the next one                    *)
LEMMA LineLeft ==
    ASSUME NEW s \in Seq(Requests), NEW i \in 1..Len(s)
    PROVE  /\ RemoveAt(s, i) \in Seq(Requests) /\ Len(RemoveAt(s, i)) = Len(s) - 1
           /\ \A j \in 1..(Len(s) - 1) : RemoveAt(s, i)[j] = IF j < i THEN s[j] ELSE s[j + 1]
  <1> DEFINE front == SubSeq(s, 1, i - 1)
             back == SubSeq(s, i + 1, Len(s))
             n == Len(s)
  <1>1. /\ front \in Seq(Requests) /\ Len(front) = i - 1
        /\ \A j \in 1..(i - 1) : front[j] = s[j]
    OBVIOUS
  <1>2. /\ back \in Seq(Requests) /\ Len(back) = n - i
        /\ \A j \in 1..(n - i) : back[j] = s[i + j]
    OBVIOUS
  <1>3. n \in Nat /\ i \in 1..n OBVIOUS
  <1>4. RemoveAt(s, i) = front \o back BY DEF RemoveAt
  <1> HIDE DEF front, back, n
  <1>5. /\ front \o back \in Seq(Requests)
        /\ Len(front \o back) = Len(front) + Len(back)
        /\ \A j \in 1..Len(front) : (front \o back)[j] = front[j]
        /\ \A j \in 1..Len(back) : (front \o back)[Len(front) + j] = back[j]
    <2>1. front \in Seq(Requests) /\ back \in Seq(Requests) BY <1>1, <1>2
    <2> QED BY <2>1, QueueJoined
  <1> DEFINE both == front \o back
  <1> HIDE DEF both
  <1>6. both \in Seq(Requests) /\ Len(both) = n - 1 BY <1>1, <1>2, <1>3, <1>5 DEF both
  <1>7. \A j \in 1..(n - 1) : both[j] = IF j < i THEN s[j] ELSE s[j + 1]
    <2> SUFFICES ASSUME NEW j \in 1..(n - 1) PROVE both[j] = IF j < i THEN s[j] ELSE s[j + 1]
      OBVIOUS
    <2>1. CASE j < i
      <3>1. j \in 1..(i - 1) BY <1>3, <2>1
      <3> QED BY <1>1, <1>5, <2>1, <3>1 DEF both
    <2>2. CASE ~(j < i)
      <3>1. j - (i - 1) \in 1..(n - i) /\ (i - 1) + (j - (i - 1)) = j /\ i + (j - (i - 1)) = j + 1
        BY <1>3, <2>2
      <3> QED BY <1>1, <1>2, <1>5, <2>2, <3>1 DEF both
    <2> QED BY <2>1, <2>2
  <1> QED BY <1>4, <1>6, <1>7 DEF both, n

(* what is left of a line when r leaves it                                 *)
LEMMA LineLeaves ==
    ASSUME TypeOK, NEW r \in Requests, LeaveLine(r)
    PROVE  /\ line' \in Seq(Requests)
           /\ InLine => /\ \A j \in 1..Len(line') : requests[line'[j]] = "waiting" /\ line'[j] # r
                        /\ \A j, k \in 1..Len(line') : line'[j] = line'[k] => j = k
  <1>1. line \in Seq(Requests) BY DEF TypeOK
  <1>2. PICK i \in 1..Len(line) : line[i] = r /\ line' = RemoveAt(line, i)
    BY <1>1 DEF LeaveLine
  <1> DEFINE n == Len(line)
             rest == RemoveAt(line, i)
             From(j) == IF j < i THEN j ELSE j + 1
  <1>3. /\ rest \in Seq(Requests) /\ Len(rest) = n - 1 /\ n \in Nat /\ i \in 1..n
        /\ \A j \in 1..(n - 1) : rest[j] = IF j < i THEN line[j] ELSE line[j + 1]
    BY <1>1, LineLeft
  <1> HIDE DEF rest, n
  <1>4. \A j \in 1..(n - 1) : From(j) \in 1..n /\ From(j) # i /\ rest[j] = line[From(j)] BY <1>3
  <1>5. \A j, k \in 1..(n - 1) : From(j) = From(k) => j = k BY <1>3
  <1> HIDE DEF From
  <1>6. ASSUME InLine
        PROVE  /\ \A j \in 1..(n - 1) : requests[rest[j]] = "waiting" /\ rest[j] # r
               /\ \A j, k \in 1..(n - 1) : rest[j] = rest[k] => j = k
    <2>1. /\ \A k \in 1..n : requests[line[k]] = "waiting"
          /\ \A j, k \in 1..n : line[j] = line[k] => j = k
      BY <1>6 DEF InLine, n
    <2>2. \A j \in 1..(n - 1) : line[From(j)] # line[i] BY <1>3, <1>4, <2>1
    <2>3. ASSUME NEW j \in 1..(n - 1), NEW k \in 1..(n - 1), rest[j] = rest[k] PROVE j = k
      <3>1. From(j) = From(k) BY <1>4, <2>1, <2>3
      <3> QED BY <1>5, <3>1
    <2> QED BY <1>2, <1>4, <2>1, <2>2, <2>3
  <1> QED BY <1>2, <1>3, <1>6 DEF rest

LEMMA Initially == Nobody \notin Requests /\ Init => IInv
  <1> SUFFICES ASSUME Nobody \notin Requests, Init PROVE IInv OBVIOUS
  <1> USE DEF Init
  <1>1. TypeOK BY DEF TypeOK
  <1>2. InLine BY DEF InLine
  <1>3. Leased BY DEF Leased
  <1>4. Answered BY DEF Answered
  <1>5. Empty /\ ~Works BY DEF Empty, Works
  <1> QED BY <1>1, <1>2, <1>3, <1>4, <1>5 DEF IInv

(* what settling a request does                                            *)
LEMMA GivesOne ==
    ASSUME TypeOK, NEW r \in Requests, NEW status \in Nat, Give(r, status)
    PROVE  /\ answers' \in [Requests -> Seq(Nat)]
           /\ \A q \in Requests \ {r} : answers'[q] = answers[q]
           /\ client[r] = "there" => answers'[r] = Append(answers[r], status)
           /\ client[r] = "gone" => answers'[r] = answers[r]
  BY DEF TypeOK, Give

LEMMA SettleFacts ==
    ASSUME TypeOK, NEW r \in Requests, NEW status \in Nat,
           NEW outcome \in {"response", "tooLarge", "timeout", "abandoned"},
           Settle(r, outcome, status)
    PROVE  /\ requests' = [requests EXCEPT ![r] = "over"]
           /\ holder' = IF holder = r THEN Nobody ELSE holder
           /\ answers' \in [Requests -> Seq(Nat)]
           /\ \A q \in Requests \ {r} : answers'[q] = answers[q]
           /\ outcome # "abandoned" /\ client[r] = "there" =>
                 \E s \in Nat : answers'[r] = Append(answers[r], s)
           /\ outcome = "abandoned" \/ client[r] = "gone" => answers'[r] = answers[r]
           /\ toLambda' = IF outcome \in {"tooLarge", "abandoned"} /\ process = "up"
                          THEN Append(toLambda, Abort(r)) ELSE toLambda
           /\ process' = IF outcome = "timeout" /\ process = "up" THEN "ending" ELSE process
  <1>1. /\ requests' = [requests EXCEPT ![r] = "over"]
        /\ holder' = IF holder = r THEN Nobody ELSE holder
        /\ toLambda' = IF outcome \in {"tooLarge", "abandoned"} /\ process = "up"
                       THEN Append(toLambda, Abort(r)) ELSE toLambda
        /\ process' = IF outcome = "timeout" /\ process = "up" THEN "ending" ELSE process
    BY DEF Settle, At, Release, Abort
  <1>2. CASE outcome = "abandoned"
    <2>1. answers' = answers BY <1>2 DEF Settle
    <2> QED BY <1>1, <1>2, <2>1 DEF TypeOK
  <1>3. CASE outcome # "abandoned"
    <2>1. Give(r, status) \/ Give(r, 413) \/ Give(r, 504) BY <1>3 DEF Settle
    <2> QED BY <1>1, <1>3, <2>1, GivesOne DEF TypeOK
  <1> QED BY <1>2, <1>3

LEMMA MessagesTyped ==
    ASSUME NEW r \in Requests
    PROVE  /\ Abort(r) \in Message
           /\ [type |-> "REQUEST", request |-> r] \in Message
           /\ [type |-> "REQUEST_BODY", request |-> r] \in Message
  BY DEF Abort, Message

LEMMA QueueTyped ==
    ASSUME NEW S, NEW queue \in Seq(S)
    PROVE  /\ \A m \in S : Append(queue, m) \in Seq(S)
           /\ queue # <<>> => Tail(queue) \in Seq(S) /\ Head(queue) \in S
  BY QueueAppended, QueueTaken

LEMMA TypeKeeps == ASSUME TypeOK, [Next]_vars PROVE TypeOK'
  <1>00. toLambda \in Seq(Message) /\ toServer \in Seq(Answer) BY DEF TypeOK
  <1>0. /\ \A m \in Message : Append(toLambda, m) \in Seq(Message)
        /\ \A m \in Answer : Append(toServer, m) \in Seq(Answer)
        /\ toLambda # <<>> => Tail(toLambda) \in Seq(Message) /\ Head(toLambda) \in Message
        /\ toServer # <<>> => Tail(toServer) \in Seq(Answer) /\ Head(toServer) \in Answer
    BY <1>00, QueueTyped
  <1>1. CASE UNCHANGED vars BY <1>1 DEF TypeOK, vars
  <1>2. ASSUME NEW r \in Requests, NotFound(r) \/ Handle(r) \/ Busy(r) PROVE TypeOK'
    <2>1. /\ UNCHANGED <<client, arrived, holder, process, contexts, wholes, toLambda, toServer>>
          /\ requests' \in [Requests -> {"idle", "waiting", "leased", "invoked", "over"}]
      BY <1>2 DEF NotFound, Handle, Busy, At, clientVars, poolVars, lambdaVars, TypeOK
    <2>2. answers' \in [Requests -> Seq(Nat)]
      <3>1. UNCHANGED answers \/ Give(r, 404) \/ Give(r, 413) \/ Give(r, 503)
        BY <1>2 DEF NotFound, Handle, Busy
      <3> QED BY <3>1, GivesOne DEF TypeOK
    <2>3. line' \in Seq(Requests)
      <3>1. line' = line \/ line' = Append(line, r) \/ LeaveLine(r)
        BY <1>2 DEF NotFound, Handle, Busy
      <3>2. LeaveLine(r) => line' \in Seq(Requests) BY LineLeaves
      <3>3. line \in Seq(Requests) /\ Append(line, r) \in Seq(Requests) BY DEF TypeOK
      <3> QED BY <3>1, <3>2, <3>3
    <2> QED BY <2>1, <2>2, <2>3 DEF TypeOK
  <1>3. ASSUME NEW r \in Requests, Invoke(r) PROVE TypeOK'
    <2>1. /\ UNCHANGED <<client, arrived, answers, line, process, contexts, wholes, toServer>>
          /\ requests' \in [Requests -> {"idle", "waiting", "leased", "invoked", "over"}]
          /\ holder' \in Requests \cup {Nobody}
      BY <1>3 DEF Invoke, At, Release, clientVars, poolVars, TypeOK
    <2>2. toLambda' = toLambda \/ toLambda' = Append(toLambda, [type |-> "REQUEST", request |-> r])
      BY <1>3 DEF Invoke
    <2>3. toLambda' \in Seq(Message) BY <2>2, <1>0, <1>00, MessagesTyped
    <2> QED BY <2>1, <2>3 DEF TypeOK
  <1>4. ASSUME NEW r \in Requests, NEW status \in Nat,
               NEW outcome \in {"response", "tooLarge", "timeout", "abandoned"},
               Settle(r, outcome, status),
               UNCHANGED <<line, contexts, wholes>>,
               client' \in [Requests -> {"there", "gone"}],
               arrived' \in [Requests -> BOOLEAN], toServer' \in Seq(Answer)
        PROVE  TypeOK'
    <2>1. requests' = [requests EXCEPT ![r] = "over"] BY <1>4, SettleFacts
    <2>2. holder' \in Requests \cup {Nobody} BY <1>4, SettleFacts DEF TypeOK
    <2>3. answers' \in [Requests -> Seq(Nat)] BY <1>4, SettleFacts
    <2>4. toLambda' \in Seq(Message)
      <3>1. toLambda' = toLambda \/ toLambda' = Append(toLambda, Abort(r)) BY <1>4, SettleFacts
      <3> QED BY <3>1, <1>0, <1>00, MessagesTyped
    <2>5. process' \in {process, "ending"} BY <1>4, SettleFacts
    <2> QED BY <1>4, <2>1, <2>2, <2>3, <2>4, <2>5 DEF TypeOK
  <1>5. ASSUME NEW r \in Requests, BodyArrives(r) PROVE TypeOK'
    <2>1. UNCHANGED <<client, line, contexts, wholes, toServer>>
      BY <1>5 DEF BodyArrives, clientVars
    <2>2. CASE Settle(r, "tooLarge", 413) /\ UNCHANGED arrived
      <3>1. 413 \in Nat /\ "tooLarge" \in {"response", "tooLarge", "timeout", "abandoned"} OBVIOUS
      <3>2. client' \in [Requests -> {"there", "gone"}] /\ arrived' \in [Requests -> BOOLEAN]
        BY <2>1, <2>2 DEF TypeOK
      <3>3. toServer' \in Seq(Answer) BY <2>1 DEF TypeOK
      <3> QED BY <1>4, <2>1, <2>2, <3>1, <3>2, <3>3
    <2>3. CASE /\ arrived' = [arrived EXCEPT ![r] = TRUE]
               /\ toLambda' = Append(toLambda, [type |-> "REQUEST_BODY", request |-> r])
               /\ UNCHANGED <<requests, holder, answers, poolVars>>
      <3>1. toLambda' \in Seq(Message) BY <2>3, <1>0, <1>00, MessagesTyped
      <3> QED BY <2>1, <2>3, <3>1 DEF poolVars, TypeOK
    <2> QED BY <1>5, <2>2, <2>3 DEF BodyArrives
  <1>6. ASSUME NEW r \in Requests, ClientLeaves(r) PROVE TypeOK'
    <2>1. /\ UNCHANGED <<arrived, contexts, wholes, toServer>>
          /\ client' \in [Requests -> {"there", "gone"}]
      BY <1>6 DEF ClientLeaves, TypeOK
    <2>2. CASE /\ LeaveLine(r) /\ At(r, "over")
               /\ UNCHANGED <<holder, answers, toLambda, poolVars>>
      BY <2>1, <2>2, LineLeaves DEF At, poolVars, TypeOK
    <2>3. CASE Settle(r, "abandoned", 0) /\ UNCHANGED line BY <1>4, <2>1, <2>3 DEF TypeOK
    <2>4. CASE UNCHANGED <<requests, line, holder, answers, toLambda, poolVars>>
      BY <2>1, <2>4 DEF poolVars, TypeOK
    <2> QED BY <1>6, <2>2, <2>3, <2>4 DEF ClientLeaves
  <1>7. ASSUME NEW r \in Requests, Timeout(r) PROVE TypeOK'
    <2>1. Settle(r, "timeout", 504) /\ UNCHANGED <<client, arrived, line, contexts, wholes, toServer>>
      BY <1>7 DEF Timeout, clientVars
    <2>2. 504 \in Nat /\ "timeout" \in {"response", "tooLarge", "timeout", "abandoned"} OBVIOUS
    <2>3. client' \in [Requests -> {"there", "gone"}] /\ arrived' \in [Requests -> BOOLEAN]
      BY <2>1 DEF TypeOK
    <2>4. toServer' \in Seq(Answer) BY <2>1 DEF TypeOK
    <2> QED BY <1>4, <2>1, <2>2, <2>3, <2>4
  <1>8. ASSUME Receive PROVE TypeOK'
    <2>1. /\ UNCHANGED <<client, arrived, line, contexts, wholes>> /\ toServer' \in Seq(Answer)
          /\ Head(toServer) \in Answer
      BY <1>0, <1>8 DEF Receive, clientVars, TypeOK
    <2>2. Head(toServer).request \in Requests /\ Head(toServer).status \in Nat
      <3>1. 100..599 \subseteq Nat OBVIOUS
      <3> QED BY <2>1, <3>1 DEF Answer
    <2>3. CASE Settle(Head(toServer).request, "response", Head(toServer).status)
      BY <1>4, <2>1, <2>2, <2>3 DEF TypeOK
    <2>4. CASE UNCHANGED <<requests, holder, answers, toLambda, poolVars>>
      BY <2>1, <2>4 DEF poolVars, TypeOK
    <2> QED BY <1>8, <2>3, <2>4 DEF Receive
  <1>9. ASSUME Acquire PROVE TypeOK'
    <2>1. line \in Seq(Requests) /\ line # <<>> BY <1>9 DEF Acquire, TypeOK
    <2>2. line' \in Seq(Requests) /\ Head(line) \in Requests BY <1>9, <2>1 DEF Acquire
    <2>3. /\ UNCHANGED <<client, arrived, answers>> /\ holder' = Head(line)
          /\ requests' = [requests EXCEPT ![Head(line)] = "leased"]
      BY <1>9 DEF Acquire, At, clientVars
    <2>4. /\ process' \in {process, "starting"} /\ wholes' \subseteq Requests
          /\ toLambda' \in Seq(Message) /\ toServer' \in Seq(Answer)
          /\ contexts' \in [Requests -> {"none", "reading", "read", "running"}]
      <3>1. CASE process = "up" BY <1>9, <3>1 DEF Acquire, poolVars, lambdaVars, TypeOK
      <3>2. CASE process # "up"
        <4>1. /\ process' = "starting" /\ toLambda' = <<>> /\ toServer' = <<>> /\ wholes' = {}
              /\ contexts' = [r \in Requests |-> "none"]
          BY <1>9, <3>2 DEF Acquire
        <4> QED BY <4>1
      <3> QED BY <3>1, <3>2
    <2> QED BY <2>2, <2>3, <2>4 DEF TypeOK
  <1>10. ASSUME Gone PROVE TypeOK'
    <2>1. /\ UNCHANGED <<client, arrived, line, contexts, wholes, toLambda, toServer>>
          /\ process' = "none"
      BY <1>10 DEF Gone, clientVars, lambdaVars
    <2>2. CASE /\ holder # Nobody /\ At(holder, "over") /\ Give(holder, 502) /\ holder' = Nobody
      <3>1. holder \in Requests BY <2>2 DEF TypeOK
      <3>2. answers' \in [Requests -> Seq(Nat)] BY <2>2, <3>1, GivesOne
      <3> QED BY <2>1, <2>2, <3>1, <3>2 DEF At, TypeOK
    <2>3. CASE UNCHANGED <<requests, answers, holder>> BY <2>1, <2>3 DEF TypeOK
    <2> QED BY <1>10, <2>2, <2>3 DEF Gone
  <1>11. ASSUME Stop \/ Close \/ Load \/ LoadFails \/ Exit PROVE TypeOK'
    <2>1. /\ UNCHANGED <<requests, client, arrived, answers, line, holder, toServer>>
          /\ wholes' = wholes
          /\ process' \in {process, "ending", "up", "exited"}
          /\ contexts' = contexts \/ contexts' = [r \in Requests |-> "none"]
          /\ toLambda' = toLambda \/ toLambda' = <<>>
      BY <1>11 DEF Stop, Close, Load, LoadFails, Exit, serverVars, clientVars, lambdaVars, poolVars
    <2>2. contexts' \in [Requests -> {"none", "reading", "read", "running"}] BY <2>1 DEF TypeOK
    <2>3. toLambda' \in Seq(Message)
      <3>1. <<>> \in Seq(Message) /\ toLambda \in Seq(Message) BY DEF TypeOK
      <3> QED BY <2>1, <3>1
    <2> QED BY <2>1, <2>2, <2>3 DEF TypeOK
  <1>12. ASSUME Take PROVE TypeOK'
    <2>1. /\ UNCHANGED <<requests, client, arrived, answers, line, holder, process, toServer>>
          /\ toLambda # <<>> /\ toLambda' = Tail(toLambda)
      BY <1>12 DEF Take, serverVars, clientVars
    <2>2. Head(toLambda) \in Message /\ toLambda' \in Seq(Message)
      BY <1>0, <2>1
    <2>3. PICK r \in Requests : r = Head(toLambda).request BY <2>2 DEF Message
    <2>4. ReadBodyStream(contexts[r], Head(toLambda)) \in {"none", "reading", "read", "running"}
      BY <2>2, <2>3 DEF ReadBodyStream, Message, TypeOK
    <2>5. /\ contexts' = [contexts EXCEPT ![r] = ReadBodyStream(contexts[r], Head(toLambda))]
          /\ wholes' \in {wholes, wholes \cup {r}}
      BY <1>12, <2>3 DEF Take
    <2> QED BY <2>1, <2>2, <2>4, <2>5 DEF TypeOK
  <1>13. ASSUME NEW r \in Requests, Run(r) PROVE TypeOK'
    BY <1>13 DEF Run, serverVars, clientVars, TypeOK
  <1>14. ASSUME NEW r \in Requests, NEW result \in Results, Settles(r, result) PROVE TypeOK'
    <2>1. ToWorkerResponse(RunHandler(result)) \in 100..599
      BY DEF ToWorkerResponse, IsValidResponse
    <2>2. [request |-> r, status |-> ToWorkerResponse(RunHandler(result))] \in Answer
      BY <2>1 DEF Answer
    <2>3. toServer' \in Seq(Answer) BY <1>0, <1>14, <2>2 DEF Settles, TypeOK
    <2> QED BY <1>14, <2>3 DEF Settles, serverVars, clientVars, TypeOK
  <1> QED
    BY <1>1, <1>2, <1>3, <1>5, <1>6, <1>7, <1>8, <1>9, <1>10, <1>11, <1>12, <1>13, <1>14 DEF Next

-----------------------------------------------------------------------------
(* The server: the line, the lease and the answers                         *)

Served == InLine /\ Leased /\ Answered

(* the line stays in line as long as who waits goes on waiting             *)
LEMMA LineStays ==
    ASSUME TypeOK, InLine, UNCHANGED line,
           \A q \in Requests : requests[q] = "waiting" => requests'[q] = "waiting"
    PROVE  InLine'
  <1>1. \A i \in 1..Len(line) : line[i] \in Requests BY DEF TypeOK
  <1>2. \A i \in 1..Len(line) : requests[line[i]] = "waiting" BY DEF InLine
  <1>3. \A i \in 1..Len(line) : requests'[line[i]] = "waiting" BY <1>1, <1>2
  <1> QED BY <1>3 DEF InLine

(* one request is over, with its answer or without a client                *)
LEMMA OneAnswered ==
    ASSUME Answered, NEW r \in Requests, requests'[r] = "over",
           \A q \in Requests \ {r} :
               answers'[q] = answers[q] /\ requests'[q] = requests[q] /\ client'[q] = client[q],
           \/ Len(answers'[r]) = 1
           \/ answers'[r] = <<>> /\ client'[r] # "there"
    PROVE  Answered'
  <1> SUFFICES ASSUME NEW q \in Requests
               PROVE  /\ requests'[q] = "over" /\ client'[q] = "there" => Len(answers'[q]) = 1
                      /\ requests'[q] # "over" => answers'[q] = <<>>
                      /\ Len(answers'[q]) <= 1
    BY DEF Answered
  <1>1. CASE q = r
    <2>1. answers'[r] = <<>> => Len(answers'[r]) = 0 OBVIOUS
    <2>2. Len(answers'[r]) = 1 \/ (Len(answers'[r]) = 0 /\ client'[r] # "there") BY <2>1
    <2> DEFINE n == Len(answers'[r])
    <2>3. n = 1 \/ (n = 0 /\ client'[r] # "there") BY <2>2
    <2> HIDE DEF n
    <2>4. n <= 1 BY <2>3
    <2> QED BY <1>1, <2>3, <2>4 DEF n
  <1>2. CASE q # r
    <2>1. answers'[q] = answers[q] /\ requests'[q] = requests[q] /\ client'[q] = client[q]
      BY <1>2
    <2> QED BY <2>1 DEF Answered
  <1> QED BY <1>1, <1>2

(* a request that the server works for is settled, whatever comes first    *)
LEMMA SettleServes ==
    ASSUME TypeOK, Served, NEW r \in Requests, NEW status \in Nat,
           NEW outcome \in {"response", "tooLarge", "timeout", "abandoned"},
           Settle(r, outcome, status), requests[r] = "invoked", UNCHANGED line,
           client' = IF outcome = "abandoned" THEN [client EXCEPT ![r] = "gone"] ELSE client
    PROVE  Served'
  <1> USE DEF Served
  <1>1. /\ requests' = [requests EXCEPT ![r] = "over"]
        /\ holder' = IF holder = r THEN Nobody ELSE holder
        /\ process' = IF outcome = "timeout" /\ process = "up" THEN "ending" ELSE process
    BY SettleFacts
  <1>2. InLine'
    <2>1. \A q \in Requests : requests[q] = "waiting" => requests'[q] = "waiting"
      BY <1>1 DEF TypeOK
    <2> QED BY <2>1, LineStays
  <1>3. holder = r BY DEF Leased
  <1>4. Leased' BY <1>1, <1>3 DEF Leased, TypeOK
  <1>5. Answered'
    <2>1. answers[r] = <<>> BY DEF Answered
    <2>2. \A q \in Requests \ {r} : answers'[q] = answers[q] /\ requests'[q] = requests[q] /\ client'[q] = client[q]
      <3>1. \A q \in Requests \ {r} : answers'[q] = answers[q] BY SettleFacts
      <3>2. \A q \in Requests \ {r} : requests'[q] = requests[q] BY <1>1 DEF TypeOK
      <3>3. \A q \in Requests \ {r} : client'[q] = client[q] BY DEF TypeOK
      <3> QED BY <3>1, <3>2, <3>3
    <2>0. requests'[r] = "over" BY <1>1 DEF TypeOK
    <2>3. CASE outcome # "abandoned" /\ client[r] = "there"
      <3>1. PICK s \in Nat : answers'[r] = Append(answers[r], s) BY <2>3, SettleFacts
      <3>2. Len(answers'[r]) = 1 BY <2>1, <3>1
      <3> QED BY <2>0, <2>2, <3>2, OneAnswered
    <2>4. CASE outcome = "abandoned" \/ client[r] = "gone"
      <3>1. answers'[r] = <<>> BY <2>1, <2>4, SettleFacts
      <3>2. client'[r] = "gone" BY <2>4 DEF TypeOK
      <3> QED BY <2>0, <2>2, <3>1, <3>2, OneAnswered
    <2> QED BY <2>3, <2>4 DEF TypeOK
  <1> QED BY <1>2, <1>4, <1>5

(* a request that was not settled yet is over with one answer              *)
LEMMA AnswerServes ==
    ASSUME TypeOK, Answered, NEW r \in Requests, NEW status \in Nat, requests[r] # "over",
           requests' = [requests EXCEPT ![r] = "over"], Give(r, status), UNCHANGED client
    PROVE  Answered'
  <1>1. answers[r] = <<>> BY DEF Answered
  <1>2. \A q \in Requests \ {r} :
           answers'[q] = answers[q] /\ requests'[q] = requests[q] /\ client'[q] = client[q]
    BY GivesOne DEF TypeOK
  <1>5. requests'[r] = "over" BY DEF TypeOK
  <1>3. CASE client[r] = "there"
    <2>1. answers'[r] = Append(<<>>, status) BY <1>1, <1>3, GivesOne
    <2>2. Len(answers'[r]) = 1 BY <2>1
    <2> QED BY <1>2, <1>5, <2>2, OneAnswered
  <1>4. CASE client[r] # "there"
    <2>1. client[r] = "gone" BY <1>4 DEF TypeOK
    <2>2. answers'[r] = <<>> BY <1>1, <2>1, GivesOne
    <2> QED BY <1>2, <1>4, <1>5, <2>2, OneAnswered
  <1> QED BY <1>3, <1>4

(* a step of the server that settles nothing                               *)
LEMMA OtherServes ==
    ASSUME TypeOK, Answered, UNCHANGED <<answers, client>>,
           \A r \in Requests : requests'[r] = requests[r]
                               \/ (requests[r] # "over" /\ requests'[r] # "over")
                               \/ (requests'[r] = "over" /\ requests[r] # "over" /\ client[r] # "there")
    PROVE  Answered'
  <1> SUFFICES ASSUME NEW r \in Requests
               PROVE  /\ requests'[r] = "over" /\ client[r] = "there" => Len(answers[r]) = 1
                      /\ requests'[r] # "over" => answers[r] = <<>>
                      /\ Len(answers[r]) <= 1
    BY DEF Answered
  <1> QED BY DEF Answered

LEMMA ServedKeeps == ASSUME TypeOK, Served, [Next]_vars PROVE Served'
  <1> USE DEF Served
  <1>0. line \in Seq(Requests) BY DEF TypeOK
  <1>1. CASE UNCHANGED vars BY <1>1 DEF InLine, Leased, Answered, vars
  <1>2. ASSUME NEW r \in Requests, NotFound(r) PROVE Served'
    <2>1. /\ requests[r] = "idle" /\ requests' = [requests EXCEPT ![r] = "over"] /\ Give(r, 404)
          /\ UNCHANGED <<client, line, holder, process>>
      BY <1>2 DEF NotFound, At, clientVars, poolVars
    <2>2. InLine'
      <3>1. \A q \in Requests : requests[q] = "waiting" => requests'[q] = "waiting"
        BY <2>1 DEF TypeOK
      <3> QED BY <2>1, <3>1, LineStays
    <2>3. Leased' BY <2>1 DEF Leased, TypeOK
    <2>4. 404 \in Nat /\ requests[r] # "over" BY <2>1
    <2>5. Answered' BY <2>1, <2>4, AnswerServes
    <2> QED BY <2>2, <2>3, <2>5
  <1>3. ASSUME NEW r \in Requests, Handle(r) PROVE Served'
    <2>1. requests[r] = "idle" /\ UNCHANGED <<client, holder, process>>
      BY <1>3 DEF Handle, clientVars, poolVars
    <2>2. CASE At(r, "over") /\ Give(r, 413) /\ UNCHANGED line
      <3>1. InLine'
        <4>1. \A q \in Requests : requests[q] = "waiting" => requests'[q] = "waiting"
          BY <2>1, <2>2 DEF At, TypeOK
        <4> QED BY <2>2, <4>1, LineStays
      <3>2. Leased' BY <2>1, <2>2 DEF Leased, TypeOK, At
      <3>3. 413 \in Nat /\ requests[r] # "over" BY <2>1
      <3>4. requests' = [requests EXCEPT ![r] = "over"] BY <2>2 DEF At
      <3>5. Answered' BY <2>1, <2>2, <3>3, <3>4, AnswerServes
      <3> QED BY <3>1, <3>2, <3>5
    <2>3. CASE At(r, "waiting") /\ line' = Append(line, r) /\ UNCHANGED answers
      <3>1. requests' = [requests EXCEPT ![r] = "waiting"] BY <2>3 DEF At
      <3>2. /\ Len(line) \in Nat /\ Len(line') = Len(line) + 1 /\ line'[Len(line) + 1] = r
            /\ \A i \in 1..Len(line) : line'[i] = line[i]
        BY <1>0, <2>3, QueueAppended
      <3>3. \A i \in 1..Len(line) : line[i] # r /\ requests'[line[i]] = "waiting"
        BY <1>0, <2>1, <3>1 DEF InLine, TypeOK
      <3>4. InLine'
        <4>1. \A i \in 1..Len(line') : i = Len(line) + 1 \/ i \in 1..Len(line) BY <3>2
        <4>2. requests'[r] = "waiting" BY <3>1 DEF TypeOK
        <4>3. \A i \in 1..Len(line') : requests'[line'[i]] = "waiting" BY <3>2, <3>3, <4>1, <4>2
        <4>4. \A i, j \in 1..Len(line') : line'[i] = line'[j] => i = j
          BY <3>2, <3>3, <4>1 DEF InLine
        <4> QED BY <4>3, <4>4 DEF InLine
      <3>5. Leased' BY <2>1, <3>1 DEF Leased, TypeOK
      <3>6. Answered' BY <2>1, <2>3, <3>1, OtherServes DEF TypeOK
      <3> QED BY <3>4, <3>5, <3>6
    <2> QED BY <1>3, <2>2, <2>3 DEF Handle
  <1>4. ASSUME NEW r \in Requests, LeaveLine(r), requests[r] = "waiting",
               requests' = [requests EXCEPT ![r] = "over"], UNCHANGED <<holder, process>>
        PROVE  InLine' /\ Leased'
    <2>1. /\ \A j \in 1..Len(line') : requests[line'[j]] = "waiting" /\ line'[j] # r
          /\ \A j, k \in 1..Len(line') : line'[j] = line'[k] => j = k
          /\ line' \in Seq(Requests)
      BY <1>4, LineLeaves
    <2>2. \A j \in 1..Len(line') : requests'[line'[j]] = "waiting" BY <1>4, <2>1 DEF TypeOK
    <2>3. InLine' BY <2>1, <2>2 DEF InLine
    <2>4. Leased' BY <1>4 DEF Leased, TypeOK
    <2> QED BY <2>3, <2>4
  <1>5. ASSUME NEW r \in Requests, Busy(r) PROVE Served'
    <2>1. /\ requests[r] = "waiting" /\ requests' = [requests EXCEPT ![r] = "over"]
          /\ LeaveLine(r) /\ Give(r, 503) /\ UNCHANGED <<client, holder, process>>
      BY <1>5 DEF Busy, At, clientVars, poolVars
    <2>2. InLine' /\ Leased' BY <1>4, <2>1
    <2>3. 503 \in Nat /\ requests[r] # "over" BY <2>1
    <2>4. Answered' BY <2>1, <2>3, AnswerServes
    <2> QED BY <2>2, <2>4
  <1>6. ASSUME NEW r \in Requests, Invoke(r) PROVE Served'
    <2>1. requests[r] = "leased" /\ UNCHANGED <<client, answers, line, process>> /\ process = "up"
      BY <1>6 DEF Invoke, clientVars, poolVars
    <2>2. CASE client[r] = "gone" /\ At(r, "over") /\ Release(r)
      <3>1. requests' = [requests EXCEPT ![r] = "over"] BY <2>2 DEF At
      <3>2. InLine'
        <4>1. \A q \in Requests : requests[q] = "waiting" => requests'[q] = "waiting"
          BY <2>1, <3>1 DEF TypeOK
        <4> QED BY <2>1, <4>1, LineStays
      <3>3. Leased' BY <2>1, <2>2, <3>1 DEF Leased, Release, TypeOK
      <3>4. Answered' BY <2>1, <2>2, <3>1, OtherServes DEF TypeOK
      <3> QED BY <3>2, <3>3, <3>4
    <2>3. CASE At(r, "invoked") /\ UNCHANGED holder
      <3>1. requests' = [requests EXCEPT ![r] = "invoked"] BY <2>3 DEF At
      <3>2. InLine'
        <4>1. \A q \in Requests : requests[q] = "waiting" => requests'[q] = "waiting"
          BY <2>1, <3>1 DEF TypeOK
        <4> QED BY <2>1, <4>1, LineStays
      <3>3. Leased' BY <2>1, <2>3, <3>1 DEF Leased, TypeOK
      <3>4. Answered' BY <2>1, <3>1, OtherServes DEF TypeOK
      <3> QED BY <3>2, <3>3, <3>4
    <2> QED BY <1>6, <2>2, <2>3 DEF Invoke
  <1>7. ASSUME UNCHANGED <<requests, holder, answers, line, client>>,
               process' = "ending" => process = "ending" \/ holder = Nobody
        PROVE  Served'
    BY <1>7 DEF InLine, Leased, Answered
  <1>8. ASSUME NEW r \in Requests, BodyArrives(r) PROVE Served'
    <2>1. requests[r] = "invoked" /\ UNCHANGED <<client, line>>
      BY <1>8 DEF BodyArrives, clientVars
    <2>2. CASE Settle(r, "tooLarge", 413)
      <3>1. 413 \in Nat /\ "tooLarge" \in {"response", "tooLarge", "timeout", "abandoned"} OBVIOUS
      <3>2. client' = IF "tooLarge" = "abandoned" THEN [client EXCEPT ![r] = "gone"] ELSE client
        BY <2>1
      <3> QED BY <2>1, <2>2, <3>1, <3>2, SettleServes
    <2>3. CASE UNCHANGED <<requests, holder, answers, poolVars>>
      BY <1>7, <2>1, <2>3 DEF poolVars
    <2> QED BY <1>8, <2>2, <2>3 DEF BodyArrives
  <1>9. ASSUME NEW r \in Requests, ClientLeaves(r) PROVE Served'
    <2>1. client' = [client EXCEPT ![r] = "gone"] BY <1>9 DEF ClientLeaves
    <2>2. CASE /\ requests[r] = "waiting" /\ LeaveLine(r) /\ At(r, "over")
               /\ UNCHANGED <<holder, answers, toLambda, poolVars>>
      <3>1. requests' = [requests EXCEPT ![r] = "over"] /\ UNCHANGED <<holder, process, answers>>
        BY <2>2 DEF At, poolVars
      <3>2. InLine' /\ Leased' BY <1>4, <2>2, <3>1
      <3>3. Answered' BY <2>1, <2>2, <3>1 DEF Answered, TypeOK
      <3> QED BY <3>2, <3>3
    <2>3. CASE requests[r] = "invoked" /\ Settle(r, "abandoned", 0) /\ UNCHANGED line
      <3>1. 0 \in Nat /\ "abandoned" \in {"response", "tooLarge", "timeout", "abandoned"} OBVIOUS
      <3>2. client' = IF "abandoned" = "abandoned" THEN [client EXCEPT ![r] = "gone"] ELSE client
        BY <2>1
      <3> QED BY <2>3, <3>1, <3>2, SettleServes
    <2>4. CASE UNCHANGED <<requests, line, holder, answers, toLambda, poolVars>>
      <3>1. InLine' /\ Leased' BY <2>4 DEF InLine, Leased, poolVars
      <3>2. Answered' BY <2>1, <2>4 DEF Answered, TypeOK
      <3> QED BY <3>1, <3>2
    <2> QED BY <1>9, <2>2, <2>3, <2>4 DEF ClientLeaves
  <1>10. ASSUME NEW r \in Requests, Timeout(r) PROVE Served'
    <2>1. requests[r] = "invoked" /\ Settle(r, "timeout", 504) /\ UNCHANGED <<client, line>>
      BY <1>10 DEF Timeout, clientVars
    <2>2. 504 \in Nat /\ "timeout" \in {"response", "tooLarge", "timeout", "abandoned"} OBVIOUS
    <2>3. client' = IF "timeout" = "abandoned" THEN [client EXCEPT ![r] = "gone"] ELSE client
      BY <2>1
    <2> QED BY <2>1, <2>2, <2>3, SettleServes
  <1>11. ASSUME Receive PROVE Served'
    <2> DEFINE m == Head(toServer)
    <2>1. UNCHANGED <<client, line>> /\ toServer # <<>> BY <1>11 DEF Receive, clientVars
    <2>2. m.request \in Requests /\ m.status \in Nat
      <3>1. toServer \in Seq(Answer) BY DEF TypeOK
      <3>2. m \in Answer BY <2>1, <3>1, QueueTyped
      <3>3. 100..599 \subseteq Nat OBVIOUS
      <3> QED BY <3>2, <3>3 DEF Answer
    <2>3. CASE requests[m.request] = "invoked" /\ Settle(m.request, "response", m.status)
      <3>1. "response" \in {"response", "tooLarge", "timeout", "abandoned"} OBVIOUS
      <3>2. client' = IF "response" = "abandoned" THEN [client EXCEPT ![m.request] = "gone"] ELSE client
        BY <2>1
      <3> HIDE DEF m
      <3> QED BY <2>1, <2>2, <2>3, <3>1, <3>2, SettleServes
    <2>4. CASE UNCHANGED <<requests, holder, answers, toLambda, poolVars>>
      BY <1>7, <2>1, <2>4 DEF poolVars
    <2> QED BY <1>11, <2>3, <2>4 DEF Receive
  <1>12. ASSUME Acquire PROVE Served'
    <2> DEFINE r == Head(line)
    <2>1. /\ line # <<>> /\ holder = Nobody /\ process \in {"none", "up"}
          /\ holder' = r /\ line' = Tail(line) /\ requests' = [requests EXCEPT ![r] = "leased"]
          /\ UNCHANGED <<client, answers>> /\ process' \in {"starting", "up"}
      BY <1>12 DEF Acquire, At, clientVars, poolVars
    <2>2. /\ r \in Requests /\ Len(line) \in Nat \ {0} /\ Len(line') = Len(line) - 1
          /\ r = line[1] /\ \A i \in 1..(Len(line) - 1) : line'[i] = line[i + 1]
          /\ line' \in Seq(Requests)
      BY <1>0, <2>1, QueueTaken
    <2> HIDE DEF r
    <2>3. requests[r] = "waiting" BY <2>2 DEF InLine
    <2>4. \A i \in 1..(Len(line) - 1) : i + 1 \in 1..Len(line) /\ line[i + 1] # r BY <2>2 DEF InLine
    <2>5. InLine'
      <3>1. \A i \in 1..(Len(line) - 1) : line[i + 1] \in Requests /\ requests[line[i + 1]] = "waiting"
        BY <1>0, <2>4 DEF InLine
      <3>2. \A i \in 1..(Len(line) - 1) : requests'[line[i + 1]] = "waiting"
        BY <2>1, <2>4, <3>1 DEF TypeOK
      <3>3. \A i \in 1..Len(line') : requests'[line'[i]] = "waiting" BY <2>2, <3>2
      <3>4. \A i, j \in 1..(Len(line) - 1) : line[i + 1] = line[j + 1] => i = j
        BY <2>2, <2>4 DEF InLine
      <3>5. \A i, j \in 1..Len(line') : line'[i] = line'[j] => i = j BY <2>2, <3>4
      <3> QED BY <3>3, <3>5 DEF InLine
    <2>6. Leased' BY <2>1, <2>2 DEF Leased, TypeOK
    <2>7. Answered' BY <2>1, <2>3, OtherServes DEF TypeOK
    <2> QED BY <2>5, <2>6, <2>7
  <1>13. ASSUME Gone PROVE Served'
    <2>1. UNCHANGED <<client, line>> /\ process' = "none" BY <1>13 DEF Gone, clientVars
    <2>2. CASE holder # Nobody /\ At(holder, "over") /\ Give(holder, 502) /\ holder' = Nobody
      <3>1. /\ holder \in Requests /\ requests[holder] \in {"leased", "invoked"}
            /\ requests' = [requests EXCEPT ![holder] = "over"]
        BY <2>2 DEF Leased, At, TypeOK
      <3>2. InLine'
        <4>1. \A q \in Requests : requests[q] = "waiting" => requests'[q] = "waiting"
          BY <3>1 DEF TypeOK
        <4> QED BY <2>1, <4>1, LineStays
      <3>3. Leased' BY <2>1, <2>2, <3>1 DEF Leased, TypeOK
      <3>4. Answered'
        <4>1. 502 \in Nat /\ requests[holder] # "over" BY <3>1
        <4> QED BY <2>1, <2>2, <3>1, <4>1, AnswerServes
      <3> QED BY <3>2, <3>3, <3>4
    <2>3. CASE UNCHANGED <<requests, answers, holder>> BY <1>7, <2>1, <2>3
    <2> QED BY <1>13, <2>2, <2>3 DEF Gone
  <1>14. CASE \/ Stop \/ Close \/ Load \/ LoadFails \/ Exit \/ Take
              \/ \E r \in Requests : Run(r) \/ \E result \in Results : Settles(r, result)
    <2>1. UNCHANGED <<requests, holder, answers, line, client>>
      BY <1>14 DEF Stop, Close, Load, LoadFails, Exit, Take, Run, Settles, serverVars, clientVars
    <2>2. process' = "ending" => process = "ending" \/ holder = Nobody
      BY <1>14 DEF Stop, Close, Load, LoadFails, Exit, Take, Run, Settles, poolVars
    <2> QED BY <1>7, <2>1, <2>2
  <1> QED
    BY <1>1, <1>2, <1>3, <1>5, <1>6, <1>8, <1>9, <1>10, <1>11, <1>12, <1>13, <1>14 DEF Next

-----------------------------------------------------------------------------
(* The process                                                             *)

(* a process that does not work                                            *)
LEMMA EmptyKeeps == ASSUME TypeOK, Leased, Empty, [Next]_vars PROVE Empty'
  <1>1. CASE UNCHANGED vars BY <1>1 DEF Empty, Works, vars
  <1>2. CASE \E r \in Requests : NotFound(r) \/ Handle(r) \/ Busy(r) \/ Invoke(r)
    <2>1. PICK r \in Requests : NotFound(r) \/ Handle(r) \/ Busy(r) \/ Invoke(r) BY <1>2
    <2>2. UNCHANGED <<contexts, process, toServer>> /\ (process = "starting" => toLambda' = toLambda)
      BY <2>1 DEF NotFound, Handle, Busy, Invoke, lambdaVars, poolVars
    <2>3. process = "starting" => \A q \in Requests : requests'[q] = "invoked" => requests[q] = "invoked"
      BY <2>1 DEF NotFound, Handle, Busy, Invoke, At, TypeOK
    <2> QED BY <2>2, <2>3 DEF Empty, Works
  <1>3. ASSUME UNCHANGED <<contexts, toServer>>, \E r \in Requests : requests[r] = "invoked",
               process' = process \/ (process = "up" /\ process' = "ending")
        PROVE  Empty'
    BY <1>3 DEF Empty, Works
  <1>4. ASSUME NEW r \in Requests, NEW status \in Nat,
               NEW outcome \in {"response", "tooLarge", "timeout", "abandoned"},
               Settle(r, outcome, status)
        PROVE  process' = process \/ (process = "up" /\ process' = "ending")
    BY <1>4, SettleFacts
  <1>5. CASE \E r \in Requests : BodyArrives(r) \/ Timeout(r)
    <2>1. PICK r \in Requests : BodyArrives(r) \/ Timeout(r) BY <1>5
    <2>2. UNCHANGED <<contexts, toServer>> /\ requests[r] = "invoked"
      BY <2>1 DEF BodyArrives, Timeout
    <2>3. process' = process \/ Settle(r, "tooLarge", 413) \/ Settle(r, "timeout", 504)
      BY <2>1 DEF BodyArrives, Timeout, poolVars
    <2>4. /\ 413 \in Nat /\ "tooLarge" \in {"response", "tooLarge", "timeout", "abandoned"}
          /\ 504 \in Nat /\ "timeout" \in {"response", "tooLarge", "timeout", "abandoned"}
      OBVIOUS
    <2>5. process' = process \/ (process = "up" /\ process' = "ending") BY <1>4, <2>3, <2>4
    <2> QED BY <1>3, <2>2, <2>5
  <1>6. ASSUME NEW r \in Requests, ClientLeaves(r) PROVE Empty'
    <2>1. UNCHANGED <<contexts, toServer>> BY <1>6 DEF ClientLeaves
    <2>2. CASE requests[r] = "invoked" /\ Settle(r, "abandoned", 0)
      <3>1. 0 \in Nat /\ "abandoned" \in {"response", "tooLarge", "timeout", "abandoned"} OBVIOUS
      <3>2. process' = process \/ (process = "up" /\ process' = "ending") BY <1>4, <2>2, <3>1
      <3> QED BY <1>3, <2>1, <2>2, <3>2
    <2>3. CASE /\ UNCHANGED <<toLambda, poolVars>>
               /\ requests' = requests \/ At(r, "over")
      <3>1. \A q \in Requests : requests'[q] = "invoked" => requests[q] = "invoked"
        BY <2>3 DEF At, TypeOK
      <3> QED BY <2>1, <2>3, <3>1 DEF Empty, Works, poolVars
    <2> QED BY <1>6, <2>2, <2>3 DEF ClientLeaves
  <1>7. ASSUME Receive PROVE Empty'
    <2> DEFINE m == Head(toServer)
    <2>1. toServer # <<>> /\ UNCHANGED contexts BY <1>7 DEF Receive
    <2>2. process # "starting" BY <2>1 DEF Empty
    <2>3. m.request \in Requests /\ m.status \in Nat
      <3>1. toServer \in Seq(Answer) BY DEF TypeOK
      <3>2. m \in Answer BY <2>1, <3>1, QueueTyped
      <3>3. 100..599 \subseteq Nat OBVIOUS
      <3> QED BY <3>2, <3>3 DEF Answer
    <2>4. process' = process \/ Settle(m.request, "response", m.status)
      BY <1>7 DEF Receive, poolVars
    <2> HIDE DEF m
    <2>5. "response" \in {"response", "tooLarge", "timeout", "abandoned"} OBVIOUS
    <2>6. process' = process \/ (process = "up" /\ process' = "ending")
      BY <1>4, <2>3, <2>4, <2>5
    <2> QED BY <2>1, <2>2, <2>6 DEF Empty, Works
  <1>8. ASSUME Acquire PROVE Empty'
    <2>1. CASE process = "up"
      <3>1. UNCHANGED <<process, contexts>> BY <1>8, <2>1 DEF Acquire, poolVars, lambdaVars
      <3> QED BY <2>1, <3>1 DEF Empty, Works
    <2>2. CASE process # "up"
      <3>1. /\ holder = Nobody /\ toLambda' = <<>> /\ toServer' = <<>>
            /\ contexts' = [r \in Requests |-> "none"]
            /\ requests' = [requests EXCEPT ![Head(line)] = "leased"]
        BY <1>8, <2>2 DEF Acquire, At
      <3>2. \A r \in Requests : requests[r] # "invoked" BY <3>1 DEF Leased, TypeOK
      <3>3. \A r \in Requests : requests'[r] # "invoked" BY <3>1, <3>2 DEF TypeOK
      <3>4. \A r \in Requests : contexts'[r] = "none" BY <3>1
      <3> QED BY <3>1, <3>3, <3>4 DEF Empty
    <2> QED BY <2>1, <2>2
  <1>9. ASSUME Gone PROVE Empty'
    BY <1>9 DEF Gone, lambdaVars, Empty, Works
  <1>10. ASSUME Stop \/ Close \/ Load PROVE Empty'
    BY <1>10 DEF Stop, Close, Load, serverVars, lambdaVars, poolVars, Empty, Works
  <1>11. ASSUME LoadFails \/ Exit PROVE Empty'
    BY <1>11 DEF LoadFails, Exit, Empty, Works
  <1>12. CASE Take \/ \E r \in Requests : Run(r) \/ \E result \in Results : Settles(r, result)
    <2>1. process' = process /\ process \in {"up", "ending"} BY <1>12 DEF Take, Run, Settles
    <2> QED BY <2>1 DEF Empty, Works
  <1> QED
    BY <1>1, <1>2, <1>5, <1>6, <1>7, <1>8, <1>9, <1>10, <1>11, <1>12 DEF Next

-----------------------------------------------------------------------------
(* The process: what it was sent, works on and answered                    *)

LEMMA ElementsTyped ==
    ASSUME TypeOK
    PROVE  /\ \A i \in 1..Len(toLambda) : toLambda[i] \in Message /\ toLambda[i].request \in Requests
           /\ \A i \in 1..Len(toServer) : toServer[i] \in Answer /\ toServer[i].request \in Requests
  <1>1. \A i \in 1..Len(toLambda) : toLambda[i] \in Message BY DEF TypeOK
  <1>2. \A i \in 1..Len(toServer) : toServer[i] \in Answer BY DEF TypeOK
  <1>3. \A m \in Message : m.request \in Requests BY DEF Message
  <1>4. \A m \in Answer : m.request \in Requests BY DEF Answer
  <1> QED BY <1>1, <1>2, <1>3, <1>4

(* what is over or invoked stays so, and nothing is sent or answered       *)
LEMMA ProcessStays ==
    ASSUME ProcessInv, UNCHANGED <<body, arrived, contexts, toLambda, toServer, wholes>>,
           process' = "up" => process = "up",
           \A r \in Requests : requests[r] \in {"invoked", "over"} => requests'[r] \in {"invoked", "over"},
           \A r \in Requests : requests[r] = "over" => requests'[r] = "over",
           process' = "up" => \A r \in Requests : requests'[r] = "invoked" <=> requests[r] = "invoked",
           TypeOK
    PROVE  ProcessInv'
  <1> USE DEF ProcessInv
  <1>2. /\ \A i \in 1..Len(toLambda) : toLambda[i].request \in Requests
        /\ \A i \in 1..Len(toServer) : toServer[i].request \in Requests
    BY ElementsTyped
  <1>3. InTurn' BY DEF InTurn
  <1>4. Told' BY DEF Told, Abort
  <1>5. AnsweredLast' BY <1>2 DEF AnsweredLast, HasBody
  <1>6. Whole' BY DEF Whole, HasBody
  <1>7. Ordered' BY <1>2 DEF Ordered, HasBody
  <1>8. Sent' BY DEF Sent
  <1> QED BY <1>3, <1>4, <1>5, <1>6, <1>7, <1>8

(* A message is sent for the one request that is invoked: the request, its *)
(* body or the abort of a body that has not arrived.                       *)
LEMMA SendKeeps ==
    ASSUME TypeOK, ProcessInv, process = "up", UNCHANGED <<body, contexts, toServer, wholes, process>>,
           NEW r \in Requests, NEW m \in Message, m.request = r, toLambda' = Append(toLambda, m),
           \A q \in Requests \ {r} : /\ requests[q] # "invoked" /\ requests'[q] = requests[q]
                                     /\ arrived'[q] = arrived[q],
           \/ /\ m.type = "REQUEST" /\ arrived'[r] = arrived[r]
              /\ requests[r] = "leased" /\ requests'[r] = "invoked"
           \/ /\ m.type = "REQUEST_BODY" /\ HasBody(r) /\ ~arrived[r] /\ arrived'[r]
              /\ requests[r] = "invoked" /\ requests'[r] = "invoked"
           \/ /\ m.type = "REQUEST_ABORT" /\ HasBody(r) /\ ~arrived[r] /\ ~arrived'[r]
              /\ requests[r] = "invoked" /\ requests'[r] = "over"
    PROVE  ProcessInv'
  <1> USE DEF ProcessInv
  <1> DEFINE n == Len(toLambda)
             longer == toLambda'
  <1>1. toLambda \in Seq(Message) /\ toServer \in Seq(Answer) BY DEF TypeOK
  <1>2. /\ n \in Nat /\ Len(longer) = n + 1 /\ longer[n + 1] = m
        /\ \A i \in 1..n : longer[i] = toLambda[i]
    BY <1>1, QueueAppended
  <1>3. /\ \A i \in 1..n : toLambda[i] \in Message /\ toLambda[i].request \in Requests
        /\ \A i \in 1..Len(toServer) : toServer[i].request \in Requests
    BY ElementsTyped DEF n
  <1>4. m.type = "REQUEST_ABORT" => m = Abort(r) BY DEF Message, Abort
  <1> HIDE DEF n
  <1>5. \A i \in 1..(n + 1) : i = n + 1 \/ i \in 1..n BY <1>2
  <1>6. \A q \in Requests, low \in Nat \ {0}, high \in Nat :
           high <= n /\ Aborted(toLambda, q, low, high) => Aborted(longer, q, low, high)
    <2> SUFFICES ASSUME NEW q \in Requests, NEW low \in Nat \ {0}, NEW high \in Nat, high <= n,
                        Aborted(toLambda, q, low, high)
                 PROVE  Aborted(longer, q, low, high)
      OBVIOUS
    <2>1. PICK k \in low..high : toLambda[k] = Abort(q) BY DEF Aborted
    <2>2. k \in 1..n BY <1>2, <2>1
    <2>3. longer[k] = Abort(q) BY <1>2, <2>1, <2>2
    <2> QED BY <2>1, <2>3 DEF Aborted
  <1>7. \A q \in Requests \ {r} :
           /\ contexts[q] # "none" => Aborted(longer, q, 1, n)
           /\ \A i \in 1..n : toLambda[i].request = q => Aborted(longer, q, i, n)
    <2> SUFFICES ASSUME NEW q \in Requests \ {r}
                 PROVE  /\ contexts[q] # "none" => Aborted(longer, q, 1, n)
                        /\ \A i \in 1..n : toLambda[i].request = q => Aborted(longer, q, i, n)
      OBVIOUS
    <2>1. requests[q] # "invoked" OBVIOUS
    <2>2. /\ contexts[q] # "none" => Aborted(toLambda, q, 1, n)
          /\ \A i \in 1..n : toLambda[i].request = q => Aborted(toLambda, q, i, n)
      BY <2>1 DEF Told, n
    <2>3. /\ 1 \in Nat \ {0} /\ n <= n /\ n \in Nat
          /\ \A i \in 1..n : i \in Nat \ {0}
      BY <1>2
    <2> QED BY <1>6, <2>2, <2>3
  <1>8. \A q \in Requests \ {r} : NothingOf(toLambda, q) => NothingOf(longer, q)
    BY <1>2, <1>5 DEF NothingOf, n
  <1>9. requests'[r] \in {"invoked", "over"}
        /\ \A q \in Requests : requests[q] \in {"invoked", "over"} => requests'[q] \in {"invoked", "over"}
    OBVIOUS
  <1>10. \A q \in Requests : arrived[q] => arrived'[q] OBVIOUS
  <1>11. InTurn'
    <2>1. ASSUME NEW i \in 1..(n + 1), NEW j \in 1..(n + 1), i < j, longer[i].request # longer[j].request
          PROVE  Aborted(longer, longer[i].request, i, j - 1)
      <3>1. i \in 1..n /\ longer[i] = toLambda[i] BY <1>2, <2>1
      <3>2. CASE j \in 1..n
        <4>1. longer[j] = toLambda[j] BY <1>2, <3>2
        <4>2. Aborted(toLambda, toLambda[i].request, i, j - 1) BY <2>1, <3>1, <3>2, <4>1 DEF InTurn, n
        <4>3. i \in Nat \ {0} /\ j - 1 \in Nat /\ j - 1 <= n BY <1>2, <3>1, <3>2
        <4>4. toLambda[i].request \in Requests BY <1>3, <3>1
        <4> QED BY <1>6, <3>1, <4>2, <4>3, <4>4
      <3>3. CASE j = n + 1
        <4>1. toLambda[i].request \in Requests \ {r} BY <1>2, <1>3, <2>1, <3>1, <3>3
        <4>2. j - 1 = n BY <1>2, <3>3
        <4> QED BY <1>7, <3>1, <4>1, <4>2
      <3> QED BY <1>5, <3>2, <3>3
    <2>2. ASSUME NEW q \in Requests, NEW j \in 1..(n + 1), contexts[q] # "none", longer[j].request # q
          PROVE  Aborted(longer, q, 1, j - 1)
      <3>1. CASE j \in 1..n
        <4>1. Aborted(toLambda, q, 1, j - 1) BY <1>2, <2>2, <3>1 DEF InTurn, n
        <4>2. 1 \in Nat \ {0} /\ j - 1 \in Nat /\ j - 1 <= n BY <1>2, <3>1
        <4> QED BY <1>6, <4>1, <4>2
      <3>2. CASE j = n + 1
        <4>1. q \in Requests \ {r} BY <1>2, <2>2, <3>2
        <4>2. j - 1 = n BY <1>2, <3>2
        <4> QED BY <1>7, <2>2, <4>1, <4>2
      <3> QED BY <1>5, <3>1, <3>2
    <2>3. \A q, s \in Requests : contexts'[q] # "none" /\ contexts'[s] # "none" => q = s
      BY DEF InTurn
    <2>4. contexts' = contexts OBVIOUS
    <2> QED BY <1>2, <2>1, <2>2, <2>3, <2>4 DEF InTurn
  <1>12. Told'
    <2> SUFFICES ASSUME NEW q \in Requests, requests'[q] # "invoked"
                 PROVE  /\ contexts[q] # "none" => Aborted(longer, q, 1, n + 1)
                        /\ \A i \in 1..(n + 1) : longer[i].request = q => Aborted(longer, q, i, n + 1)
      BY <1>2 DEF Told
    <2>1. CASE q = r
      <3>1. longer[n + 1] = Abort(q) BY <1>2, <1>4, <2>1
      <3>2. \A i \in 1..(n + 1) : n + 1 \in i..(n + 1) BY <1>2
      <3>3. \A i \in 1..(n + 1) : Aborted(longer, q, i, n + 1) BY <3>1, <3>2 DEF Aborted
      <3>4. 1 \in 1..(n + 1) BY <1>2
      <3> QED BY <3>3, <3>4
    <2>2. CASE q # r
      <3>1. \A low \in 1..(n + 1) : Aborted(longer, q, low, n) => Aborted(longer, q, low, n + 1)
        <4>1. \A low \in 1..(n + 1) : low..n \subseteq low..(n + 1) BY <1>2
        <4> QED BY <4>1 DEF Aborted
      <3>2. 1 \in 1..(n + 1) /\ \A i \in 1..n : i \in 1..(n + 1) BY <1>2
      <3>3. \A i \in 1..(n + 1) : longer[i].request = q => i \in 1..n /\ toLambda[i].request = q
        BY <1>2, <1>5, <2>2
      <3> QED BY <1>7, <2>2, <3>1, <3>2, <3>3
    <2> QED BY <2>1, <2>2
  <1>13. AnsweredLast'
    <2> SUFFICES ASSUME NEW i \in 1..Len(toServer), NEW s \in Requests, s = toServer[i].request
                 PROVE  /\ requests'[s] \in {"invoked", "over"} /\ (HasBody(s) => arrived'[s])
                        /\ contexts[s] = "none" /\ NothingOf(longer, s)
      BY <1>3 DEF AnsweredLast, HasBody
    <2>1. /\ requests[s] \in {"invoked", "over"} /\ (HasBody(s) => arrived[s])
          /\ contexts[s] = "none" /\ NothingOf(toLambda, s)
      BY DEF AnsweredLast
    <2>2. s # r BY <2>1
    <2> QED BY <1>8, <1>9, <1>10, <2>1, <2>2
  <1>14. Whole'
    <2> SUFFICES ASSUME NEW q \in Requests
                 PROVE  /\ contexts[q] # "none" => requests'[q] \in {"invoked", "over"}
                        /\ contexts[q] = "reading" => HasBody(q)
                        /\ contexts[q] \in {"read", "running"} =>
                              q \in wholes /\ (HasBody(q) => arrived'[q]) /\ NothingOf(longer, q)
      BY DEF Whole, HasBody
    <2>1. /\ contexts[q] # "none" => requests[q] \in {"invoked", "over"}
          /\ contexts[q] = "reading" => HasBody(q)
          /\ contexts[q] \in {"read", "running"} =>
                q \in wholes /\ (HasBody(q) => arrived[q]) /\ NothingOf(toLambda, q)
      BY DEF Whole
    <2>2. contexts[q] \in {"read", "running"} => q # r BY <2>1
    <2> QED BY <1>8, <1>9, <1>10, <2>1, <2>2
  <1>15. Ordered'
    <2> SUFFICES ASSUME NEW i \in 1..(n + 1)
                 PROVE  LET e == longer[i]
                            IsLast == \A j \in (i + 1)..(n + 1) : longer[j].request # e.request
                        IN  /\ requests'[e.request] \in {"invoked", "over"}
                            /\ e.type = "REQUEST" => HasBody(e.request) \/ IsLast
                            /\ e.type = "REQUEST_BODY" => HasBody(e.request) /\ arrived'[e.request] /\ IsLast
                            /\ e.type = "REQUEST_ABORT" => /\ HasBody(e.request) /\ ~arrived'[e.request]
                                                           /\ requests'[e.request] = "over" /\ IsLast
      BY <1>2 DEF Ordered, HasBody
    <2> DEFINE e == longer[i]
               Last0 == \A j \in (i + 1)..n : toLambda[j].request # e.request
               Last1 == \A j \in (i + 1)..(n + 1) : longer[j].request # e.request
    <2>1. CASE i = n + 1
      <3>1. e = m BY <1>2, <2>1
      <3>2. Last1 BY <1>2, <2>1
      <3> QED BY <3>1, <3>2
    <2>2. CASE i \in 1..n
      <3>1. e = toLambda[i] /\ e.request \in Requests BY <1>2, <1>3, <2>2
      <3>2. /\ requests[e.request] \in {"invoked", "over"}
            /\ e.type = "REQUEST" => HasBody(e.request) \/ Last0
            /\ e.type = "REQUEST_BODY" => HasBody(e.request) /\ arrived[e.request] /\ Last0
            /\ e.type = "REQUEST_ABORT" =>
                  HasBody(e.request) /\ ~arrived[e.request] /\ requests[e.request] = "over" /\ Last0
        BY <2>2, <3>1 DEF Ordered, n
      <3>3. e.request # r /\ Last0 => Last1
        <4>1. \A j \in (i + 1)..(n + 1) : j = n + 1 \/ (j \in (i + 1)..n /\ j \in 1..n)
          BY <1>2, <2>2
        <4> QED BY <1>2, <4>1
      <3> HIDE DEF Last0, Last1
      <3>4. CASE e.request = r
        <4> HIDE DEF e
        <4> QED BY <3>2, <3>4 DEF e, Last1
      <3>5. CASE e.request # r
        <4>1. requests'[e.request] = requests[e.request] /\ arrived'[e.request] = arrived[e.request]
          BY <3>1, <3>5
        <4> QED BY <3>2, <3>3, <3>5, <4>1 DEF Last1
      <3> QED BY <3>4, <3>5
    <2> QED BY <1>5, <2>1, <2>2
  <1>16. Sent'
    <2> SUFFICES ASSUME NEW q \in Requests, requests'[q] = "invoked"
                 PROVE  \/ \E j \in 1..(n + 1) : longer[j] = [type |-> "REQUEST", request |-> q]
                        \/ \A s \in Requests \ {q} : contexts[s] = "none" /\ NothingOf(longer, s)
      BY <1>2 DEF Sent
    <2>1. q = r OBVIOUS
    <2>2. CASE m.type = "REQUEST"
      <3>1. m = [type |-> "REQUEST", request |-> q] BY <2>1, <2>2 DEF Message
      <3>2. n + 1 \in 1..(n + 1) BY <1>2
      <3> QED BY <1>2, <3>1, <3>2
    <2>3. CASE m.type # "REQUEST"
      <3>1. requests[q] = "invoked" BY <2>1, <2>3
      <3>2. \/ \E j \in 1..n : toLambda[j] = [type |-> "REQUEST", request |-> q]
            \/ \A s \in Requests \ {q} : contexts[s] = "none" /\ NothingOf(toLambda, s)
        BY <3>1 DEF Sent, n
      <3>3. \A j \in 1..n : j \in 1..(n + 1) BY <1>2
      <3> QED BY <1>2, <1>8, <2>1, <3>2, <3>3
    <2> QED BY <2>2, <2>3
  <1> QED BY <1>11, <1>12, <1>13, <1>14, <1>15, <1>16


(* The process takes the first message.  It works on no other request: an  *)
(* abort of that would be in front of the message.                         *)
LEMMA TakeKeeps == ASSUME TypeOK, ProcessInv, Take PROVE ProcessInv'
  <1> USE DEF ProcessInv
  <1> DEFINE n == Len(toLambda)
             m == Head(toLambda)
             r == m.request
             rest == toLambda'
  <1>1. /\ UNCHANGED <<requests, body, arrived, process, toServer>>
        /\ toLambda # <<>> /\ rest = Tail(toLambda)
        /\ contexts' = [contexts EXCEPT ![r] = ReadBodyStream(contexts[r], m)]
        /\ wholes' = IF contexts'[r] = "read" THEN wholes \cup {r} ELSE wholes
    BY DEF Take, serverVars, clientVars
  <1>2. /\ n \in Nat \ {0} /\ Len(rest) = n - 1 /\ m = toLambda[1] /\ m \in Message
        /\ \A i \in 1..(n - 1) : rest[i] = toLambda[i + 1]
    <2>1. toLambda \in Seq(Message) BY DEF TypeOK
    <2> QED BY <1>1, <2>1, QueueTaken
  <1>3. /\ \A i \in 1..n : toLambda[i] \in Message /\ toLambda[i].request \in Requests
        /\ \A i \in 1..Len(toServer) : toServer[i].request \in Requests
    BY ElementsTyped DEF n
  <1>4. r \in Requests /\ 1 \in 1..n BY <1>2 DEF Message
  <1>5. /\ contexts'[r] = ReadBodyStream(contexts[r], m)
        /\ \A q \in Requests \ {r} : contexts'[q] = contexts[q]
        /\ contexts[r] \in {"none", "reading", "read", "running"}
    BY <1>1, <1>4 DEF TypeOK
  <1> HIDE DEF n, r, m
  <1>6. toLambda[1] = m /\ m.request = r BY <1>2 DEF r
  <1>7. \A i \in 1..(n - 1) : i + 1 \in 1..n BY <1>2
  <1>8. \A j \in 2..n : j - 1 \in 1..(n - 1) /\ rest[j - 1] = toLambda[j]
    <2>1. \A j \in 2..n : j - 1 \in 1..(n - 1) /\ (j - 1) + 1 = j BY <1>2
    <2> QED BY <1>2, <2>1
  <1>9. \A q \in Requests \ {r} : contexts[q] = "none" /\ contexts'[q] = "none"
    <2> SUFFICES ASSUME NEW q \in Requests \ {r}, contexts[q] # "none" PROVE FALSE BY <1>5
    <2>1. Aborted(toLambda, q, 1, 1 - 1) BY <1>4, <1>6 DEF InTurn, n
    <2> QED BY <2>1 DEF Aborted
  <1>10. ASSUME NEW q \in Requests, NEW low \in 2..n, NEW high \in 1..n, Aborted(toLambda, q, low, high)
         PROVE  Aborted(rest, q, low - 1, high - 1)
    <2>1. PICK k \in low..high : toLambda[k] = Abort(q) BY <1>10 DEF Aborted
    <2>2. k \in 2..n /\ k - 1 \in (low - 1)..(high - 1) BY <1>2, <2>1
    <2> QED BY <1>8, <2>1, <2>2 DEF Aborted
  <1>11. ASSUME NEW high \in 1..n, Aborted(toLambda, r, 1, high), contexts'[r] # "none"
         PROVE  Aborted(rest, r, 1, high - 1)
    <2>1. PICK k \in 1..high : toLambda[k] = Abort(r) BY <1>11 DEF Aborted
    <2>2. k # 1
      <3>1. m = Abort(r) => contexts'[r] = "none" BY <1>5 DEF Abort, ReadBodyStream
      <3> QED BY <1>6, <1>11, <2>1, <3>1
    <2>3. k \in 2..n /\ k - 1 \in 1..(high - 1) BY <1>2, <2>1, <2>2
    <2> QED BY <1>8, <2>1, <2>3 DEF Aborted
  <1>12. \A q \in Requests : NothingOf(toLambda, q) => q # r /\ NothingOf(rest, q)
    BY <1>2, <1>4, <1>6, <1>7 DEF NothingOf, n
  <1>13. InTurn'
    <2>1. ASSUME NEW i \in 1..(n - 1), NEW j \in 1..(n - 1), i < j, rest[i].request # rest[j].request
          PROVE  Aborted(rest, rest[i].request, i, j - 1)
      <3> DEFINE q == toLambda[i + 1].request
      <3>1. /\ i + 1 \in 1..n /\ j + 1 \in 1..n /\ i + 1 < j + 1 /\ (j + 1) - 1 = j
            /\ rest[i] = toLambda[i + 1] /\ rest[j] = toLambda[j + 1]
        BY <1>2, <2>1
      <3>2. q \in Requests BY <1>3, <3>1
      <3>3. Aborted(toLambda, q, i + 1, (j + 1) - 1) BY <2>1, <3>1 DEF InTurn, n
      <3>4. i + 1 \in 2..n /\ j \in 1..n /\ (i + 1) - 1 = i BY <1>2
      <3>5. rest[i].request = q BY <3>1
      <3> HIDE DEF q
      <3>6. Aborted(rest, q, (i + 1) - 1, j - 1) BY <1>10, <3>1, <3>2, <3>3, <3>4
      <3> QED BY <3>4, <3>5, <3>6
    <2>2. ASSUME NEW q \in Requests, NEW j \in 1..(n - 1), contexts'[q] # "none", rest[j].request # q
          PROVE  Aborted(rest, q, 1, j - 1)
      <3>1. q = r BY <1>9, <2>2
      <3>2. j + 1 \in 1..n /\ 1 < j + 1 /\ (j + 1) - 1 = j /\ rest[j] = toLambda[j + 1] /\ j \in 1..n
        BY <1>2
      <3>3. Aborted(toLambda, r, 1, (j + 1) - 1) BY <1>4, <1>6, <2>2, <3>1, <3>2 DEF InTurn, n
      <3> QED BY <1>11, <2>2, <3>1, <3>2, <3>3
    <2>3. \A q, s \in Requests : contexts'[q] # "none" /\ contexts'[s] # "none" => q = s BY <1>9
    <2> QED BY <1>2, <2>1, <2>2, <2>3 DEF InTurn
  <1>14. Told'
    <2> SUFFICES ASSUME process = "up", NEW q \in Requests, requests[q] # "invoked"
                 PROVE  /\ contexts'[q] # "none" => Aborted(rest, q, 1, n - 1)
                        /\ \A i \in 1..(n - 1) : rest[i].request = q => Aborted(rest, q, i, n - 1)
      BY <1>1, <1>2 DEF Told
    <2>1. \A i \in 1..n : toLambda[i].request = q => Aborted(toLambda, q, i, n) BY DEF Told, n
    <2>2. n \in 1..n BY <1>2
    <2>3. ASSUME contexts'[q] # "none" PROVE Aborted(rest, q, 1, n - 1)
      <3>1. q = r BY <1>9, <2>3
      <3> QED BY <1>4, <1>6, <1>11, <2>1, <2>2, <2>3, <3>1
    <2>4. ASSUME NEW i \in 1..(n - 1), rest[i].request = q PROVE Aborted(rest, q, i, n - 1)
      <3>1. i + 1 \in 2..n /\ i + 1 \in 1..n /\ (i + 1) - 1 = i /\ rest[i] = toLambda[i + 1]
        BY <1>2
      <3>2. Aborted(toLambda, q, i + 1, n) BY <2>1, <2>4, <3>1
      <3>3. Aborted(rest, q, (i + 1) - 1, n - 1) BY <1>10, <2>2, <3>1, <3>2
      <3> QED BY <3>1, <3>3
    <2> QED BY <2>3, <2>4
  <1>15. AnsweredLast'
    <2> SUFFICES ASSUME NEW i \in 1..Len(toServer), NEW s \in Requests, s = toServer[i].request
                 PROVE  /\ requests[s] \in {"invoked", "over"} /\ (HasBody(s) => arrived[s])
                        /\ contexts'[s] = "none" /\ NothingOf(rest, s)
      BY <1>1, <1>3 DEF AnsweredLast, HasBody
    <2>1. /\ requests[s] \in {"invoked", "over"} /\ (HasBody(s) => arrived[s]) /\ NothingOf(toLambda, s)
      BY DEF AnsweredLast
    <2> QED BY <1>9, <1>12, <2>1
  <1>16. /\ requests[r] \in {"invoked", "over"}
         /\ m.type = "REQUEST" => HasBody(r) \/ NothingOf(rest, r)
         /\ m.type = "REQUEST_BODY" => HasBody(r) /\ arrived[r] /\ NothingOf(rest, r)
    <2>1. LET IsLast == \A j \in (1 + 1)..n : toLambda[j].request # r
          IN  /\ requests[r] \in {"invoked", "over"}
              /\ m.type = "REQUEST" => HasBody(r) \/ IsLast
              /\ m.type = "REQUEST_BODY" => HasBody(r) /\ arrived[r] /\ IsLast
      BY <1>4, <1>6 DEF Ordered, n
    <2>2. (\A j \in (1 + 1)..n : toLambda[j].request # r) => NothingOf(rest, r)
      <3>1. \A i \in 1..(n - 1) : i + 1 \in (1 + 1)..n BY <1>2
      <3> QED BY <1>2, <3>1 DEF NothingOf
    <2> QED BY <2>1, <2>2
  <1>17. Whole'
    <2>1. ASSUME contexts'[r] \in {"read", "running"}
          PROVE  r \in wholes' /\ (HasBody(r) => arrived[r]) /\ NothingOf(rest, r)
      <3>1. contexts[r] \notin {"read", "running"} BY <1>4, <1>12 DEF Whole
      <3>2. \/ m.type = "REQUEST" /\ ~HasBody(r) /\ contexts'[r] = "read"
            \/ m.type = "REQUEST_BODY" /\ contexts'[r] = "read"
        BY <1>2, <1>5, <1>6, <2>1, <3>1 DEF ReadBodyStream, Message
      <3> QED BY <1>1, <1>16, <3>2
    <2>2. contexts'[r] = "reading" => HasBody(r)
      <3>1. contexts'[r] = "reading" => (m.type = "REQUEST" /\ HasBody(r)) \/ contexts[r] = "reading"
        BY <1>2, <1>5, <1>6 DEF ReadBodyStream, Message
      <3> QED BY <1>4, <3>1 DEF Whole
    <2> SUFFICES ASSUME NEW q \in Requests
                 PROVE  /\ contexts'[q] # "none" => requests[q] \in {"invoked", "over"}
                        /\ contexts'[q] = "reading" => HasBody(q)
                        /\ contexts'[q] \in {"read", "running"} =>
                              q \in wholes' /\ (HasBody(q) => arrived[q]) /\ NothingOf(rest, q)
      BY <1>1 DEF Whole, HasBody
    <2>3. CASE q = r BY <1>16, <2>1, <2>2, <2>3
    <2>4. CASE q # r BY <1>9, <2>4
    <2> QED BY <2>3, <2>4
  <1>18. Ordered'
    <2> SUFFICES ASSUME NEW i \in 1..(n - 1)
                 PROVE  LET e == rest[i]
                            IsLast == \A j \in (i + 1)..(n - 1) : rest[j].request # e.request
                        IN  /\ requests[e.request] \in {"invoked", "over"}
                            /\ e.type = "REQUEST" => HasBody(e.request) \/ IsLast
                            /\ e.type = "REQUEST_BODY" => HasBody(e.request) /\ arrived[e.request] /\ IsLast
                            /\ e.type = "REQUEST_ABORT" => /\ HasBody(e.request) /\ ~arrived[e.request]
                                                           /\ requests[e.request] = "over" /\ IsLast
      BY <1>1, <1>2 DEF Ordered, HasBody
    <2> DEFINE e == toLambda[i + 1]
               Last0 == \A j \in ((i + 1) + 1)..n : toLambda[j].request # e.request
               Last1 == \A j \in (i + 1)..(n - 1) : rest[j].request # e.request
    <2>1. i + 1 \in 1..n /\ rest[i] = e BY <1>2
    <2>2. /\ requests[e.request] \in {"invoked", "over"}
          /\ e.type = "REQUEST" => HasBody(e.request) \/ Last0
          /\ e.type = "REQUEST_BODY" => HasBody(e.request) /\ arrived[e.request] /\ Last0
          /\ e.type = "REQUEST_ABORT" =>
                HasBody(e.request) /\ ~arrived[e.request] /\ requests[e.request] = "over" /\ Last0
      BY <2>1 DEF Ordered, n
    <2>3. Last0 => Last1
      <3>1. \A j \in (i + 1)..(n - 1) : j + 1 \in ((i + 1) + 1)..n /\ j \in 1..(n - 1) BY <1>2
      <3> QED BY <1>2, <3>1
    <2> HIDE DEF Last0
    <2> QED BY <2>1, <2>2, <2>3
  <1>19. Sent'
    <2> SUFFICES ASSUME process = "up", NEW q \in Requests, requests[q] = "invoked"
                 PROVE  \/ \E j \in 1..(n - 1) : rest[j] = [type |-> "REQUEST", request |-> q]
                        \/ \A s \in Requests \ {q} : contexts'[s] = "none" /\ NothingOf(rest, s)
      BY <1>1, <1>2 DEF Sent
    <2>1. \/ \E j \in 1..n : toLambda[j] = [type |-> "REQUEST", request |-> q]
          \/ \A s \in Requests \ {q} : contexts[s] = "none" /\ NothingOf(toLambda, s)
      BY DEF Sent, n
    <2>2. CASE \A s \in Requests \ {q} : contexts[s] = "none" /\ NothingOf(toLambda, s)
      <3>1. q = r BY <1>4, <1>12, <2>2
      <3> QED BY <1>9, <1>12, <2>2, <3>1
    <2>3. ASSUME NEW j \in 1..n, toLambda[j] = [type |-> "REQUEST", request |-> q], j # 1
          PROVE  \E k \in 1..(n - 1) : rest[k] = [type |-> "REQUEST", request |-> q]
      <3>1. j \in 2..n BY <1>2, <2>3
      <3> QED BY <1>8, <2>3, <3>1
    <2>4. CASE toLambda[1] = [type |-> "REQUEST", request |-> q]
      <3>1. q = r BY <1>6, <2>4
      <3>2. ASSUME NEW s \in Requests \ {r} PROVE NothingOf(rest, s)
        <4> SUFFICES ASSUME NEW i \in 1..(n - 1), rest[i].request = s PROVE FALSE
          BY <1>2 DEF NothingOf
        <4>1. i + 1 \in 1..n /\ 1 < i + 1 /\ (i + 1) - 1 = i /\ rest[i] = toLambda[i + 1] BY <1>2
        <4>2. Aborted(toLambda, r, 1, (i + 1) - 1)
          BY <1>4, <1>6, <3>2, <4>1 DEF InTurn, n
        <4>3. PICK k \in 1..i : toLambda[k] = Abort(r) BY <4>1, <4>2 DEF Aborted
        <4>4. k \in 1..n /\ toLambda[k].type = "REQUEST_ABORT" /\ toLambda[k].request = r
          BY <1>2, <4>3 DEF Abort
        <4>5. requests[r] = "over" BY <4>4 DEF Ordered, n
        <4> QED BY <3>1, <4>5
      <3> QED BY <1>9, <3>1, <3>2
    <2> QED BY <2>1, <2>2, <2>3, <2>4
  <1> QED BY <1>13, <1>14, <1>15, <1>17, <1>18, <1>19

LEMMA RunKeeps == ASSUME TypeOK, ProcessInv, NEW r \in Requests, Run(r) PROVE ProcessInv'
  <1> USE DEF ProcessInv
  <1>1. /\ UNCHANGED <<requests, body, arrived, process, toLambda, toServer, wholes>>
        /\ contexts[r] = "read" /\ contexts' = [contexts EXCEPT ![r] = "running"]
    BY DEF Run, serverVars, clientVars
  <1>2. \A i \in 1..Len(toServer) : toServer[i].request \in Requests BY ElementsTyped
  <1>3. /\ \A q \in Requests : contexts'[q] = "none" <=> contexts[q] = "none"
        /\ \A q \in Requests : contexts'[q] = "reading" => contexts[q] = "reading"
        /\ \A q \in Requests : contexts'[q] \in {"read", "running"} => contexts[q] \in {"read", "running"}
    BY <1>1 DEF TypeOK
  <1>4. InTurn' BY <1>1, <1>3 DEF InTurn
  <1>5. Told' BY <1>1, <1>3 DEF Told
  <1>6. AnsweredLast' BY <1>1, <1>2, <1>3 DEF AnsweredLast, HasBody
  <1>7. Whole' BY <1>1, <1>3 DEF Whole, HasBody
  <1>8. Ordered' BY <1>1 DEF Ordered, HasBody
  <1>9. Sent' BY <1>1, <1>3 DEF Sent
  <1> QED BY <1>4, <1>5, <1>6, <1>7, <1>8, <1>9

LEMMA SettlesKeeps ==
    ASSUME TypeOK, ProcessInv, NEW r \in Requests, NEW result \in Results, Settles(r, result)
    PROVE  ProcessInv'
  <1> USE DEF ProcessInv
  <1> DEFINE status == ToWorkerResponse(RunHandler(result))
             n == Len(toServer)
  <1>1. /\ UNCHANGED <<requests, body, arrived, process, toLambda, wholes>>
        /\ contexts[r] = "running" /\ contexts' = [contexts EXCEPT ![r] = "none"]
        /\ toServer' = Append(toServer, [request |-> r, status |-> status])
    BY DEF Settles, serverVars, clientVars
  <1>2. \A i \in 1..n : toServer[i].request \in Requests BY ElementsTyped DEF n
  <1> HIDE DEF status
  <1>3. /\ n \in Nat /\ Len(toServer') = n + 1 /\ toServer'[n + 1].request = r
        /\ \A i \in 1..n : toServer'[i] = toServer[i]
    <2>1. toServer \in Seq(Answer) BY DEF TypeOK
    <2>2. /\ n \in Nat /\ Len(toServer') = n + 1
          /\ toServer'[n + 1] = [request |-> r, status |-> status]
          /\ \A i \in 1..n : toServer'[i] = toServer[i]
      BY <1>1, <2>1, QueueAppended
    <2> QED BY <2>2
  <1> HIDE DEF n
  <1>4. /\ \A q \in Requests : contexts'[q] # "none" => q # r /\ contexts'[q] = contexts[q]
        /\ contexts'[r] = "none"
        /\ \A q \in Requests : contexts[q] = "none" => contexts'[q] = "none"
    BY <1>1 DEF TypeOK
  <1>5. requests[r] \in {"invoked", "over"} /\ (HasBody(r) => arrived[r]) /\ NothingOf(toLambda, r)
    BY <1>1 DEF Whole
  <1>6. InTurn' BY <1>1, <1>4 DEF InTurn
  <1>7. Told' BY <1>1, <1>4 DEF Told
  <1>8. AnsweredLast'
    <2> SUFFICES ASSUME NEW i \in 1..(n + 1)
                 PROVE  LET s == toServer'[i].request
                        IN  /\ requests[s] \in {"invoked", "over"} /\ (HasBody(s) => arrived[s])
                            /\ contexts'[s] = "none" /\ NothingOf(toLambda, s)
      BY <1>1, <1>3 DEF AnsweredLast, HasBody
    <2>1. CASE i = n + 1 BY <1>3, <1>4, <1>5, <2>1
    <2>2. CASE i \in 1..n BY <1>2, <1>3, <1>4, <2>2 DEF AnsweredLast, n
    <2>3. i = n + 1 \/ i \in 1..n BY <1>3
    <2> QED BY <2>1, <2>2, <2>3
  <1>9. Whole' BY <1>1, <1>4 DEF Whole, HasBody
  <1>10. Ordered' BY <1>1 DEF Ordered, HasBody
  <1>11. Sent' BY <1>1, <1>4 DEF Sent
  <1> QED BY <1>6, <1>7, <1>8, <1>9, <1>10, <1>11

(* An answer comes: whoever gets it has nothing left in the process.       *)
LEMMA ReceiveKeeps == ASSUME TypeOK, ProcessInv, Receive PROVE ProcessInv'
  <1> USE DEF ProcessInv
  <1> DEFINE n == Len(toServer)
             r == Head(toServer).request
  <1>1. /\ UNCHANGED <<body, arrived, contexts, wholes>> /\ toServer # <<>> /\ toServer' = Tail(toServer)
    BY DEF Receive, clientVars
  <1>2. /\ n \in Nat \ {0} /\ Len(toServer') = n - 1 /\ r = toServer[1].request
        /\ \A i \in 1..(n - 1) : toServer'[i] = toServer[i + 1]
    <2>1. toServer \in Seq(Answer) BY DEF TypeOK
    <2>2. /\ n \in Nat \ {0} /\ Len(toServer') = n - 1 /\ Head(toServer) = toServer[1]
          /\ \A i \in 1..(n - 1) : toServer'[i] = toServer[i + 1]
      BY <1>1, <2>1, QueueTaken
    <2> QED BY <2>2
  <1>3. \A i \in 1..n : toServer[i] \in Answer /\ toServer[i].request \in Requests
    BY ElementsTyped DEF n
  <1>4. 1 \in 1..n /\ r \in Requests /\ \A i \in 1..(n - 1) : i + 1 \in 1..n BY <1>2, <1>3
  <1>5. /\ contexts[r] = "none" /\ NothingOf(toLambda, r) /\ requests[r] \in {"invoked", "over"}
    BY <1>2, <1>4 DEF AnsweredLast
  <1>6. /\ toLambda' = toLambda /\ process' = process
        /\ requests' = requests \/ requests' = [requests EXCEPT ![r] = "over"]
    <2>1. \/ Settle(r, "response", Head(toServer).status)
          \/ UNCHANGED <<requests, holder, answers, toLambda, poolVars>>
      BY DEF Receive
    <2>2. Head(toServer).status \in Nat
      <3>1. Head(toServer) \in Answer
        <4>1. toServer \in Seq(Answer) BY DEF TypeOK
        <4> QED BY <1>1, <4>1, QueueTyped
      <3>2. 100..599 \subseteq Nat OBVIOUS
      <3> QED BY <3>1, <3>2 DEF Answer
    <2>3. "response" \in {"response", "tooLarge", "timeout", "abandoned"} OBVIOUS
    <2> HIDE DEF r
    <2>4. CASE Settle(r, "response", Head(toServer).status)
      <3>1. /\ requests' = [requests EXCEPT ![r] = "over"]
            /\ toLambda' = IF "response" \in {"tooLarge", "abandoned"} /\ process = "up"
                           THEN Append(toLambda, Abort(r)) ELSE toLambda
            /\ process' = IF "response" = "timeout" /\ process = "up" THEN "ending" ELSE process
        BY <1>4, <2>2, <2>3, <2>4, SettleFacts
      <3> QED BY <3>1
    <2>5. CASE UNCHANGED <<requests, holder, answers, toLambda, poolVars>>
      BY <2>5 DEF poolVars
    <2> QED BY <2>1, <2>4, <2>5
  <1> HIDE DEF n, r
  <1>7. /\ \A q \in Requests \ {r} : requests'[q] = requests[q]
        /\ \A q \in Requests : requests[q] \in {"invoked", "over"} => requests'[q] \in {"invoked", "over"}
        /\ \A q \in Requests : requests[q] = "over" => requests'[q] = "over"
        /\ \A q \in Requests : requests'[q] = "invoked" => requests[q] = "invoked"
    BY <1>4, <1>6 DEF TypeOK
  <1>8. \A i \in 1..Len(toLambda) : toLambda[i].request \in Requests \ {r}
    BY <1>5, ElementsTyped DEF NothingOf
  <1>9. InTurn' BY <1>1, <1>6 DEF InTurn
  <1>10. Told'
    <2> SUFFICES ASSUME process = "up", NEW q \in Requests, requests'[q] # "invoked"
                 PROVE  /\ contexts[q] # "none" => Aborted(toLambda, q, 1, Len(toLambda))
                        /\ \A i \in 1..Len(toLambda) :
                              toLambda[i].request = q => Aborted(toLambda, q, i, Len(toLambda))
      BY <1>1, <1>6 DEF Told
    <2>1. CASE q = r BY <1>5, <1>8, <2>1
    <2>2. CASE q # r
      <3>1. requests[q] # "invoked" BY <1>7, <2>2
      <3> QED BY <3>1 DEF Told
    <2> QED BY <2>1, <2>2
  <1>11. AnsweredLast'
    <2> SUFFICES ASSUME NEW i \in 1..(n - 1), NEW s \in Requests, s = toServer[i + 1].request
                 PROVE  /\ requests'[s] \in {"invoked", "over"} /\ (HasBody(s) => arrived[s])
                        /\ contexts[s] = "none" /\ NothingOf(toLambda, s)
      BY <1>1, <1>2, <1>3, <1>4, <1>6 DEF AnsweredLast, HasBody
    <2>1. i + 1 \in 1..n BY <1>4
    <2> QED BY <1>7, <2>1 DEF AnsweredLast, n
  <1>12. Whole' BY <1>1, <1>6, <1>7 DEF Whole, HasBody
  <1>13. Ordered' BY <1>1, <1>6, <1>7, <1>8 DEF Ordered, HasBody
  <1>14. Sent' BY <1>1, <1>6, <1>7 DEF Sent
  <1> QED BY <1>9, <1>10, <1>11, <1>12, <1>13, <1>14

LEMMA LoadKeeps == ASSUME TypeOK, Empty, Load PROVE ProcessInv'
  <1>1. /\ UNCHANGED <<requests, toLambda, toServer, contexts>>
        /\ process = "starting"
    BY DEF Load, serverVars, lambdaVars
  <1>2. /\ toLambda' = <<>> /\ toServer' = <<>>
        /\ \A r \in Requests : contexts'[r] = "none" /\ requests'[r] # "invoked"
    BY <1>1 DEF Empty, Works
  <1>3. Len(toLambda') = 0 /\ Len(toServer') = 0 BY <1>2
  <1>4. \A i \in 1..0 : FALSE OBVIOUS
  <1>5. InTurn' BY <1>2, <1>3, <1>4 DEF InTurn
  <1>6. Told' BY <1>2, <1>3, <1>4 DEF Told
  <1>7. AnsweredLast' BY <1>3, <1>4 DEF AnsweredLast
  <1>8. Whole' BY <1>2 DEF Whole
  <1>9. Ordered' BY <1>3, <1>4 DEF Ordered
  <1>10. Sent' BY <1>2 DEF Sent
  <1> QED BY <1>5, <1>6, <1>7, <1>8, <1>9, <1>10 DEF ProcessInv

(* a request that the server works for is settled                          *)
LEMMA SettleKeeps ==
    ASSUME TypeOK, Leased, Works, ProcessInv, NEW r \in Requests, NEW status \in Nat,
           NEW outcome \in {"tooLarge", "timeout", "abandoned"},
           Settle(r, outcome, status), requests[r] = "invoked",
           outcome # "timeout" => HasBody(r) /\ ~arrived[r],
           UNCHANGED <<body, arrived, contexts, toServer, wholes>>
    PROVE  ProcessInv'
  <1>1. outcome \in {"response", "tooLarge", "timeout", "abandoned"} OBVIOUS
  <1>2. /\ requests' = [requests EXCEPT ![r] = "over"]
        /\ toLambda' = IF outcome \in {"tooLarge", "abandoned"} /\ process = "up"
                       THEN Append(toLambda, Abort(r)) ELSE toLambda
        /\ process' = IF outcome = "timeout" /\ process = "up" THEN "ending" ELSE process
    BY <1>1, SettleFacts
  <1>3. process = "up"
    <2>1. holder = r /\ r # Nobody BY DEF Leased, TypeOK
    <2> QED BY <2>1 DEF Leased, Works
  <1>4. requests'[r] = "over" /\ \A q \in Requests \ {r} : requests'[q] = requests[q]
    BY <1>2 DEF TypeOK
  <1>5. CASE outcome = "timeout"
    <2>1. toLambda' = toLambda /\ process' = "ending" BY <1>2, <1>3, <1>5
    <2> QED BY <1>4, <2>1, ProcessStays
  <1>6. CASE outcome # "timeout"
    <2>1. toLambda' = Append(toLambda, Abort(r)) /\ process' = process BY <1>2, <1>3, <1>6
    <2>2. Abort(r) \in Message BY MessagesTyped
    <2>3. Abort(r).request = r /\ Abort(r).type = "REQUEST_ABORT" BY DEF Abort
    <2>4. \A q \in Requests \ {r} : requests[q] # "invoked" BY DEF Leased
    <2> DEFINE m == Abort(r)
    <2> HIDE DEF m
    <2>5. m \in Message /\ m.request = r /\ m.type = "REQUEST_ABORT" /\ toLambda' = Append(toLambda, m)
      BY <2>1, <2>2, <2>3 DEF m
    <2> QED BY <1>3, <1>4, <1>6, <2>1, <2>4, <2>5, SendKeeps
  <1> QED BY <1>5, <1>6

LEMMA ProcessKeeps ==
    ASSUME TypeOK, InLine, Leased, Empty, Works => ProcessInv, [Next]_vars, Works'
    PROVE  ProcessInv'
  <1>1. CASE UNCHANGED vars
    <2>1. Works /\ UNCHANGED <<requests, body, arrived, contexts, toLambda, toServer, wholes, process>>
      BY <1>1 DEF vars, Works, clientVars, poolVars, lambdaVars
    <2> QED BY <2>1, ProcessStays
  <1>2. ASSUME NEW r \in Requests, NotFound(r) \/ Handle(r) \/ Busy(r) PROVE ProcessInv'
    <2>1. /\ UNCHANGED <<body, arrived, contexts, toLambda, toServer, wholes, process>>
          /\ requests[r] \in {"idle", "waiting"}
          /\ requests' = [requests EXCEPT ![r] = "over"] \/ requests' = [requests EXCEPT ![r] = "waiting"]
      BY <1>2 DEF NotFound, Handle, Busy, At, clientVars, poolVars, lambdaVars
    <2>2. Works BY <2>1 DEF Works
    <2>3. /\ \A q \in Requests : requests[q] \in {"invoked", "over"} => requests'[q] = requests[q]
          /\ \A q \in Requests : requests'[q] = "invoked" <=> requests[q] = "invoked"
      BY <2>1 DEF TypeOK
    <2> QED BY <2>1, <2>2, <2>3, ProcessStays
  <1>3. ASSUME NEW r \in Requests, Invoke(r) PROVE ProcessInv'
    <2>1. /\ UNCHANGED <<body, arrived, contexts, toServer, wholes, process>>
          /\ requests[r] = "leased" /\ process = "up"
      BY <1>3 DEF Invoke, clientVars, poolVars
    <2>2. Works BY <2>1 DEF Works
    <2>3. CASE At(r, "over") /\ UNCHANGED toLambda
      <3>1. requests' = [requests EXCEPT ![r] = "over"] BY <2>3 DEF At
      <3>2. /\ \A q \in Requests : requests[q] \in {"invoked", "over"} => requests'[q] = requests[q]
            /\ \A q \in Requests : requests'[q] = "invoked" <=> requests[q] = "invoked"
        BY <2>1, <3>1 DEF TypeOK
      <3> QED BY <2>1, <2>2, <2>3, <3>2, ProcessStays
    <2>4. CASE /\ At(r, "invoked")
               /\ toLambda' = Append(toLambda, [type |-> "REQUEST", request |-> r])
      <3> DEFINE m == [type |-> "REQUEST", request |-> r]
      <3>1. m \in Message /\ m.request = r /\ m.type = "REQUEST" BY MessagesTyped
      <3>2. toLambda' = Append(toLambda, m) BY <2>4
      <3> HIDE DEF m
      <3>3. \A q \in Requests \ {r} : requests[q] # "invoked" BY <2>1 DEF Leased
      <3>4. requests'[r] = "invoked" /\ \A q \in Requests \ {r} : requests'[q] = requests[q]
        BY <2>4 DEF At, TypeOK
      <3> QED BY <2>1, <2>2, <3>1, <3>2, <3>3, <3>4, SendKeeps
    <2> QED BY <1>3, <2>3, <2>4 DEF Invoke
  <1>4. ASSUME NEW r \in Requests, BodyArrives(r) PROVE ProcessInv'
    <2>1. /\ UNCHANGED <<body, contexts, toServer, wholes>>
          /\ requests[r] = "invoked" /\ HasBody(r) /\ ~arrived[r]
      BY <1>4 DEF BodyArrives, clientVars
    <2>2. CASE Settle(r, "tooLarge", 413) /\ UNCHANGED arrived
      <3>1. 413 \in Nat /\ "tooLarge" \in {"tooLarge", "timeout", "abandoned"}
            /\ "tooLarge" \in {"response", "tooLarge", "timeout", "abandoned"}
        OBVIOUS
      <3>2. process' = IF "tooLarge" = "timeout" /\ process = "up" THEN "ending" ELSE process
        BY <2>2, <3>1, SettleFacts
      <3>3. Works BY <3>2 DEF Works
      <3> QED BY <2>1, <2>2, <3>1, <3>3, SettleKeeps
    <2>3. CASE /\ arrived' = [arrived EXCEPT ![r] = TRUE]
               /\ toLambda' = Append(toLambda, [type |-> "REQUEST_BODY", request |-> r])
               /\ UNCHANGED <<requests, holder, answers, poolVars>>
      <3> DEFINE m == [type |-> "REQUEST_BODY", request |-> r]
      <3>1. m \in Message /\ m.request = r /\ m.type = "REQUEST_BODY" BY MessagesTyped
      <3>2. toLambda' = Append(toLambda, m) BY <2>3
      <3> HIDE DEF m
      <3>3. UNCHANGED <<requests, process>> BY <2>3 DEF poolVars
      <3>4. holder = r /\ \A q \in Requests \ {r} : requests[q] # "invoked"
        BY <2>1 DEF Leased
      <3>5. Works /\ process = "up"
        <4>1. r # Nobody BY DEF TypeOK
        <4> QED BY <3>3, <3>4, <4>1 DEF Works, Leased
      <3>6. arrived'[r] /\ \A q \in Requests \ {r} : arrived'[q] = arrived[q] BY <2>3 DEF TypeOK
      <3> QED BY <2>1, <3>1, <3>2, <3>3, <3>4, <3>5, <3>6, SendKeeps
    <2> QED BY <1>4, <2>2, <2>3 DEF BodyArrives
  <1>5. ASSUME NEW r \in Requests, ClientLeaves(r) PROVE ProcessInv'
    <2>1. UNCHANGED <<body, arrived, contexts, toServer, wholes>> BY <1>5 DEF ClientLeaves
    <2>2. CASE requests[r] = "waiting" /\ At(r, "over") /\ UNCHANGED <<toLambda, poolVars>>
      <3>1. Works /\ process' = process BY <2>2 DEF Works, poolVars
      <3>2. /\ \A q \in Requests : requests[q] \in {"invoked", "over"} => requests'[q] = requests[q]
            /\ \A q \in Requests : requests'[q] = "invoked" <=> requests[q] = "invoked"
        BY <2>2 DEF At, TypeOK
      <3> QED BY <2>1, <2>2, <3>1, <3>2, ProcessStays
    <2>3. CASE requests[r] = "invoked" /\ HasBody(r) /\ ~arrived[r] /\ Settle(r, "abandoned", 0)
      <3>1. 0 \in Nat /\ "abandoned" \in {"tooLarge", "timeout", "abandoned"}
            /\ "abandoned" \in {"response", "tooLarge", "timeout", "abandoned"}
        OBVIOUS
      <3>2. process' = IF "abandoned" = "timeout" /\ process = "up" THEN "ending" ELSE process
        BY <2>3, <3>1, SettleFacts
      <3>3. Works BY <3>2 DEF Works
      <3> QED BY <2>1, <2>3, <3>1, <3>3, SettleKeeps
    <2>4. CASE UNCHANGED <<requests, toLambda, poolVars>>
      <3>1. Works /\ process' = process BY <2>4 DEF Works, poolVars
      <3> QED BY <2>1, <2>4, <3>1, ProcessStays
    <2> QED BY <1>5, <2>2, <2>3, <2>4 DEF ClientLeaves
  <1>6. ASSUME NEW r \in Requests, Timeout(r) PROVE ProcessInv'
    <2>1. /\ UNCHANGED <<body, arrived, contexts, toServer, wholes>>
          /\ requests[r] = "invoked" /\ Settle(r, "timeout", 504)
      BY <1>6 DEF Timeout, clientVars
    <2>2. 504 \in Nat /\ "timeout" \in {"tooLarge", "timeout", "abandoned"}
          /\ "timeout" \in {"response", "tooLarge", "timeout", "abandoned"}
      OBVIOUS
    <2>3. process' = IF "timeout" = "timeout" /\ process = "up" THEN "ending" ELSE process
      BY <2>1, <2>2, SettleFacts
    <2>4. Works BY <2>3 DEF Works
    <2> QED BY <2>1, <2>2, <2>4, SettleKeeps
  <1>7. ASSUME Receive PROVE ProcessInv'
    <2>1. Works \/ process \in {"starting", "exited"}
      BY <1>7 DEF Receive, Works, TypeOK
    <2>2. CASE Works BY <1>7, <2>2, ReceiveKeeps
    <2>3. CASE ~Works
      <3> DEFINE m == Head(toServer)
      <3>1. toServer # <<>> BY <1>7 DEF Receive
      <3>2. m.request \in Requests /\ m.status \in Nat
        <4>1. toServer \in Seq(Answer) BY DEF TypeOK
        <4>2. m \in Answer BY <3>1, <4>1, QueueTyped
        <4>3. 100..599 \subseteq Nat OBVIOUS
        <4> QED BY <4>2, <4>3 DEF Answer
      <3>3. Settle(m.request, "response", m.status) \/ process' = process
        BY <1>7 DEF Receive, poolVars
      <3> HIDE DEF m
      <3>4. "response" \in {"response", "tooLarge", "timeout", "abandoned"} OBVIOUS
      <3>5. process' = process \/ process = "up" BY <3>2, <3>3, <3>4, SettleFacts
      <3> QED BY <2>3, <3>5 DEF Works
    <2> QED BY <2>2, <2>3
  <1>8. ASSUME Acquire PROVE ProcessInv'
    <2>1. process = "up" BY <1>8 DEF Acquire, Works
    <2>2. /\ UNCHANGED <<body, arrived, contexts, toLambda, toServer, wholes, process>>
          /\ requests' = [requests EXCEPT ![Head(line)] = "leased"] /\ holder = Nobody
      BY <1>8, <2>1 DEF Acquire, At, clientVars, poolVars, lambdaVars
    <2>3. /\ \A q \in Requests : requests[q] \in {"invoked", "over"} => requests'[q] \in {"invoked", "over"}
          /\ \A q \in Requests : requests[q] = "over" => requests'[q] = "over"
          /\ \A q \in Requests : requests'[q] = "invoked" <=> requests[q] = "invoked"
      <3>1. Head(line) \in Requests /\ requests[Head(line)] = "waiting"
        <4>1. line \in Seq(Requests) /\ line # <<>> BY <1>8 DEF TypeOK, Acquire
        <4>2. Head(line) = line[1] /\ 1 \in 1..Len(line) /\ Head(line) \in Requests
          BY <4>1, QueueTaken
        <4> QED BY <4>2 DEF InLine
      <3> QED BY <2>2, <3>1 DEF TypeOK
    <2>4. Works BY <2>1 DEF Works
    <2> QED BY <2>2, <2>3, <2>4, ProcessStays
  <1>9. ASSUME Gone \/ LoadFails \/ Exit PROVE ProcessInv'
    BY <1>9 DEF Gone, LoadFails, Exit, Works
  <1>10. ASSUME Stop \/ Close PROVE ProcessInv'
    <2>1. /\ UNCHANGED <<requests, body, arrived, contexts, toLambda, toServer, wholes>>
          /\ process' = "ending" \/ process' = process
          /\ process = "up" \/ process' = process
      BY <1>10 DEF Stop, Close, clientVars, lambdaVars, poolVars
    <2>2. Works /\ (process' = "up" => process = "up") BY <2>1 DEF Works
    <2> QED BY <2>1, <2>2, ProcessStays
  <1>11. CASE Load BY <1>11, LoadKeeps
  <1>12. CASE Take
    <2>1. Works BY <1>12 DEF Take, Works
    <2> QED BY <1>12, <2>1, TakeKeeps
  <1>13. ASSUME NEW r \in Requests, Run(r) PROVE ProcessInv'
    <2>1. Works BY <1>13 DEF Run, Works
    <2> QED BY <1>13, <2>1, RunKeeps
  <1>14. ASSUME NEW r \in Requests, NEW result \in Results, Settles(r, result) PROVE ProcessInv'
    <2>1. Works BY <1>14 DEF Settles, Works
    <2> QED BY <1>14, <2>1, SettlesKeeps
  <1> QED
    BY <1>1, <1>2, <1>3, <1>4, <1>5, <1>6, <1>7, <1>8, <1>9, <1>10, <1>11, <1>12, <1>13, <1>14 DEF Next

-----------------------------------------------------------------------------
LEMMA Keeps == IInv /\ [Next]_vars => IInv'
  <1> SUFFICES ASSUME IInv, [Next]_vars PROVE IInv' OBVIOUS
  <1> USE DEF IInv
  <1>1. TypeOK' BY TypeKeeps
  <1>2. Served' BY ServedKeeps DEF Served
  <1>3. Empty' BY EmptyKeeps
  <1>4. Works' => ProcessInv' BY ProcessKeeps
  <1> QED BY <1>1, <1>2, <1>3, <1>4 DEF Served

LEMMA RunsAlone == IInv => HandlerRunsAlone
  <1> SUFFICES ASSUME IInv PROVE HandlerRunsAlone OBVIOUS
  <1> USE DEF IInv
  <1>1. ASSUME NEW r \in Requests, contexts[r] # "none"
        PROVE  Works /\ InTurn /\ Told /\ Whole /\ Ordered /\ Sent
    BY <1>1 DEF Empty, ProcessInv
  (* a handler that runs holds the process, or that is ending              *)
  <1>2. ASSUME NEW r \in Requests, contexts[r] = "running"
        PROVE  /\ r \in wholes /\ \A q \in Requests \ {r} : contexts[q] = "none"
               /\ holder = r \/ process = "ending"
    <2>1. Works /\ InTurn /\ Told /\ Whole BY <1>1, <1>2
    <2>2. r \in wholes /\ NothingOf(toLambda, r) BY <1>2, <2>1 DEF Whole
    <2>3. \A q \in Requests \ {r} : contexts[q] = "none" BY <1>2, <2>1 DEF InTurn
    <2>4. CASE process = "up"
      <3>1. ASSUME requests[r] # "invoked" PROVE FALSE
        <4>1. Aborted(toLambda, r, 1, Len(toLambda)) BY <1>2, <2>1, <2>4, <3>1 DEF Told
        <4> QED BY <2>2, <4>1 DEF Aborted, NothingOf, Abort
      <3> QED BY <2>2, <2>3, <3>1 DEF Leased
    <2> QED BY <2>1, <2>2, <2>3, <2>4 DEF Works
  (* what the process still works on is aborted in front of the next       *)
  <1>3. ASSUME NEW r \in Requests, requests[r] = "invoked", process = "up",
               NEW q \in Requests \ {r}, contexts[q] # "none"
        PROVE  \E i, j \in 1..Len(toLambda) :
                  /\ i < j /\ toLambda[i] = [type |-> "REQUEST_ABORT", request |-> q]
                  /\ toLambda[j] = [type |-> "REQUEST", request |-> r]
    <2>1. InTurn /\ Sent BY <1>1, <1>3
    <2>2. PICK j \in 1..Len(toLambda) : toLambda[j] = [type |-> "REQUEST", request |-> r]
      BY <1>3, <2>1 DEF Sent
    <2>3. toLambda[j].request # q BY <2>2
    <2>4. Aborted(toLambda, q, 1, j - 1) BY <1>3, <2>1, <2>3 DEF InTurn
    <2>5. PICK i \in 1..(j - 1) : toLambda[i] = [type |-> "REQUEST_ABORT", request |-> q]
      BY <2>4 DEF Aborted, Abort
    <2>6. i \in 1..Len(toLambda) /\ i < j
      <3>1. Len(toLambda) \in Nat BY DEF TypeOK
      <3> QED BY <3>1
    <2> QED BY <2>2, <2>5, <2>6
  <1>4. Answered OBVIOUS
  <1> QED BY <1>2, <1>3, <1>4 DEF HandlerRunsAlone, Answered

(* HandlerRunsAlone for any number of requests, whatever their bodies and  *)
(* whatever the handlers come to: the handler of a request runs with its   *)
(* whole body and with nothing else in its process, a process that is      *)
(* handed on stops what it still does first, and every request gets at     *)
(* most one answer (invoke-lambda.ts, create-lambda-worker.ts).            *)
THEOREM HandlersRunAlone == Nobody \notin Requests /\ Spec => []HandlerRunsAlone
  <1>1. Nobody \notin Requests /\ Init => IInv BY Initially
  <1>2. IInv /\ [Next]_vars => IInv' BY Keeps
  <1>3. IInv => HandlerRunsAlone BY RunsAlone
  <1> QED BY <1>1, <1>2, <1>3, PTL DEF Spec
=============================================================================
