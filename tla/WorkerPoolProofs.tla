-------------------------- MODULE WorkerPoolProofs --------------------------
(* What holds of the worker pools for any number of pools, files, requests *)
(* and processes, and any limits.                                          *)
EXTENDS WorkerPool, QueueProofs

(* A slot without a process is not listed and not marked for a stop, so    *)
(* the process that is started in it begins afresh.                        *)
SlotsAreClean ==
    \A w \in Workers : proc[w] = "none" => w \notin listed /\ w \notin stopping

(* The inductive invariant behind the safety theorems.                     *)
Safe ==
    /\ TypeOK
    /\ LeasedStayListed
    /\ SlotsAreClean
    /\ StopSparesRequests

-----------------------------------------------------------------------------
(* Types, first of what a pool knows of its workers                        *)

WorkersTyped ==
    /\ proc \in [Workers -> {"none", "up"} \cup Ended]
    /\ workerPath \in [Workers -> Paths]
    /\ leases \in [Workers -> SUBSET Requests]
    /\ listed \subseteq Workers
    /\ stopping \subseteq Workers
    /\ killed \subseteq Workers
    /\ retired \subseteq Workers
    /\ ready \subseteq Workers
    /\ stable \subseteq Workers

RestTyped ==
    /\ failures \in [Paths -> 0..CrashesToHold]
    /\ held \subseteq Paths
    /\ queue \in [Pools -> Seq(Requests)]
    /\ lost \subseteq Requests
    /\ minimums \in [Pools -> Seq(Paths)]
    /\ refillTimers \subseteq Paths
    /\ closed \subseteq Pools
    /\ disposing \subseteq Pools
    /\ members \subseteq Pools
    /\ turn \in Pools
    /\ offering \in Seq(Requests)
    /\ waking \subseteq Pools
    /\ after \subseteq {"stopIdle", "checkDisposed"}
    /\ warming \subseteq Paths
    /\ refilling \in Seq(Paths)

LEMMA TypedParts == TypeOK <=> WorkersTyped /\ RestTyped
BY DEF TypeOK, WorkersTyped, RestTyped

LEMMA PoolsOfThings ==
    /\ \A r \in Requests : PathOf[r] \in Paths /\ PoolOfRequest(r) \in Pools
    /\ \A x \in Paths : PoolOf[x] \in Pools
    /\ WorkersTyped => \A w \in Workers : workerPath[w] \in Paths /\ PoolOfWorker(w) \in Pools
BY SetsAssumption DEF PoolOfRequest, PoolOfWorker, WorkersTyped

LEMMA CreateWorkerTyped ==
    ASSUME WorkersTyped, NEW w \in Workers, NEW x \in Paths, NEW L \in SUBSET Workers,
           NEW holders \in SUBSET Requests, CreateWorker(w, x, L, holders),
           stopping' \subseteq Workers
    PROVE  WorkersTyped'
BY DEF WorkersTyped, CreateWorker

(* The request gets no worker: there is none, or it could not be started.  *)
GetsNone(r) == GetNothing(r) \/ SpawnFails(r)

(* Who gives room is listed, and nobody holds it.                          *)
LEMMA VictimsAreIdle ==
    \A p \in Pools : \A v \in Victims(p) : v \in listed /\ IsIdle(v)
BY DEF Victims, IdleWorkers

LEMMA LeastLoadedTakesRequests ==
    \A x \in Paths : \A w \in LeastLoaded(x) :
        w \in listed /\ workerPath[w] = x /\ proc[w] \in {"up", "signalled"} /\ w \notin stopping
BY DEF LeastLoaded, Open, Available, ForPath

LEMMA GetWorkerTyped ==
    ASSUME WorkersTyped, NEW r \in Requests, GetWorker(r)
    PROVE  WorkersTyped'
<1>1. PathOf[r] \in Paths /\ PoolOf[PathOf[r]] \in Pools
    BY PoolsOfThings
<1>2. CASE TakeListed(r)
    BY <1>1, <1>2, LeastLoadedTakesRequests DEF TakeListed, WorkersTyped
<1>3. CASE TakeNew(r)
  <2>1. PICK w \in Workers : CreateWorker(w, PathOf[r], listed, {r})
      BY <1>3 DEF TakeNew
  <2>2. listed \subseteq Workers /\ stopping' \subseteq Workers
      BY <1>3 DEF TakeNew, WorkersTyped
  <2> QED
      BY <1>1, <2>1, <2>2, CreateWorkerTyped
<1>4. CASE TakeRoom(r)
  <2>1. PICK v \in Victims(PoolOf[PathOf[r]]), w \in Workers :
            CreateWorker(w, PathOf[r], listed \ {v}, {r}) /\ stopping' = stopping \cup {v}
      BY <1>4 DEF TakeRoom
  <2>2. listed \ {v} \subseteq Workers /\ stopping' \subseteq Workers
      BY <1>1, <2>1, VictimsAreIdle DEF WorkersTyped
  <2> QED
      BY <1>1, <2>1, <2>2, CreateWorkerTyped
<1> QED
    BY <1>2, <1>3, <1>4 DEF GetWorker

LEMMA GetsNoneTyped ==
    ASSUME WorkersTyped, NEW r \in Requests, GetsNone(r)
    PROVE  WorkersTyped'
<1>1. PoolOf[PathOf[r]] \in Pools
    BY PoolsOfThings
<1> QED
    BY <1>1, VictimsAreIdle DEF GetsNone, GetNothing, SpawnFails, WorkersTyped, workerVars

-----------------------------------------------------------------------------
(* The lines, and the rest of the turn                                     *)

LEMMA LineTyped ==
    ASSUME queue \in [Pools -> Seq(Requests)], NEW p \in Pools
    PROVE  /\ \A r \in Requests : [queue EXCEPT ![p] = Append(@, r)] \in [Pools -> Seq(Requests)]
           /\ \A i \in DOMAIN queue[p] : [queue EXCEPT ![p] = RemoveAt(@, i)] \in [Pools -> Seq(Requests)]
           /\ [queue EXCEPT ![p] = <<>>] \in [Pools -> Seq(Requests)]
<1>1. queue[p] \in Seq(Requests)
    OBVIOUS
<1>2. \A r \in Requests : Append(queue[p], r) \in Seq(Requests)
    BY <1>1
<1>3. ASSUME NEW i \in DOMAIN queue[p] PROVE RemoveAt(queue[p], i) \in Seq(Requests)
  <2>1. i \in 1..Len(queue[p])
      BY <1>1, <1>3
  <2>2. SubSeq(queue[p], 1, i - 1) \in Seq(Requests) /\ SubSeq(queue[p], i + 1, Len(queue[p])) \in Seq(Requests)
      BY <1>1, <2>1
  <2> QED
      BY <2>2 DEF RemoveAt
<1> QED
    BY <1>1, <1>2, <1>3

LEMMA HandlersTyped ==
    ASSUME RestTyped, NEW p \in Pools
    PROVE  /\ NothingLeft => /\ turn' \in Pools /\ offering' \in Seq(Requests) /\ waking' \subseteq Pools
                             /\ after' \subseteq {"stopIdle", "checkDisposed"}
                             /\ warming' \subseteq Paths /\ refilling' \in Seq(Paths)
           /\ WakeWaiting(p) \/ WakeUp(p) => turn' \in Pools /\ waking' \subseteq Pools
BY DEF RestTyped, NothingLeft, turnVars, WakeWaiting, WakeUp

LEMMA RequestStepsTyped ==
    ASSUME TypeOK, NEW r \in Requests,
           Acquire(r) \/ LeaveLine(r) \/ ReleaseLost(r)
    PROVE  TypeOK'
<1>0. WorkersTyped /\ RestTyped /\ PathOf[r] \in Paths /\ PoolOfRequest(r) \in Pools
    BY TypedParts, PoolsOfThings
<1>1. CASE Acquire(r)
  <2>1. WorkersTyped'
      BY <1>0, <1>1, GetWorkerTyped, GetsNoneTyped DEF Acquire, GetsNone, WorkersTyped, workerVars
  <2>2. queue' = queue \/ queue' = [queue EXCEPT ![PoolOfRequest(r)] = Append(@, r)]
      BY <1>1 DEF Acquire
  <2>3. queue' \in [Pools -> Seq(Requests)]
    <3>1. \A q \in Pools : [queue EXCEPT ![q] = Append(@, r)] \in [Pools -> Seq(Requests)]
        BY <1>0, LineTyped DEF RestTyped
    <3> QED
        BY <1>0, <2>2, <3>1 DEF RestTyped
  <2>4. RestTyped'
      BY <1>0, <1>1, <2>3, HandlersTyped DEF Acquire, RestTyped, backoffVars, lifeVars
  <2> QED
      BY <2>1, <2>4 DEF TypeOK, WorkersTyped, RestTyped
<1>2. CASE LeaveLine(r)
  <2>1. queue' \in [Pools -> Seq(Requests)]
      BY <1>0, <1>2, LineTyped DEF LeaveLine, RestTyped
  <2>2. WorkersTyped' /\ RestTyped'
      BY <1>0, <1>2, <2>1, HandlersTyped
      DEF LeaveLine, RestTyped, WorkersTyped, workerVars, backoffVars, lifeVars
  <2> QED
      BY <2>2 DEF TypeOK, WorkersTyped, RestTyped
<1>3. CASE ReleaseLost(r)
  <2>1. WorkersTyped' /\ RestTyped'
      BY <1>0, <1>3, HandlersTyped
      DEF ReleaseLost, AfterRelease, RestTyped, WorkersTyped, workerVars, backoffVars, lifeVars
  <2> QED
      BY <2>1 DEF TypeOK, WorkersTyped, RestTyped
<1> QED
    BY <1>1, <1>2, <1>3

LEMMA LeaseStepsTyped ==
    ASSUME TypeOK, NEW r \in Requests, NEW w \in Workers, Release(r, w) \/ Kill(r, w)
    PROVE  TypeOK'
<1>0. WorkersTyped /\ RestTyped /\ PoolOfWorker(w) \in Pools
    BY TypedParts, PoolsOfThings
<1>1. CASE Release(r, w)
  <2>1. WorkersTyped' /\ RestTyped'
      BY <1>0, <1>1, HandlersTyped
      DEF Release, AfterRelease, RestTyped, WorkersTyped, lineVars, backoffVars, lifeVars
  <2> QED
      BY <2>1 DEF TypeOK, WorkersTyped, RestTyped
<1>2. CASE Kill(r, w)
  <2>1. WorkersTyped' /\ RestTyped'
      BY <1>0, <1>2, HandlersTyped
      DEF Kill, RestTyped, WorkersTyped, lineVars, backoffVars, lifeVars
  <2> QED
      BY <2>1 DEF TypeOK, WorkersTyped, RestTyped
<1> QED
    BY <1>1, <1>2

LEMMA TimerStepsTyped ==
    ASSUME TypeOK, NEW w \in Workers,
           \/ Ready(w) \/ StartTimeout(w) \/ KillAfter(w) \/ AgeTimeout(w) \/ IdleTimeout(w)
    PROVE  TypeOK'
<1>0. WorkersTyped /\ RestTyped /\ PoolOfWorker(w) \in Pools
    BY TypedParts, PoolsOfThings
<1> USE DEF RestTyped, WorkersTyped, lineVars, backoffVars, lifeVars
<1>1. CASE Ready(w)
    BY <1>0, <1>1, HandlersTyped, TypedParts DEF Ready, TypeOK
<1>2. CASE StartTimeout(w)
    BY <1>0, <1>2, HandlersTyped DEF StartTimeout, TypeOK
<1>3. CASE KillAfter(w)
    BY <1>0, <1>3, HandlersTyped DEF KillAfter, TypeOK
<1>4. CASE AgeTimeout(w)
    BY <1>0, <1>4, HandlersTyped DEF AgeTimeout, TypeOK
<1>5. CASE IdleTimeout(w)
    BY <1>0, <1>5, HandlersTyped DEF IdleTimeout, TypeOK
<1> QED
    BY <1>1, <1>2, <1>3, <1>4, <1>5

LEMMA UptimeAndExitTyped ==
    ASSUME TypeOK, NEW w \in Workers, UptimeStable(w) \/ Exit(w)
    PROVE  TypeOK'
<1>0. WorkersTyped /\ RestTyped /\ workerPath[w] \in Paths
    BY TypedParts, PoolsOfThings
<1> USE DEF RestTyped, WorkersTyped, lineVars, backoffVars, lifeVars
<1>1. CASE UptimeStable(w)
    BY <1>0, <1>1, HandlersTyped DEF UptimeStable, CrashesToHold, TypeOK
<1>2. CASE Exit(w)
    BY <1>0, <1>2, HandlersTyped, EventsAssumption DEF Exit, TypeOK
<1> QED
    BY <1>1, <1>2

LEMMA RecordFailureTyped ==
    ASSUME failures \in [Paths -> 0..CrashesToHold], held \subseteq Paths,
           NEW x \in Paths, RecordFailure(x)
    PROVE  failures' \in [Paths -> 0..CrashesToHold] /\ held' \subseteq Paths
BY DEF RecordFailure, CrashesToHold

LEMMA CloseTyped ==
    ASSUME TypeOK, NEW w \in Workers, Close(w)
    PROVE  TypeOK'
<1>0. /\ WorkersTyped /\ RestTyped /\ workerPath[w] \in Paths /\ PoolOfWorker(w) \in Pools
      /\ AnyPath \in Paths
    BY TypedParts, PoolsOfThings, SetsAssumption DEF AnyPath
<1>1. failures' \in [Paths -> 0..CrashesToHold] /\ held' \subseteq Paths
    BY <1>0, RecordFailureTyped DEF Close, RestTyped, backoffVars
<1>2. WorkersTyped'
    BY <1>0 DEF Close, WorkersTyped
<1>3. refilling' \in Seq(Paths) /\ lost' \subseteq Requests
    BY <1>0 DEF Close, RestTyped, WorkersTyped
<1>4. turn' \in Pools /\ waking' \subseteq Pools /\ after' \subseteq {"stopIdle", "checkDisposed"}
    BY <1>0, HandlersTyped DEF Close, AfterClose
<1>5. RestTyped'
    BY <1>0, <1>1, <1>3, <1>4 DEF Close, RestTyped, lifeVars
<1> QED
    BY <1>2, <1>5 DEF TypeOK, WorkersTyped, RestTyped

LEMMA OwnerStepsTyped ==
    ASSUME TypeOK, NEW x \in Paths, NEW p \in Pools,
           \/ BackoffOver(x) \/ Warm(x) \/ KeepWarm(x) \/ RefillTimer(x)
           \/ Dispose(p) \/ DisposeTimeout(p)
    PROVE  TypeOK'
<1>0. WorkersTyped /\ RestTyped /\ PoolOf[x] \in Pools
    BY TypedParts, PoolsOfThings
<1>1. [minimums EXCEPT ![p] = <<>>] \in [Pools -> Seq(Paths)]
    BY <1>0 DEF RestTyped
<1>2. [minimums EXCEPT ![PoolOf[x]] = Append(@, x)] \in [Pools -> Seq(Paths)] /\ <<x>> \in Seq(Paths)
  <2>1. minimums[PoolOf[x]] \in Seq(Paths)
      BY <1>0 DEF RestTyped
  <2>2. Append(minimums[PoolOf[x]], x) \in Seq(Paths)
      BY <2>1
  <2> QED
      BY <1>0, <2>2 DEF RestTyped
<1> USE DEF RestTyped, WorkersTyped, workerVars, lineVars, backoffVars, lifeVars
<1>3. CASE BackoffOver(x)
    BY <1>0, <1>3, HandlersTyped DEF BackoffOver, TypeOK
<1>4. CASE Warm(x)
    BY <1>0, <1>4 DEF Warm, TypeOK
<1>5. CASE KeepWarm(x)
    BY <1>0, <1>2, <1>5 DEF KeepWarm, TypeOK
<1>6. CASE RefillTimer(x)
    BY <1>0, <1>2, <1>6 DEF RefillTimer, TypeOK
<1>7. CASE Dispose(p)
    BY <1>0, <1>1, <1>7, HandlersTyped DEF Dispose, StopKeepingWarm, ListedIn, TypeOK
<1>8. CASE DisposeTimeout(p)
    BY <1>0, <1>1, <1>8, HandlersTyped DEF DisposeTimeout, StopKeepingWarm, ListedIn, TypeOK
<1> QED
    BY <1>3, <1>4, <1>5, <1>6, <1>7, <1>8

LEMMA WakeLineTyped ==
    ASSUME TypeOK, NEW p \in Pools, WakeLine(p)
    PROVE  TypeOK'
<1>0. WorkersTyped /\ RestTyped
    BY TypedParts
<1>1. queue' \in [Pools -> Seq(Requests)]
  <2>1. [queue EXCEPT ![p] = <<>>] \in [Pools -> Seq(Requests)]
      BY <1>0, LineTyped DEF RestTyped
  <2> QED
      BY <2>1 DEF WakeLine
<1>2. offering' \in Seq(Requests)
    BY <1>0 DEF WakeLine, RestTyped
<1> QED
    BY <1>0, <1>1, <1>2
    DEF WakeLine, TypeOK, RestTyped, WorkersTyped, workerVars, backoffVars, lifeVars

LEMMA OfferTyped ==
    ASSUME TypeOK, Offer
    PROVE  TypeOK'
<1> DEFINE r == Head(offering)
<1>0. WorkersTyped /\ RestTyped
    BY TypedParts
<1>1. r \in Requests /\ Tail(offering) \in Seq(Requests)
    BY <1>0 DEF Offer, RestTyped
<1>2. PoolOfRequest(r) \in Pools
    BY <1>1, PoolsOfThings
<1> HIDE DEF r
<1>3. WorkersTyped'
  <2>1. GetWorker(r) \/ GetsNone(r) \/ UNCHANGED workerVars
      BY DEF Offer, GetsNone, r
  <2> QED
      BY <1>0, <1>1, <2>1, GetWorkerTyped, GetsNoneTyped DEF WorkersTyped, workerVars
<1>4. queue' \in [Pools -> Seq(Requests)]
  <2>1. \A q \in Pools : [queue EXCEPT ![q] = Append(@, r)] \in [Pools -> Seq(Requests)]
      BY <1>0, <1>1, LineTyped DEF RestTyped
  <2>2. queue' = queue \/ queue' = [queue EXCEPT ![PoolOfRequest(r)] = Append(@, r)]
      BY DEF Offer, r
  <2> QED
      BY <1>0, <1>2, <2>1, <2>2 DEF RestTyped
<1>5. RestTyped'
    BY <1>0, <1>1, <1>4 DEF Offer, RestTyped, backoffVars, lifeVars
<1> QED
    BY <1>3, <1>5 DEF TypeOK, WorkersTyped, RestTyped

LEMMA EndOfTurnTyped ==
    ASSUME TypeOK, NEW x \in Paths,
           StopIdle \/ CheckDisposed \/ WarmFails(x) \/ WarmDone(x) \/ Refill
    PROVE  TypeOK'
<1>0. WorkersTyped /\ RestTyped /\ PoolOf[x] \in Pools
    BY TypedParts, PoolsOfThings
<1> USE DEF RestTyped, WorkersTyped, workerVars, lineVars, backoffVars, lifeVars
<1>1. CASE StopIdle
    BY <1>0, <1>1 DEF StopIdle, ListedIn, TypeOK
<1>2. CASE CheckDisposed
    BY <1>0, <1>2 DEF CheckDisposed, TypeOK
<1>3. CASE WarmFails(x) \/ WarmDone(x)
  <2>1. CASE WarmFails(x)
    <3>1. <<>> \in Seq(Paths) /\ {} \subseteq Paths
        OBVIOUS
    <3> QED
        BY <1>0, <2>1, <3>1 DEF WarmFails, TypeOK
  <2>2. CASE WarmDone(x)
      BY <1>0, <2>2, HandlersTyped DEF WarmDone, TypeOK
  <2> QED
      BY <1>3, <2>1, <2>2
<1>4. CASE Refill
  <2>1. Head(refilling) \in Paths /\ Tail(refilling) \in Seq(Paths)
      BY <1>0, <1>4 DEF Refill
  <2>2. warming' \subseteq Paths /\ refillTimers' \subseteq Paths /\ refilling' \in Seq(Paths)
      BY <1>0, <1>4, <2>1 DEF Refill
  <2>3. UNCHANGED <<turn, offering, waking, after, lost, queue, closed, disposing, members, minimums>>
      BY <1>4 DEF Refill
  <2>4. UNCHANGED <<workerVars, failures, held>>
      BY <1>4 DEF Refill
  <2> QED
      BY <1>0, <2>2, <2>3, <2>4 DEF TypeOK
<1> QED
    BY <1>1, <1>2, <1>3, <1>4

LEMMA WarmStartTyped ==
    ASSUME TypeOK, NEW x \in Paths, WarmStart(x)
    PROVE  TypeOK'
<1>0. WorkersTyped /\ RestTyped
    BY TypedParts
<1>1. PICK w \in Workers : CreateWorker(w, x, listed, {})
    BY DEF WarmStart
<1>2. listed \subseteq Workers /\ stopping' \subseteq Workers
    BY <1>0 DEF WarmStart, WorkersTyped
<1>3. WorkersTyped'
    BY <1>0, <1>1, <1>2, CreateWorkerTyped
<1>4. RestTyped'
    BY <1>0 DEF WarmStart, RestTyped, turnVars, lineVars, backoffVars, lifeVars
<1> QED
    BY <1>3, <1>4 DEF TypeOK, WorkersTyped, RestTyped

LEMMA TypeStep == TypeOK /\ [Next]_vars => TypeOK'
<1> SUFFICES ASSUME TypeOK, [Next]_vars PROVE TypeOK'
    OBVIOUS
<1>1. CASE UNCHANGED vars
    BY <1>1 DEF TypeOK, vars, workerVars, backoffVars, lineVars, lifeVars, turnVars
<1>2. CASE Next
  <2>1. CASE \E r \in Requests : Acquire(r) \/ LeaveLine(r) \/ ReleaseLost(r)
      BY <2>1, RequestStepsTyped
  <2>2. CASE \E r \in Requests, w \in Workers : Release(r, w) \/ Kill(r, w)
      BY <2>2, LeaseStepsTyped
  <2>3. CASE \E w \in Workers : Ready(w) \/ StartTimeout(w) \/ KillAfter(w) \/ AgeTimeout(w)
      BY <2>3, TimerStepsTyped
  <2>4. CASE \E w \in Workers : IdleTimeout(w) \/ UptimeStable(w) \/ Exit(w) \/ Close(w)
      BY <2>4, TimerStepsTyped, UptimeAndExitTyped, CloseTyped
  <2>5. CASE \E x \in Paths : BackoffOver(x) \/ Warm(x) \/ KeepWarm(x) \/ RefillTimer(x)
      BY <2>5, OwnerStepsTyped, SetsAssumption
  <2>6. CASE \E p \in Pools : Dispose(p) \/ DisposeTimeout(p)
      BY <2>6, OwnerStepsTyped, SetsAssumption
  <2>7. CASE RestOfTurn
      BY <2>7, WakeLineTyped, OfferTyped, EndOfTurnTyped, WarmStartTyped, SetsAssumption DEF RestOfTurn
  <2> QED
      BY <1>2, <2>1, <2>2, <2>3, <2>4, <2>5, <2>6, <2>7 DEF Next
<1> QED
    BY <1>1, <1>2

LEMMA InitTyped == Init => TypeOK
<1>1. AnyPath \in Paths
    BY SetsAssumption DEF AnyPath
<1> QED
    BY <1>1 DEF Init, TypeOK, CrashesToHold

(* Every variable keeps to its set of values (the shapes the handlers rely *)
(* on: a line holds requests, a slot a known state of its process).        *)
THEOREM TypeCorrect == Spec => []TypeOK
<1> QED
    BY InitTyped, TypeStep, PTL DEF Spec

-----------------------------------------------------------------------------
(* No request loses its worker                                             *)

(* A worker is created for those who are to hold it, in a clean slot; the  *)
(* others keep their requests when the ones that left the list had none.   *)
LEMMA CreateWorkerSafe ==
    ASSUME Safe, NEW w \in Workers, NEW x \in Paths, NEW L \in SUBSET listed,
           NEW holders \in SUBSET Requests, CreateWorker(w, x, L, holders),
           \A v \in listed \ L : IsIdle(v), stopping' = stopping \cup (listed \ L), closed' = closed
    PROVE  LeasedStayListed' /\ SlotsAreClean' /\ StopSparesRequests'
<1>1. /\ proc[w] = "none" /\ proc' = [proc EXCEPT ![w] = "up"]
      /\ workerPath' = [workerPath EXCEPT ![w] = x]
      /\ leases' = [leases EXCEPT ![w] = holders]
      /\ listed' = L \cup {w} /\ killed' = killed
    BY DEF CreateWorker
<1>2. TypeOK /\ w \notin listed /\ w \notin stopping
    BY <1>1 DEF Safe, SlotsAreClean
<1>3. \A u \in Workers \ {w} : /\ proc'[u] = proc[u] /\ leases'[u] = leases[u]
                               /\ workerPath'[u] = workerPath[u]
    BY <1>1, <1>2 DEF TypeOK
<1>4. proc'[w] = "up"
    BY <1>1, <1>2 DEF TypeOK
<1>5. LeasedStayListed'
    BY <1>1, <1>2, <1>3, <1>4 DEF Safe, LeasedStayListed, IsIdle
<1>6. SlotsAreClean'
    BY <1>1, <1>2, <1>3, <1>4 DEF Safe, SlotsAreClean
<1>7. StopSparesRequests'
    BY <1>1, <1>2, <1>3 DEF Safe, StopSparesRequests, IsIdle, PoolOfWorker, TypeOK
<1> QED
    BY <1>5, <1>6, <1>7

LEMMA GetWorkerSafe ==
    ASSUME Safe, NEW r \in Requests, GetWorker(r), closed' = closed
    PROVE  LeasedStayListed' /\ SlotsAreClean' /\ StopSparesRequests'
<1>0. TypeOK /\ PathOf[r] \in Paths /\ PoolOf[PathOf[r]] \in Pools
    BY PoolsOfThings DEF Safe
<1>1. CASE TakeListed(r)
  <2>1. PICK w \in LeastLoaded(PathOf[r]) : leases' = [leases EXCEPT ![w] = @ \cup {r}]
      BY <1>1 DEF TakeListed
  <2>2. w \in listed /\ proc[w] # "none" /\ w \notin stopping
      BY <1>0, LeastLoadedTakesRequests
  <2>3. UNCHANGED <<proc, workerPath, listed, stopping, killed>>
      BY <1>1 DEF TakeListed
  <2> QED
      BY <1>0, <2>1, <2>2, <2>3
      DEF Safe, TypeOK, LeasedStayListed, SlotsAreClean, StopSparesRequests, IsIdle, PoolOfWorker
<1>2. CASE TakeNew(r)
  <2>1. PICK w \in Workers : CreateWorker(w, PathOf[r], listed, {r})
      BY <1>2 DEF TakeNew
  <2>2. stopping' = stopping \cup (listed \ listed)
      BY <1>2 DEF TakeNew
  <2> QED
      BY <1>0, <2>1, <2>2, CreateWorkerSafe
<1>3. CASE TakeRoom(r)
  <2>1. PICK v \in Victims(PoolOf[PathOf[r]]), w \in Workers :
            CreateWorker(w, PathOf[r], listed \ {v}, {r}) /\ stopping' = stopping \cup {v}
      BY <1>3 DEF TakeRoom
  <2>2. v \in listed /\ IsIdle(v)
      BY <1>0, <2>1, VictimsAreIdle
  <2>3. listed \ (listed \ {v}) = {v} /\ listed \ {v} \in SUBSET listed
      BY <2>2
  <2> QED
      BY <1>0, <2>1, <2>2, <2>3, CreateWorkerSafe
<1> QED
    BY <1>1, <1>2, <1>3 DEF GetWorker

(* Listed workers without a request are stopped, some leave the list.      *)
LEMMA StopIdleSafe ==
    ASSUME Safe, NEW S \in SUBSET listed, \A w \in S : IsIdle(w),
           listed' \subseteq listed, listed \ listed' \subseteq S, stopping' = stopping \cup S,
           UNCHANGED <<proc, workerPath, leases>>, killed \subseteq killed', closed \subseteq closed'
    PROVE  LeasedStayListed' /\ SlotsAreClean' /\ StopSparesRequests'
BY DEF Safe, TypeOK, LeasedStayListed, SlotsAreClean, StopSparesRequests, IsIdle, PoolOfWorker

LEMMA GetsNoneSafe ==
    ASSUME Safe, NEW r \in Requests, GetsNone(r), closed' = closed
    PROVE  LeasedStayListed' /\ SlotsAreClean' /\ StopSparesRequests'
<1>0. PoolOf[PathOf[r]] \in Pools
    BY PoolsOfThings
<1>1. CASE UNCHANGED workerVars
  <2>1. stopping' = stopping \cup {} /\ listed \ listed' = {} /\ UNCHANGED <<proc, workerPath, leases, killed, listed>>
      BY <1>1 DEF workerVars
  <2> QED
      BY <2>1, StopIdleSafe
<1>2. CASE ~UNCHANGED workerVars
  <2>1. PICK v \in Victims(PoolOf[PathOf[r]]) : listed' = listed \ {v} /\ stopping' = stopping \cup {v}
      BY <1>2 DEF GetsNone, GetNothing, SpawnFails
  <2>2. UNCHANGED <<proc, workerPath, leases, killed>>
      BY <1>2 DEF GetsNone, GetNothing, SpawnFails
  <2>3. v \in listed /\ IsIdle(v)
      BY <1>0, <2>1, VictimsAreIdle
  <2>4. {v} \in SUBSET listed /\ (\A w \in {v} : IsIdle(w))
      BY <2>3
  <2>5. listed' \subseteq listed /\ listed \ listed' \subseteq {v}
      BY <2>1
  <2> QED
      BY <2>1, <2>2, <2>4, <2>5, StopIdleSafe
<1> QED
    BY <1>1, <1>2

(* What the three properties look at.                                      *)
LEMMA NothingStopped ==
    ASSUME Safe, UNCHANGED <<proc, workerPath, listed, leases, stopping>>,
           killed \subseteq killed', closed \subseteq closed'
    PROVE  LeasedStayListed' /\ SlotsAreClean' /\ StopSparesRequests'
BY DEF Safe, LeasedStayListed, SlotsAreClean, StopSparesRequests, IsIdle, PoolOfWorker

LEMMA RequestStepsSafe ==
    ASSUME Safe, NEW r \in Requests, Acquire(r) \/ LeaveLine(r) \/ ReleaseLost(r)
    PROVE  LeasedStayListed' /\ SlotsAreClean' /\ StopSparesRequests'
<1>1. CASE Acquire(r)
  <2>1. closed' = closed /\ (GetWorker(r) \/ GetsNone(r) \/ UNCHANGED workerVars)
      BY <1>1 DEF Acquire, GetsNone, lifeVars
  <2>2. CASE GetWorker(r)
      BY <2>1, <2>2, GetWorkerSafe
  <2>3. CASE GetsNone(r)
      BY <2>1, <2>3, GetsNoneSafe
  <2>4. CASE UNCHANGED workerVars
      BY <2>1, <2>4, NothingStopped DEF workerVars
  <2> QED
      BY <2>1, <2>2, <2>3, <2>4
<1>2. CASE LeaveLine(r) \/ ReleaseLost(r)
    BY <1>2, NothingStopped DEF LeaveLine, ReleaseLost, workerVars, lifeVars
<1> QED
    BY <1>1, <1>2

LEMMA LeaseStepsSafe ==
    ASSUME Safe, NEW r \in Requests, NEW w \in Workers, Release(r, w) \/ Kill(r, w)
    PROVE  LeasedStayListed' /\ SlotsAreClean' /\ StopSparesRequests'
<1>1. CASE Release(r, w)
    BY <1>1 DEF Release, Holds, lifeVars, Safe, TypeOK, LeasedStayListed, SlotsAreClean,
                StopSparesRequests, IsIdle, PoolOfWorker
<1>2. CASE Kill(r, w)
    BY <1>2 DEF Kill, Holds, lifeVars, Safe, TypeOK, LeasedStayListed, SlotsAreClean,
                StopSparesRequests, IsIdle, PoolOfWorker
<1> QED
    BY <1>1, <1>2

LEMMA TimerStepsSafe ==
    ASSUME Safe, NEW w \in Workers,
           \/ Ready(w) \/ StartTimeout(w) \/ KillAfter(w) \/ AgeTimeout(w)
           \/ IdleTimeout(w) \/ UptimeStable(w)
    PROVE  LeasedStayListed' /\ SlotsAreClean' /\ StopSparesRequests'
<1>1. CASE Ready(w) \/ UptimeStable(w)
    BY <1>1, NothingStopped DEF Ready, UptimeStable, lifeVars
<1>2. CASE StartTimeout(w) \/ KillAfter(w)
    BY <1>2, NothingStopped DEF StartTimeout, KillAfter, lifeVars
<1>3. CASE AgeTimeout(w)
    BY <1>3 DEF AgeTimeout, lifeVars, Safe, LeasedStayListed, SlotsAreClean, StopSparesRequests,
                IsIdle, PoolOfWorker
<1>4. CASE IdleTimeout(w)
    BY <1>4 DEF IdleTimeout, lifeVars, Safe, LeasedStayListed, SlotsAreClean, StopSparesRequests,
                IsIdle, PoolOfWorker
<1> QED
    BY <1>1, <1>2, <1>3, <1>4

LEMMA EndStepsSafe ==
    ASSUME Safe, NEW w \in Workers, Exit(w) \/ Close(w)
    PROVE  LeasedStayListed' /\ SlotsAreClean' /\ StopSparesRequests'
<1>1. CASE Exit(w)
  <2>1. /\ \A u \in Workers : (proc'[u] = "none") <=> (proc[u] = "none")
        /\ UNCHANGED <<workerPath, listed, leases, stopping, killed, closed>>
      BY <1>1, EventsAssumption DEF Exit, lifeVars, Safe, TypeOK, Ended
  <2> QED
      BY <2>1 DEF Safe, LeasedStayListed, SlotsAreClean, StopSparesRequests, IsIdle, PoolOfWorker
<1>2. CASE Close(w)
  <2>1. /\ proc' = [proc EXCEPT ![w] = "none"]
        /\ workerPath' = [workerPath EXCEPT ![w] = AnyPath]
        /\ leases' = [leases EXCEPT ![w] = {}]
        /\ listed' = listed \ {w} /\ stopping' = stopping \ {w} /\ killed' = killed \ {w}
        /\ closed' = closed
      BY <1>2 DEF Close, lifeVars
  <2>2. \A u \in Workers \ {w} : /\ proc'[u] = proc[u] /\ leases'[u] = leases[u]
                                 /\ workerPath'[u] = workerPath[u]
      BY <2>1 DEF Safe, TypeOK
  <2>3. leases'[w] = {} /\ w \notin listed' /\ w \notin stopping'
      BY <2>1 DEF Safe, TypeOK
  <2> QED
      BY <2>1, <2>2, <2>3
      DEF Safe, TypeOK, LeasedStayListed, SlotsAreClean, StopSparesRequests, IsIdle, PoolOfWorker
<1> QED
    BY <1>1, <1>2

LEMMA OwnerStepsSafe ==
    ASSUME Safe, NEW x \in Paths, NEW p \in Pools,
           \/ BackoffOver(x) \/ Warm(x) \/ KeepWarm(x) \/ RefillTimer(x)
           \/ Dispose(p) \/ DisposeTimeout(p)
    PROVE  LeasedStayListed' /\ SlotsAreClean' /\ StopSparesRequests'
<1>1. CASE BackoffOver(x) \/ Warm(x)
    BY <1>1, NothingStopped DEF BackoffOver, Warm, workerVars, lifeVars
<1>2. CASE KeepWarm(x) \/ RefillTimer(x)
    BY <1>2, NothingStopped DEF KeepWarm, RefillTimer, workerVars
<1>3. CASE Dispose(p)
  <2> DEFINE S == {w \in ListedIn(p, listed) : IsIdle(w)}
  <2>1. S \in SUBSET listed /\ (\A w \in S : IsIdle(w))
      BY DEF ListedIn
  <2>2. stopping' = stopping \cup S /\ UNCHANGED <<proc, workerPath, listed, leases, killed, closed>>
      BY <1>3 DEF Dispose
  <2> HIDE DEF S
  <2> QED
      BY <2>1, <2>2, StopIdleSafe
<1>4. CASE DisposeTimeout(p)
    BY <1>4 DEF DisposeTimeout, ListedIn, Safe, LeasedStayListed, SlotsAreClean,
                StopSparesRequests, IsIdle, PoolOfWorker
<1> QED
    BY <1>1, <1>2, <1>3, <1>4

LEMMA RestOfTurnSafe ==
    ASSUME Safe, RestOfTurn
    PROVE  LeasedStayListed' /\ SlotsAreClean' /\ StopSparesRequests'
<1>1. CASE \E p \in Pools : WakeLine(p)
    BY <1>1, NothingStopped DEF WakeLine, workerVars, lifeVars
<1>2. CASE Offer
  <2> DEFINE r == Head(offering)
  <2>1. r \in Requests
      BY <1>2 DEF Safe, TypeOK, Offer
  <2>2. closed' = closed /\ (GetWorker(r) \/ GetsNone(r) \/ UNCHANGED workerVars)
      BY <1>2 DEF Offer, GetsNone, lifeVars
  <2> HIDE DEF r
  <2>3. CASE GetWorker(r)
      BY <2>1, <2>2, <2>3, GetWorkerSafe
  <2>4. CASE GetsNone(r)
      BY <2>1, <2>2, <2>4, GetsNoneSafe
  <2>5. CASE UNCHANGED workerVars
      BY <2>2, <2>5, NothingStopped DEF workerVars
  <2> QED
      BY <2>2, <2>3, <2>4, <2>5
<1>3. CASE StopIdle
  <2> DEFINE S == {w \in ListedIn(turn, listed) : IsIdle(w)}
  <2>1. S \in SUBSET listed /\ (\A w \in S : IsIdle(w))
      BY DEF ListedIn
  <2>2. stopping' = stopping \cup S /\ UNCHANGED <<proc, workerPath, listed, leases, killed, closed>>
      BY <1>3 DEF StopIdle, lifeVars
  <2> HIDE DEF S
  <2> QED
      BY <2>1, <2>2, StopIdleSafe
<1>4. CASE CheckDisposed \/ Refill
    BY <1>4, NothingStopped DEF CheckDisposed, Refill, workerVars
<1>5. CASE \E x \in Paths : WarmFails(x) \/ WarmDone(x)
    BY <1>5, NothingStopped DEF WarmFails, WarmDone, workerVars, lifeVars
<1>6. CASE \E x \in Paths : WarmStart(x)
  <2>1. PICK x \in Paths, w \in Workers : CreateWorker(w, x, listed, {})
      BY <1>6 DEF WarmStart
  <2>2. stopping' = stopping \cup (listed \ listed) /\ closed' = closed
      BY <1>6 DEF WarmStart, lifeVars
  <2> QED
      BY <2>1, <2>2, CreateWorkerSafe
<1> QED
    BY <1>1, <1>2, <1>3, <1>4, <1>5, <1>6 DEF RestOfTurn

LEMMA InitSafe == Init => Safe
<1>1. Init => LeasedStayListed /\ SlotsAreClean /\ StopSparesRequests
    BY DEF Init, LeasedStayListed, SlotsAreClean, StopSparesRequests, IsIdle
<1> QED
    BY <1>1, InitTyped DEF Safe

LEMMA SafeStep == Safe /\ [Next]_vars => Safe'
<1> SUFFICES ASSUME Safe, [Next]_vars
             PROVE  LeasedStayListed' /\ SlotsAreClean' /\ StopSparesRequests'
    BY TypeStep DEF Safe
<1>1. CASE UNCHANGED vars
    BY <1>1, NothingStopped DEF vars, workerVars, lifeVars
<1>2. CASE Next
  <2>1. CASE \E r \in Requests : Acquire(r) \/ LeaveLine(r) \/ ReleaseLost(r)
      BY <2>1, RequestStepsSafe
  <2>2. CASE \E r \in Requests, w \in Workers : Release(r, w) \/ Kill(r, w)
      BY <2>2, LeaseStepsSafe
  <2>3. CASE \E w \in Workers : Ready(w) \/ StartTimeout(w) \/ KillAfter(w) \/ AgeTimeout(w)
      BY <2>3, TimerStepsSafe
  <2>4. CASE \E w \in Workers : IdleTimeout(w) \/ UptimeStable(w) \/ Exit(w) \/ Close(w)
      BY <2>4, TimerStepsSafe, EndStepsSafe
  <2>5. CASE \E x \in Paths : BackoffOver(x) \/ Warm(x) \/ KeepWarm(x) \/ RefillTimer(x)
      BY <2>5, OwnerStepsSafe, SetsAssumption
  <2>6. CASE \E p \in Pools : Dispose(p) \/ DisposeTimeout(p)
      BY <2>6, OwnerStepsSafe, SetsAssumption
  <2>7. CASE RestOfTurn
      BY <2>7, RestOfTurnSafe
  <2> QED
      BY <1>2, <2>1, <2>2, <2>3, <2>4, <2>5, <2>6, <2>7 DEF Next
<1> QED
    BY <1>1, <1>2

(* What a worker is doing is not lost because its slot was given away: a   *)
(* worker with a request stays listed, and is evicted by nobody.           *)
THEOREM LeasedWorkersStayListed == Spec => []LeasedStayListed
<1>1. Safe => LeasedStayListed
    BY DEF Safe
<1> QED
    BY InitSafe, SafeStep, <1>1, PTL DEF Spec

(* The pool stops no worker in the middle of a request, unless the request *)
(* had it killed or the disposal of the pool took too long.                *)
THEOREM StopsSpareRequests == Spec => []StopSparesRequests
<1>1. Safe => StopSparesRequests
    BY DEF Safe
<1> QED
    BY InitSafe, SafeStep, <1>1, PTL DEF Spec

-----------------------------------------------------------------------------
(* The limits                                                              *)

InBudget(L) == {w \in L : PoolOfWorker(w) \in members}

LEMMA ListsAreFinite ==
    ASSUME TypeOK, NEW L \in SUBSET Workers
    PROVE  /\ IsFiniteSet(L) /\ IsFiniteSet(InBudget(L)) /\ Cardinality(InBudget(L)) \in Nat
           /\ \A p \in Pools : IsFiniteSet(ListedIn(p, L)) /\ Cardinality(ListedIn(p, L)) \in Nat
<1>1. IsFiniteSet(L)
    BY SetsAssumption, FS_Subset
<1>2. InBudget(L) \subseteq L /\ \A p \in Pools : ListedIn(p, L) \subseteq L
    BY DEF InBudget, ListedIn
<1> QED
    BY <1>1, <1>2, FS_Subset, FS_CardinalityType

(* Workers leave the list, pools leave the budget: the counts go down.     *)
LEMMA FewerWithinLimits ==
    ASSUME TypeOK, WithinLimits, listed' \subseteq listed, members' \subseteq members,
           \A w \in listed' : workerPath'[w] = workerPath[w]
    PROVE  WithinLimits'
<1>0. listed \in SUBSET Workers
    BY DEF TypeOK
<1>1. ASSUME NEW p \in Pools
      PROVE  Cardinality(ListedIn(p, listed)') <= Cardinality(ListedIn(p, listed))
  <2>1. ListedIn(p, listed)' \subseteq ListedIn(p, listed)
      BY DEF ListedIn, PoolOfWorker
  <2> QED
      BY <1>0, <2>1, ListsAreFinite, FS_Subset
<1>2. Cardinality(InBudget(listed)') <= Cardinality(InBudget(listed))
  <2>1. InBudget(listed)' \subseteq InBudget(listed)
      BY DEF InBudget, PoolOfWorker
  <2> QED
      BY <1>0, <2>1, ListsAreFinite, FS_Subset
<1>3. /\ \A p \in Pools : /\ Cardinality(ListedIn(p, listed)) \in Nat
                          /\ Cardinality(ListedIn(p, listed)') \in Nat
      /\ Cardinality(InBudget(listed)) \in Nat /\ Cardinality(InBudget(listed)') \in Nat
  <2>1. listed' \in SUBSET Workers
      BY <1>0
  <2>2. /\ InBudget(listed)' \subseteq listed'
        /\ \A p \in Pools : ListedIn(p, listed)' \subseteq listed'
      BY DEF InBudget, ListedIn
  <2>3. IsFiniteSet(listed')
      BY <2>1, SetsAssumption, FS_Subset
  <2> QED
      BY <1>0, <2>2, <2>3, ListsAreFinite, FS_Subset, FS_CardinalityType
<1> QED
    BY <1>1, <1>2, <1>3, LimitsAssumption DEF WithinLimits, InBudget

(* A worker is created where there is room for one.                        *)
LEMMA CreateWorkerWithinLimits ==
    ASSUME Safe, WithinLimits, NEW w \in Workers, NEW x \in Paths, NEW L \in SUBSET listed,
           NEW holders \in SUBSET Requests, CreateWorker(w, x, L, holders),
           HasRoom(PoolOf[x], L), members' = members
    PROVE  WithinLimits'
<1>0. /\ TypeOK /\ listed \in SUBSET Workers /\ L \in SUBSET Workers /\ PoolOf[x] \in Pools
      /\ w \notin L /\ listed' = L \cup {w} /\ workerPath' = [workerPath EXCEPT ![w] = x]
    BY PoolsOfThings DEF Safe, SlotsAreClean, TypeOK, CreateWorker
<1>1. /\ \A u \in L : workerPath'[u] = workerPath[u]
      /\ workerPath'[w] = x
    BY <1>0 DEF TypeOK
<1>2. ListedIn(PoolOf[x], listed)' = ListedIn(PoolOf[x], L) \cup {w}
    BY <1>0, <1>1 DEF ListedIn, PoolOfWorker
<1>3. \A p \in Pools \ {PoolOf[x]} : ListedIn(p, listed)' = ListedIn(p, L)
    BY <1>0, <1>1 DEF ListedIn, PoolOfWorker
<1>4. InBudget(listed)' \subseteq InBudget(L) \cup {w}
    BY <1>0, <1>1 DEF InBudget, PoolOfWorker
<1>5. ASSUME OverallLimit > 0, NEW p \in Pools
      PROVE  Cardinality(ListedIn(p, listed)') <= OverallLimit
  <2>1. CASE p = PoolOf[x]
    <3>1. Cardinality(ListedIn(p, L)) < OverallLimit
        BY <1>5, <2>1, LimitsAssumption DEF HasRoom, BelowOverallLimit
    <3>2. w \notin ListedIn(p, L)
        BY <1>0 DEF ListedIn
    <3>3. IsFiniteSet(ListedIn(p, L)) /\ Cardinality(ListedIn(p, L)) \in Nat
        BY <1>0, ListsAreFinite
    <3>4. Cardinality(ListedIn(p, L) \cup {w}) = Cardinality(ListedIn(p, L)) + 1
        BY <3>2, <3>3, FS_AddElement
    <3>5. ListedIn(p, listed)' = ListedIn(p, L) \cup {w}
        BY <1>2, <2>1
    <3>6. Cardinality(ListedIn(p, L)) + 1 <= OverallLimit
        BY <3>1, <3>3, LimitsAssumption
    <3> QED
        BY <3>4, <3>5, <3>6
  <2>2. CASE p # PoolOf[x]
    <3>1. ListedIn(p, L) \subseteq ListedIn(p, listed)
        BY DEF ListedIn
    <3>2. Cardinality(ListedIn(p, L)) <= Cardinality(ListedIn(p, listed))
        BY <1>0, <3>1, ListsAreFinite, FS_Subset
    <3>3. Cardinality(ListedIn(p, listed)) <= OverallLimit
        BY <1>5 DEF WithinLimits
    <3>4. Cardinality(ListedIn(p, L)) \in Nat /\ Cardinality(ListedIn(p, listed)) \in Nat
        BY <1>0, ListsAreFinite
    <3>5. ListedIn(p, listed)' = ListedIn(p, L)
        BY <1>3, <2>2
    <3>6. Cardinality(ListedIn(p, L)) <= OverallLimit
        BY <3>2, <3>3, <3>4, LimitsAssumption
    <3> QED
        BY <3>5, <3>6
  <2> QED
      BY <2>1, <2>2
<1>6. ASSUME BudgetLimit > 0
      PROVE  Cardinality(InBudget(listed)') <= BudgetLimit
  <2>1. Cardinality(InBudget(L)) < BudgetLimit
      BY <1>6, LimitsAssumption DEF HasRoom, BudgetHasRoom, InBudget
  <2>2. w \notin InBudget(L)
      BY <1>0 DEF InBudget
  <2>3. IsFiniteSet(InBudget(L) \cup {w}) /\ Cardinality(InBudget(L) \cup {w}) = Cardinality(InBudget(L)) + 1
      BY <1>0, <2>2, ListsAreFinite, FS_AddElement
  <2>4. Cardinality(InBudget(listed)') <= Cardinality(InBudget(L) \cup {w})
      BY <1>4, <2>3, FS_Subset
  <2>5. Cardinality(InBudget(listed)') \in Nat /\ Cardinality(InBudget(L)) \in Nat
      BY <1>0, <1>4, <2>3, ListsAreFinite, FS_Subset, FS_CardinalityType
  <2> QED
      BY <2>1, <2>3, <2>4, <2>5, LimitsAssumption
<1> QED
    BY <1>5, <1>6 DEF WithinLimits, InBudget

LEMMA GetWorkerWithinLimits ==
    ASSUME Safe, WithinLimits, NEW r \in Requests, members' = members,
           GetWorker(r) \/ GetsNone(r) \/ UNCHANGED workerVars
    PROVE  WithinLimits'
<1>0. TypeOK /\ PathOf[r] \in Paths
    BY PoolsOfThings DEF Safe
<1>1. CASE TakeListed(r) \/ GetsNone(r) \/ UNCHANGED workerVars
    BY <1>0, <1>1, FewerWithinLimits DEF TakeListed, GetsNone, GetNothing, SpawnFails, workerVars
<1>2. CASE TakeNew(r)
  <2>1. PICK w \in Workers : CreateWorker(w, PathOf[r], listed, {r})
      BY <1>2 DEF TakeNew
  <2>2. HasRoom(PoolOf[PathOf[r]], listed)
      BY <1>2 DEF TakeNew, StartsWorker, HasRoomFor
  <2> QED
      BY <1>0, <2>1, <2>2, CreateWorkerWithinLimits
<1>3. CASE TakeRoom(r)
  <2>1. PICK v \in Victims(PoolOf[PathOf[r]]), w \in Workers :
            /\ HasRoom(PoolOf[PathOf[r]], listed \ {v})
            /\ CreateWorker(w, PathOf[r], listed \ {v}, {r})
      BY <1>3 DEF TakeRoom
  <2>2. listed \ {v} \in SUBSET listed
      OBVIOUS
  <2> QED
      BY <1>0, <2>1, <2>2, CreateWorkerWithinLimits
<1> QED
    BY <1>1, <1>2, <1>3 DEF GetWorker

LEMMA RestOfTurnWithinLimits ==
    ASSUME Safe, WithinLimits, RestOfTurn
    PROVE  WithinLimits'
<1>0. TypeOK
    BY DEF Safe
<1>1. CASE \E p \in Pools : WakeLine(p)
    BY <1>0, <1>1, FewerWithinLimits DEF WakeLine, workerVars, lifeVars
<1>2. CASE Offer
  <2> DEFINE r == Head(offering)
  <2>1. r \in Requests
      BY <1>0, <1>2 DEF TypeOK, Offer
  <2>2. members' = members /\ (GetWorker(r) \/ GetsNone(r) \/ UNCHANGED workerVars)
      BY <1>2 DEF Offer, GetsNone, lifeVars
  <2> HIDE DEF r
  <2> QED
      BY <2>1, <2>2, GetWorkerWithinLimits
<1>3. CASE StopIdle \/ Refill
    BY <1>0, <1>3, FewerWithinLimits DEF StopIdle, Refill, workerVars, lifeVars
<1>4. CASE CheckDisposed
    BY <1>0, <1>4, FewerWithinLimits DEF CheckDisposed, workerVars
<1>5. CASE \E x \in Paths : WarmFails(x) \/ WarmDone(x)
    BY <1>0, <1>5, FewerWithinLimits DEF WarmFails, WarmDone, workerVars, lifeVars
<1>6. CASE \E x \in Paths : WarmStart(x)
  <2>1. PICK x \in Paths, w \in Workers : CreateWorker(w, x, listed, {}) /\ HasRoom(PoolOf[x], listed)
      BY <1>6 DEF WarmStart, ShouldWarm, HasRoomFor
  <2>2. members' = members
      BY <1>6 DEF WarmStart, lifeVars
  <2> QED
      BY <2>1, <2>2, CreateWorkerWithinLimits
<1> QED
    BY <1>1, <1>2, <1>3, <1>4, <1>5, <1>6 DEF RestOfTurn

LEMMA WithinLimitsStep == Safe /\ WithinLimits /\ [Next]_vars => WithinLimits'
<1> SUFFICES ASSUME Safe, WithinLimits, [Next]_vars PROVE WithinLimits'
    OBVIOUS
<1>0. TypeOK
    BY DEF Safe
<1>1. CASE UNCHANGED vars
    BY <1>0, <1>1, FewerWithinLimits DEF vars, workerVars, lifeVars
<1>2. CASE \E r \in Requests : Acquire(r)
  <2>1. PICK r \in Requests : Acquire(r)
      BY <1>2
  <2>2. members' = members /\ (GetWorker(r) \/ GetsNone(r) \/ UNCHANGED workerVars)
      BY <2>1 DEF Acquire, GetsNone, lifeVars
  <2> QED
      BY <2>2, GetWorkerWithinLimits
<1>3. CASE \E r \in Requests : LeaveLine(r) \/ ReleaseLost(r)
    BY <1>0, <1>3, FewerWithinLimits DEF LeaveLine, ReleaseLost, workerVars, lifeVars
<1>4. CASE \E r \in Requests, w \in Workers : Release(r, w) \/ Kill(r, w)
    BY <1>0, <1>4, FewerWithinLimits DEF Release, Kill, lifeVars
<1>5. CASE \E w \in Workers : Ready(w) \/ StartTimeout(w) \/ KillAfter(w) \/ AgeTimeout(w)
    BY <1>0, <1>5, FewerWithinLimits DEF Ready, StartTimeout, KillAfter, AgeTimeout, lifeVars
<1>6. CASE \E w \in Workers : IdleTimeout(w) \/ UptimeStable(w) \/ Exit(w)
    BY <1>0, <1>6, FewerWithinLimits DEF IdleTimeout, UptimeStable, Exit, lifeVars
<1>7. CASE \E w \in Workers : Close(w)
  <2>1. PICK w \in Workers : Close(w)
      BY <1>7
  <2>2. /\ listed' = listed \ {w} /\ workerPath' = [workerPath EXCEPT ![w] = AnyPath]
        /\ members' = members
      BY <2>1 DEF Close, lifeVars
  <2>3. \A u \in listed' : workerPath'[u] = workerPath[u]
      BY <1>0, <2>2 DEF TypeOK
  <2> QED
      BY <1>0, <2>2, <2>3, FewerWithinLimits
<1>8. CASE \E x \in Paths : BackoffOver(x) \/ Warm(x) \/ KeepWarm(x) \/ RefillTimer(x)
    BY <1>0, <1>8, FewerWithinLimits DEF BackoffOver, Warm, KeepWarm, RefillTimer, workerVars, lifeVars
<1>9. CASE \E p \in Pools : Dispose(p) \/ DisposeTimeout(p)
    BY <1>0, <1>9, FewerWithinLimits DEF Dispose, DisposeTimeout
<1>10. CASE RestOfTurn
    BY <1>10, RestOfTurnWithinLimits
<1> QED
    BY <1>1, <1>2, <1>3, <1>4, <1>5, <1>6, <1>7, <1>8, <1>9, <1>10 DEF Next

(* Whatever the interleaving of evictions, refills, retirements and pools  *)
(* that leave, no pool lists more workers than its limit, and the members  *)
(* of the budget no more than the budget has.                              *)
THEOREM LimitsHold == Spec => []WithinLimits
<1>1. Init => WithinLimits
  <2> SUFFICES ASSUME Init PROVE WithinLimits
      OBVIOUS
  <2>1. InBudget(listed) = {} /\ \A p \in Pools : ListedIn(p, listed) = {}
      BY DEF Init, InBudget, ListedIn
  <2> QED
      BY <2>1, FS_EmptySet, LimitsAssumption DEF WithinLimits, InBudget
<1>2. Spec => []Safe
    BY InitSafe, SafeStep, PTL DEF Spec
<1> QED
    BY <1>1, <1>2, WithinLimitsStep, PTL DEF Spec

-----------------------------------------------------------------------------
(* No place of a worker is wasted                                          *)

InLineOf(p) == {queue[p][i] : i \in DOMAIN queue[p]}

(* The line of the pool is still to be woken in this turn.                 *)
Covered(p) == p \in waking \/ \E x \in warming : PoolOf[x] = p

(* Who waits stands in the line of its own pool, and either that line is   *)
(* about to be woken or no worker of the file has a place.                 *)
PlacesAreKnown ==
    \A p \in Pools : \A r \in InLineOf(p) :
        PoolOfRequest(r) = p /\ (Covered(p) \/ Open(PathOf[r]) = {})

(* A worker has no more than the one request it may have, so one that is   *)
(* started for a request has no place for another.                         *)
OneRequestEach == \A w \in Workers : IsIdle(w) \/ \E r \in Requests : leases[w] = {r}

OneWarmed == \A x, y \in warming : x = y

(* Where no path is ever warmed, no refill comes either.                   *)
NothingWarmed ==
    /\ minimums = [p \in Pools |-> <<>>]
    /\ refillTimers = {} /\ warming = {} /\ refilling = <<>>

WarmsNothing == "warm" \notin Happens /\ "keepWarm" \notin Happens

(* The inductive invariant of the places.                                  *)
PlacesInv ==
    PlacesAreKnown /\ OneRequestEach /\ OneWarmed /\ (WarmsNothing => NothingWarmed)

(* Enough for a step: who joins a line finds no place, and where a place   *)
(* came to be, or the waking of a line is over, the line is empty or is    *)
(* about to be woken.                                                      *)
LEMMA PlacesStayKnown ==
    ASSUME TypeOK, TypeOK', PlacesAreKnown,
           \A p \in Pools : \A r \in InLineOf(p)' :
               r \in InLineOf(p) \/ (PoolOfRequest(r) = p /\ Open(PathOf[r])' = {}),
           \A x \in Paths : \/ Open(x)' \subseteq Open(x)
                            \/ Covered(PoolOf[x])' \/ InLineOf(PoolOf[x])' = {},
           \A p \in Pools : Covered(p) => Covered(p)' \/ InLineOf(p)' = {}
    PROVE  PlacesAreKnown'
<1> SUFFICES ASSUME NEW p \in Pools, NEW r \in InLineOf(p)'
             PROVE  PoolOfRequest(r) = p /\ (Covered(p)' \/ Open(PathOf[r])' = {})
    BY DEF PlacesAreKnown
<1>1. r \in Requests
    BY DEF TypeOK, InLineOf
<1>2. PathOf[r] \in Paths /\ PoolOf[PathOf[r]] = PoolOfRequest(r)
    BY <1>1, PoolsOfThings DEF PoolOfRequest
<1>3. CASE r \in InLineOf(p)
  <2>1. PoolOfRequest(r) = p /\ (Covered(p) \/ Open(PathOf[r]) = {})
      BY <1>3 DEF PlacesAreKnown
  <2> QED
      BY <1>2, <2>1
<1> QED
    BY <1>3

(* Between two turns nothing is left to do, so who waits finds no place.   *)
LEMMA NothingCovered ==
    Quiet => \A p \in Pools : ~Covered(p)
BY DEF Quiet, Covered

LEMMA LinesOf ==
    ASSUME queue \in [Pools -> Seq(Requests)], NEW p \in Pools
    PROVE  /\ queue' = queue => \A q \in Pools : InLineOf(q)' = InLineOf(q)
           /\ \A r \in Requests : queue' = [queue EXCEPT ![p] = Append(@, r)] =>
                 \A q \in Pools : InLineOf(q)' \subseteq IF q = p THEN InLineOf(q) \cup {r} ELSE InLineOf(q)
           /\ \A i \in DOMAIN queue[p] : queue' = [queue EXCEPT ![p] = RemoveAt(@, i)] =>
                 \A q \in Pools : InLineOf(q)' \subseteq InLineOf(q)
           /\ queue' = [queue EXCEPT ![p] = <<>>] =>
                 InLineOf(p)' = {} /\ \A q \in Pools : InLineOf(q)' \subseteq InLineOf(q)
<1>0. queue[p] \in Seq(Requests) /\ Len(queue[p]) \in Nat /\ DOMAIN queue[p] = 1..Len(queue[p])
    OBVIOUS
<1>1. ASSUME queue' = queue, NEW q \in Pools PROVE InLineOf(q)' = InLineOf(q)
    BY <1>1 DEF InLineOf
<1>2. ASSUME NEW r \in Requests, queue' = [queue EXCEPT ![p] = Append(@, r)], NEW q \in Pools
      PROVE  InLineOf(q)' \subseteq IF q = p THEN InLineOf(q) \cup {r} ELSE InLineOf(q)
  <2>1. queue'[q] = IF q = p THEN Append(queue[p], r) ELSE queue[q]
      BY <1>2
  <2>2. \A i \in DOMAIN Append(queue[p], r) :
            Append(queue[p], r)[i] = r \/ (i \in DOMAIN queue[p] /\ Append(queue[p], r)[i] = queue[p][i])
      BY <1>0
  <2> QED
      BY <2>1, <2>2 DEF InLineOf
<1>3. ASSUME NEW i \in DOMAIN queue[p], queue' = [queue EXCEPT ![p] = RemoveAt(@, i)], NEW q \in Pools
      PROVE  InLineOf(q)' \subseteq InLineOf(q)
  <2>1. queue'[q] = IF q = p THEN RemoveAt(queue[p], i) ELSE queue[q]
      BY <1>3
  <2>2. \A j \in DOMAIN RemoveAt(queue[p], i) :
            \E k \in DOMAIN queue[p] : RemoveAt(queue[p], i)[j] = queue[p][k]
    <3> DEFINE s == queue[p]
               front == SubSeq(s, 1, i - 1)
               back == SubSeq(s, i + 1, Len(s))
    <3>1. i \in 1..Len(s) /\ s \in Seq(Requests) /\ Len(s) \in Nat
        BY <1>0, <1>3
    <3> HIDE DEF s
    <3>2. /\ front \in Seq(Requests) /\ Len(front) = i - 1
          /\ \A j \in 1..(i - 1) : front[j] = s[j]
        BY <3>1
    <3>3. /\ back \in Seq(Requests) /\ Len(back) = Len(s) - i
          /\ \A j \in 1..(Len(s) - i) : back[j] = s[i + j]
        BY <3>1
    <3> HIDE DEF front, back
    <3>4. RemoveAt(s, i) = front \o back
        BY DEF RemoveAt, front, back
    <3> DEFINE n == Len(s)
    <3>5. /\ DOMAIN (front \o back) = 1..((i - 1) + (n - i))
          /\ \A j \in 1..(i - 1) : (front \o back)[j] = s[j]
          /\ \A j \in 1..(n - i) : (front \o back)[(i - 1) + j] = s[i + j]
      <4>1. /\ Len(front \o back) = Len(front) + Len(back) /\ front \o back \in Seq(Requests)
            /\ \A j \in 1..Len(front) : (front \o back)[j] = front[j]
            /\ \A j \in 1..Len(back) : (front \o back)[Len(front) + j] = back[j]
        <5>1. front \in Seq(Requests) /\ back \in Seq(Requests)
            BY <3>2, <3>3
        <5> QED
            BY <5>1, QueueJoined
      <4>2. DOMAIN (front \o back) = 1..Len(front \o back)
          BY <4>1
      <4> QED
          BY <3>2, <3>3, <4>1, <4>2
    <3>6. i \in Nat /\ 1 <= i /\ i <= n /\ n \in Nat /\ DOMAIN s = 1..n
        BY <3>1
    <3> DEFINE t == front \o back
    <3> HIDE DEF n, t
    <3>7. ASSUME NEW j \in DOMAIN t
          PROVE  \E k \in DOMAIN s : t[j] = s[k]
      <4>1. j \in 1..((i - 1) + (n - i))
          BY <3>5, <3>7 DEF t, n
      <4>2. CASE j <= i - 1
        <5>1. j \in 1..(i - 1) /\ j \in 1..n
            BY <3>6, <4>1, <4>2
        <5> QED
            BY <3>5, <3>6, <5>1 DEF t
      <4>3. CASE j > i - 1
        <5>1. PICK k \in 1..(n - i) : j = (i - 1) + k /\ i + k \in 1..n
          <6>1. j - (i - 1) \in 1..(n - i) /\ j = (i - 1) + (j - (i - 1)) /\ i + (j - (i - 1)) \in 1..n
              BY <3>6, <4>1, <4>3
          <6> QED
              BY <6>1
        <5> QED
            BY <3>5, <3>6, <5>1 DEF t, n
      <4> QED
          BY <3>6, <4>1, <4>2, <4>3
    <3> QED
        BY <3>4, <3>7 DEF s, t
  <2> QED
      BY <2>1, <2>2 DEF InLineOf
<1>4. ASSUME queue' = [queue EXCEPT ![p] = <<>>]
      PROVE  InLineOf(p)' = {} /\ \A q \in Pools : InLineOf(q)' \subseteq InLineOf(q)
    BY <1>4 DEF InLineOf
<1> QED
    BY <1>1, <1>2, <1>3, <1>4

(* A worker has a place exactly when it has no request.                    *)
LEMMA OneOrNone ==
    ASSUME NEW S, S = {} \/ \E r \in Requests : S = {r}
    PROVE  (Cardinality(S) < 1) <=> S = {}
BY FS_EmptySet, FS_Singleton

LEMMA OpenIsIdle ==
    ASSUME Concurrency = 1, NEW x \in Paths
    PROVE  /\ TypeOK /\ OneRequestEach => Open(x) = {w \in Available(x) : IsIdle(w)}
           /\ (TypeOK /\ OneRequestEach)' => Open(x)' = {w \in Available(x)' : IsIdle(w)'}
<1>1. ASSUME TypeOK, OneRequestEach, NEW w \in Workers PROVE (Load(w) < 1) <=> IsIdle(w)
    BY <1>1, OneOrNone DEF OneRequestEach, IsIdle, Load
<1>2. ASSUME TypeOK', OneRequestEach', NEW w \in Workers PROVE (Load(w)' < 1) <=> IsIdle(w)'
    BY <1>2, OneOrNone DEF OneRequestEach, IsIdle, Load
<1>3. TypeOK => Available(x) \subseteq Workers
    BY DEF Available, ForPath, TypeOK
<1>4. TypeOK' => Available(x)' \subseteq Workers
    BY DEF Available, ForPath, TypeOK
<1>5. /\ Open(x) = {w \in Available(x) : Load(w) < 1}
      /\ Open(x)' = {w \in Available(x)' : Load(w)' < 1}
    BY DEF Open
<1> QED
    BY <1>1, <1>2, <1>3, <1>4, <1>5

(* A step that only leases, stops, retires or unlists workers of a file    *)
(* gives it no place it did not have before.                               *)
LEMMA FewerPlaces ==
    ASSUME Concurrency = 1, TypeOK, TypeOK', OneRequestEach, OneRequestEach', NEW x \in Paths,
           \A w \in listed' : workerPath'[w] = x /\ IsIdle(w)' =>
               /\ w \in listed /\ workerPath[w] = x /\ IsIdle(w)
               /\ proc'[w] \in {"up", "signalled"} => proc[w] \in {"up", "signalled"}
               /\ w \in stopping => w \in stopping'
               /\ w \in retired => w \in retired'
    PROVE  Open(x)' \subseteq Open(x)
<1> SUFFICES ASSUME NEW w \in Open(x)' PROVE w \in Open(x)
    OBVIOUS
<1>1. w \in Available(x)' /\ IsIdle(w)'
    BY OpenIsIdle
<1>2. /\ w \in listed' /\ workerPath'[w] = x /\ proc'[w] \in {"up", "signalled"}
      /\ w \notin stopping' /\ w \notin retired'
    BY <1>1 DEF Available, ForPath
<1>3. w \in Available(x) /\ IsIdle(w)
    BY <1>1, <1>2 DEF Available, ForPath
<1> QED
    BY <1>3, OpenIsIdle

(* What a request or a warm path starts is a worker of its own file, in a  *)
(* slot that nothing is known of.                                          *)
LEMMA CreateWorkerPlaces ==
    ASSUME Safe, NEW w \in Workers, NEW y \in Paths, NEW L \in SUBSET listed,
           NEW holders \in SUBSET Requests, CreateWorker(w, y, L, holders), stopping \subseteq stopping'
    PROVE  \A x \in Paths, u \in listed' : workerPath'[u] = x /\ (x # y \/ u # w) =>
               /\ u \in listed /\ workerPath[u] = x /\ leases'[u] = leases[u] /\ proc'[u] = proc[u]
               /\ u \in stopping => u \in stopping'
               /\ u \in retired => u \in retired'
BY DEF CreateWorker, Safe, TypeOK, SlotsAreClean

LEMMA GetWorkerOne ==
    ASSUME Safe, OneRequestEach, Concurrency = 1, NEW r \in Requests, GetWorker(r)
    PROVE  OneRequestEach'
<1>0. TypeOK /\ PathOf[r] \in Paths
    BY PoolsOfThings DEF Safe
<1>1. CASE TakeListed(r)
  <2>1. PICK w \in LeastLoaded(PathOf[r]) : leases' = [leases EXCEPT ![w] = @ \cup {r}]
      BY <1>1 DEF TakeListed
  <2>2. w \in Workers /\ leases[w] = {}
      BY <1>0, OpenIsIdle DEF LeastLoaded, Available, ForPath, IsIdle, TypeOK
  <2>3. leases' = [leases EXCEPT ![w] = {r}]
      BY <2>1, <2>2
  <2> QED
      BY <1>0, <2>2, <2>3 DEF OneRequestEach, IsIdle, TypeOK
<1>2. CASE TakeNew(r) \/ TakeRoom(r)
  <2>1. PICK w \in Workers : leases' = [leases EXCEPT ![w] = {r}]
      BY <1>2 DEF TakeNew, TakeRoom, CreateWorker
  <2> QED
      BY <1>0, <2>1 DEF OneRequestEach, IsIdle, TypeOK
<1> QED
    BY <1>1, <1>2 DEF GetWorker

LEMMA OneRequestStep ==
    Safe /\ OneRequestEach /\ Concurrency = 1 /\ [Next]_vars => OneRequestEach'
<1> SUFFICES ASSUME Safe, OneRequestEach, Concurrency = 1, [Next]_vars
             PROVE  OneRequestEach'
    OBVIOUS
<1>1. CASE leases' = leases
    BY <1>1 DEF OneRequestEach, IsIdle
<1>2. CASE \E r \in Requests : GetWorker(r)
    BY <1>2, GetWorkerOne
<1>3. CASE \E r \in Requests, w \in Workers : Release(r, w)
  <2>1. PICK r \in Requests, w \in Workers : leases' = [leases EXCEPT ![w] = @ \ {r}]
      BY <1>3 DEF Release
  <2>2. \A u \in Workers : leases'[u] = IF u = w THEN leases[u] \ {r} ELSE leases[u]
      BY <2>1 DEF Safe, TypeOK
  <2> QED
      BY <2>2 DEF OneRequestEach, IsIdle
<1>4. CASE \E w \in Workers : Close(w)
  <2>1. PICK w \in Workers : leases' = [leases EXCEPT ![w] = {}]
      BY <1>4 DEF Close
  <2>2. \A u \in Workers : leases'[u] = IF u = w THEN {} ELSE leases[u]
      BY <2>1 DEF Safe, TypeOK
  <2> QED
      BY <2>2 DEF OneRequestEach, IsIdle
<1>5. CASE \E x \in Paths : WarmStart(x)
  <2>1. PICK w \in Workers : leases' = [leases EXCEPT ![w] = {}]
      BY <1>5 DEF WarmStart, CreateWorker
  <2>2. \A u \in Workers : leases'[u] = IF u = w THEN {} ELSE leases[u]
      BY <2>1 DEF Safe, TypeOK
  <2> QED
      BY <2>2 DEF OneRequestEach, IsIdle
<1>6. /\ Offer => Head(offering) \in Requests
      /\ \A r \in Requests : GetsNone(r) => leases' = leases
    BY DEF Offer, GetsNone, GetNothing, SpawnFails, Safe, TypeOK, workerVars
<1>7. CASE \E r \in Requests : Acquire(r)
    BY <1>1, <1>2, <1>6, <1>7 DEF Acquire, GetsNone, workerVars
<1>8. CASE Offer
    BY <1>1, <1>2, <1>6, <1>8 DEF Offer, GetsNone, workerVars
<1>9. CASE RestOfTurn
    BY <1>1, <1>5, <1>8, <1>9
    DEF RestOfTurn, WakeLine, StopIdle, CheckDisposed, WarmFails, WarmDone, Refill, workerVars
<1>10. CASE UNCHANGED vars
    BY <1>1, <1>10 DEF vars, workerVars
<1>11. CASE \E r \in Requests : LeaveLine(r) \/ ReleaseLost(r)
    BY <1>1, <1>11 DEF LeaveLine, ReleaseLost, workerVars
<1>12. CASE \E r \in Requests, w \in Workers : Kill(r, w)
    BY <1>1, <1>12 DEF Kill
<1>13. CASE \E w \in Workers : Ready(w) \/ StartTimeout(w) \/ KillAfter(w) \/ AgeTimeout(w)
    BY <1>1, <1>13 DEF Ready, StartTimeout, KillAfter, AgeTimeout
<1>14. CASE \E w \in Workers : IdleTimeout(w) \/ UptimeStable(w) \/ Exit(w)
    BY <1>1, <1>14 DEF IdleTimeout, UptimeStable, Exit
<1>15. CASE \E x \in Paths : BackoffOver(x) \/ Warm(x) \/ KeepWarm(x) \/ RefillTimer(x)
    BY <1>1, <1>15 DEF BackoffOver, Warm, KeepWarm, RefillTimer, workerVars
<1>16. CASE \E p \in Pools : Dispose(p) \/ DisposeTimeout(p)
    BY <1>1, <1>16 DEF Dispose, DisposeTimeout
<1> QED
    BY <1>3, <1>4, <1>7, <1>9, <1>10, <1>11, <1>12, <1>13, <1>14, <1>15, <1>16 DEF Next

LEMMA WarmedStep ==
    /\ TypeOK /\ OneWarmed /\ [Next]_vars => OneWarmed'
    /\ TypeOK /\ NothingWarmed /\ WarmsNothing /\ [Next]_vars => NothingWarmed'
<1>1. ASSUME [Next]_vars
      PROVE  warming' = warming \/ warming' = {} \/ \E x : warming' = {x}
  <2>1. CASE RestOfTurn
      BY <2>1 DEF RestOfTurn, WakeLine, Offer, StopIdle, CheckDisposed, WarmStart, WarmFails,
                  WarmDone, Refill, turnVars
  <2>2. CASE UNCHANGED vars
      BY <2>2 DEF vars, turnVars
  <2>3. CASE Next /\ ~RestOfTurn
      BY <2>3 DEF Next, Acquire, LeaveLine, ReleaseLost, Release, Kill, Ready, StartTimeout, KillAfter,
                  AgeTimeout, IdleTimeout, UptimeStable, Exit, Close, BackoffOver, Warm, KeepWarm,
                  RefillTimer, Dispose, DisposeTimeout, AfterRelease, NothingLeft, turnVars
  <2> QED
      BY <1>1, <2>1, <2>2, <2>3
<1>2. ASSUME TypeOK, NothingWarmed, WarmsNothing, [Next]_vars
      PROVE  NothingWarmed'
  <2>1. minimums = [p \in Pools |-> <<>>] /\ refillTimers = {} /\ warming = {} /\ refilling = <<>>
      BY <1>2 DEF NothingWarmed
  <2>2. CASE RestOfTurn
    <3>1. UNCHANGED <<minimums, refillTimers, warming, refilling>>
        BY <2>1, <2>2 DEF RestOfTurn, WakeLine, Offer, StopIdle, CheckDisposed, WarmStart, WarmFails,
                    WarmDone, Refill, lifeVars
    <3> QED
        BY <2>1, <3>1 DEF NothingWarmed
  <2>3. CASE \E w \in Workers : Close(w)
    <3>1. PICK w \in Workers : Close(w)
        BY <2>3
    <3>2. PoolOfWorker(w) \in Pools
        BY <1>2, PoolsOfThings, TypedParts
    <3>3. refilling' = <<>> /\ UNCHANGED <<minimums, refillTimers, warming>>
        BY <2>1, <3>1, <3>2 DEF Close, lifeVars
    <3> QED
        BY <2>1, <3>3 DEF NothingWarmed
  <2>4. CASE \E p \in Pools : Dispose(p) \/ DisposeTimeout(p)
    <3>1. minimums' = minimums /\ refillTimers' = {} /\ UNCHANGED <<warming, refilling>>
        BY <2>1, <2>4 DEF Dispose, DisposeTimeout, StopKeepingWarm, NothingLeft, turnVars
    <3> QED
        BY <2>1, <3>1 DEF NothingWarmed
  <2>5. CASE UNCHANGED vars
      BY <2>1, <2>5 DEF vars, turnVars, lifeVars, NothingWarmed
  <2>6. CASE /\ Next /\ ~RestOfTurn /\ ~(\E w \in Workers : Close(w))
             /\ ~(\E p \in Pools : Dispose(p) \/ DisposeTimeout(p))
    <3>1. UNCHANGED <<minimums, refillTimers, warming, refilling>>
        BY <1>2, <2>1, <2>6
        DEF Next, Acquire, LeaveLine, ReleaseLost, Release, Kill, Ready, StartTimeout, KillAfter,
            AgeTimeout, IdleTimeout, UptimeStable, Exit, BackoffOver, Warm, KeepWarm,
            RefillTimer, AfterRelease, NothingLeft, turnVars, lifeVars, WarmsNothing
    <3> QED
        BY <2>1, <3>1 DEF NothingWarmed
  <2> QED
      BY <1>2, <2>2, <2>3, <2>4, <2>5, <2>6
<1> QED
    BY <1>1, <1>2 DEF OneWarmed

(* A spawn that fails in the middle of warming a path leaves the line of   *)
(* its pool unwoken, although a worker may have been started before it.    *)
WarmStartsSucceed == "spawnFails" \notin Happens \/ WarmsNothing

(* What the steps start from.                                              *)
PlacesHold ==
    /\ Safe /\ Safe' /\ PlacesInv /\ OneRequestEach'
    /\ Concurrency = 1 /\ WarmStartsSucceed

(* A request that asks for a worker leaves fewer places than there were,   *)
(* and one that is to wait leaves none for its file.                       *)
LEMMA GetWorkerPlaces ==
    ASSUME PlacesHold, NEW r \in Requests, GetWorker(r) \/ GetsNone(r) \/ UNCHANGED workerVars
    PROVE  \A x \in Paths : Open(x)' \subseteq Open(x)
<1>0. /\ Safe /\ TypeOK /\ TypeOK' /\ OneRequestEach /\ OneRequestEach' /\ Concurrency = 1
      /\ PathOf[r] \in Paths /\ PoolOf[PathOf[r]] \in Pools
    BY PoolsOfThings DEF PlacesHold, PlacesInv, Safe
<1>1. CASE TakeListed(r)
  <2>1. PICK w \in LeastLoaded(PathOf[r]) : leases' = [leases EXCEPT ![w] = @ \cup {r}]
      BY <1>1 DEF TakeListed
  <2>2. UNCHANGED <<proc, workerPath, listed, stopping, retired>>
      BY <1>1 DEF TakeListed
  <2>3. \A u \in Workers : IsIdle(u)' => IsIdle(u)
      BY <1>0, <2>1 DEF IsIdle, TypeOK
  <2>4. listed \subseteq Workers
      BY <1>0 DEF TypeOK
  <2> QED
      BY <1>0, <2>2, <2>3, <2>4, FewerPlaces
<1>2. CASE TakeNew(r) \/ TakeRoom(r)
  <2>1. PICK w \in Workers, L \in SUBSET listed :
            CreateWorker(w, PathOf[r], L, {r}) /\ stopping \subseteq stopping'
    <3>1. CASE TakeNew(r)
        BY <3>1 DEF TakeNew
    <3>2. CASE TakeRoom(r)
      <4>1. PICK v \in Victims(PoolOf[PathOf[r]]), w \in Workers :
                CreateWorker(w, PathOf[r], listed \ {v}, {r}) /\ stopping' = stopping \cup {v}
          BY <3>2 DEF TakeRoom
      <4> QED
          BY <4>1
    <3> QED
        BY <1>2, <3>1, <3>2
  <2>2. ~IsIdle(w)'
      BY <1>0, <2>1 DEF CreateWorker, IsIdle, TypeOK
  <2>3. \A x \in Paths, u \in listed' : workerPath'[u] = x /\ (x # PathOf[r] \/ u # w) =>
            /\ u \in listed /\ workerPath[u] = x /\ leases'[u] = leases[u] /\ proc'[u] = proc[u]
            /\ u \in stopping => u \in stopping'
            /\ u \in retired => u \in retired'
      BY <1>0, <2>1, CreateWorkerPlaces
  <2>4. ASSUME NEW x \in Paths, NEW u \in listed', workerPath'[u] = x, IsIdle(u)'
        PROVE  /\ u \in listed /\ workerPath[u] = x /\ IsIdle(u)
               /\ proc'[u] \in {"up", "signalled"} => proc[u] \in {"up", "signalled"}
               /\ u \in stopping => u \in stopping'
               /\ u \in retired => u \in retired'
      BY <2>2, <2>3, <2>4 DEF IsIdle
  <2> QED
      BY <1>0, <2>4, FewerPlaces
<1>3. CASE GetsNone(r) \/ UNCHANGED workerVars
  <2>1. listed' \subseteq listed /\ stopping \subseteq stopping' /\ UNCHANGED <<proc, workerPath, leases, retired>>
      BY <1>3 DEF GetsNone, GetNothing, SpawnFails, workerVars
  <2>2. \A u : IsIdle(u)' <=> IsIdle(u)
      BY <2>1 DEF IsIdle
  <2> QED
      BY <1>0, <2>1, <2>2, FewerPlaces
<1> QED
    BY <1>1, <1>2, <1>3 DEF GetWorker

LEMMA NothingToGet ==
    \A r \in Requests : GetNothing(r) => Open(PathOf[r]) = {}
BY DEF GetNothing, Waits, Shares, Evicts, Open

(* The queue of a request that asked: as it was, or with it at the end     *)
(* when there was no place for it.                                         *)
LEMMA AskedPlaces ==
    ASSUME PlacesHold, NEW r \in Requests, GetWorker(r) \/ GetsNone(r) \/ UNCHANGED workerVars,
           \/ queue' = queue
           \/ GetNothing(r) /\ queue' = [queue EXCEPT ![PoolOfRequest(r)] = Append(@, r)],
           UNCHANGED <<waking, warming>>
    PROVE  PlacesAreKnown'
<1>0. /\ TypeOK /\ TypeOK' /\ PlacesAreKnown /\ PathOf[r] \in Paths /\ PoolOfRequest(r) \in Pools
    BY PoolsOfThings DEF PlacesHold, PlacesInv, Safe
<1>1. \A x \in Paths : Open(x)' \subseteq Open(x)
    BY GetWorkerPlaces
<1>2. \A p \in Pools : Covered(p)' <=> Covered(p)
    BY DEF Covered
<1>3. ASSUME NEW p \in Pools, NEW s \in InLineOf(p)'
      PROVE  s \in InLineOf(p) \/ (PoolOfRequest(s) = p /\ Open(PathOf[s])' = {})
  <2>1. queue \in [Pools -> Seq(Requests)]
      BY <1>0 DEF TypeOK
  <2>2. CASE queue' = queue
      BY <1>0, <1>3, <2>1, <2>2, LinesOf
  <2>3. CASE GetNothing(r) /\ queue' = [queue EXCEPT ![PoolOfRequest(r)] = Append(@, r)]
    <3>1. s \in InLineOf(p) \/ (p = PoolOfRequest(r) /\ s = r)
        BY <1>0, <1>3, <2>1, <2>3, LinesOf
    <3>2. Open(PathOf[r])' = {}
        BY <1>0, <1>1, <2>3, NothingToGet
    <3> QED
        BY <3>1, <3>2
  <2> QED
      BY <2>2, <2>3
<1> QED
    BY <1>0, <1>1, <1>2, <1>3, PlacesStayKnown

(* A step that takes places away and lets requests leave the line.         *)
LEMMA FewerPlacesKnown ==
    ASSUME PlacesHold, \A x \in Paths : Open(x)' \subseteq Open(x),
           \A p \in Pools : InLineOf(p)' \subseteq InLineOf(p),
           \A p \in Pools : Covered(p) => Covered(p)' \/ InLineOf(p)' = {}
    PROVE  PlacesAreKnown'
<1>1. TypeOK /\ TypeOK' /\ PlacesAreKnown
    BY DEF PlacesHold, PlacesInv, Safe
<1> QED
    BY <1>1, PlacesStayKnown

(* No worker gets idle, is listed anew or comes up again.                  *)
LEMMA NoNewPlaces ==
    ASSUME PlacesHold, listed' \subseteq listed, stopping \subseteq stopping', retired \subseteq retired',
           UNCHANGED <<workerPath, leases>>,
           \A w \in Workers : proc'[w] \in {"up", "signalled"} => proc[w] \in {"up", "signalled"}
    PROVE  \A x \in Paths : Open(x)' \subseteq Open(x)
<1>1. /\ TypeOK /\ TypeOK' /\ OneRequestEach /\ OneRequestEach' /\ Concurrency = 1
      /\ listed \subseteq Workers
    BY DEF PlacesHold, PlacesInv, Safe, TypeOK
<1>2. \A w : IsIdle(w)' <=> IsIdle(w)
    BY DEF IsIdle
<1> QED
    BY <1>1, <1>2, FewerPlaces

LEMMA SameLines ==
    queue' = queue => \A p \in Pools : InLineOf(p)' = InLineOf(p)
BY DEF InLineOf

LEMMA RequestStepsPlaces ==
    ASSUME PlacesHold, NEW r \in Requests, Acquire(r) \/ LeaveLine(r) \/ ReleaseLost(r)
    PROVE  PlacesAreKnown'
<1>1. CASE Acquire(r)
  <2>1. /\ GetWorker(r) \/ GetsNone(r) \/ UNCHANGED workerVars
        /\ UNCHANGED <<waking, warming>>
        /\ \/ queue' = queue
           \/ GetNothing(r) /\ queue' = [queue EXCEPT ![PoolOfRequest(r)] = Append(@, r)]
      BY <1>1 DEF Acquire, GetsNone, NothingLeft, turnVars
  <2> QED
      BY <2>1, AskedPlaces
<1>2. CASE LeaveLine(r) \/ ReleaseLost(r)
  <2>1. UNCHANGED workerVars /\ \A p \in Pools : ~Covered(p)
      BY <1>2, NothingCovered DEF LeaveLine, ReleaseLost
  <2>2. \A p \in Pools : InLineOf(p)' \subseteq InLineOf(p)
    <3>1. queue \in [Pools -> Seq(Requests)] /\ PoolOfRequest(r) \in Pools
        BY PoolsOfThings DEF PlacesHold, Safe, TypeOK
    <3>2. CASE ReleaseLost(r)
        BY <3>2, SameLines DEF ReleaseLost
    <3>3. CASE LeaveLine(r)
        BY <3>1, <3>3, LinesOf DEF LeaveLine
    <3> QED
        BY <1>2, <3>2, <3>3
  <2>3. \A x \in Paths : Open(x)' \subseteq Open(x)
      BY <2>1, NoNewPlaces DEF workerVars
  <2> QED
      BY <2>1, <2>2, <2>3, FewerPlacesKnown
<1> QED
    BY <1>1, <1>2

(* The worker of a released lease may have a place; its own line is woken. *)
LEMMA LeaseStepsPlaces ==
    ASSUME PlacesHold, NEW r \in Requests, NEW w \in Workers, Release(r, w) \/ Kill(r, w)
    PROVE  PlacesAreKnown'
<1>0. /\ TypeOK /\ TypeOK' /\ OneRequestEach /\ OneRequestEach' /\ Concurrency = 1 /\ PlacesAreKnown
      /\ workerPath[w] \in Paths /\ PoolOfWorker(w) \in Pools
    BY PoolsOfThings, TypedParts DEF PlacesHold, PlacesInv, Safe
<1>1. \A p \in Pools : ~Covered(p) /\ InLineOf(p)' = InLineOf(p)
    BY NothingCovered, SameLines DEF Release, Kill, lineVars
<1>2. CASE Kill(r, w)
  <2>1. \A x \in Paths : Open(x)' \subseteq Open(x)
      BY <1>2, NoNewPlaces DEF Kill
  <2> QED
      BY <1>1, <2>1, FewerPlacesKnown
<1>3. CASE Release(r, w)
  <2>1. /\ leases' = [leases EXCEPT ![w] = @ \ {r}] /\ UNCHANGED <<proc, workerPath, listed, retired>>
        /\ stopping \subseteq stopping' /\ queue' = queue
        /\ waking' = {q \in {PoolOfWorker(w)} \cup members : queue[q] # <<>>}
      BY <1>3 DEF Release, AfterRelease, WakeWaiting, lineVars
  <2>2. \A u \in Workers \ {w} : IsIdle(u)' <=> IsIdle(u)
      BY <1>0, <2>1 DEF IsIdle, TypeOK
  <2>3. ASSUME NEW x \in Paths, x # workerPath[w] PROVE Open(x)' \subseteq Open(x)
    <3>1. listed \subseteq Workers
        BY <1>0 DEF TypeOK
    <3> QED
        BY <1>0, <2>1, <2>2, <2>3, <3>1, FewerPlaces
  <2>4. \A x \in Paths : Open(x)' \subseteq Open(x) \/ Covered(PoolOf[x])' \/ InLineOf(PoolOf[x])' = {}
    <3> SUFFICES ASSUME NEW x \in Paths
                 PROVE  Open(x)' \subseteq Open(x) \/ Covered(PoolOf[x])' \/ InLineOf(PoolOf[x])' = {}
        OBVIOUS
    <3>1. CASE x = workerPath[w]
      <4>1. PoolOf[x] = PoolOfWorker(w)
          BY <3>1 DEF PoolOfWorker
      <4>2. waking' = {q \in {PoolOf[x]} \cup members : queue[q] # <<>>}
          BY <2>1, <4>1
      <4>3. PoolOf[x] \in waking' \/ queue[PoolOf[x]] = <<>>
          BY <4>2
      <4>4. CASE PoolOf[x] \in waking'
          BY <4>4 DEF Covered
      <4>5. CASE queue[PoolOf[x]] = <<>>
          BY <2>1, <4>5 DEF InLineOf
      <4> QED
          BY <4>3, <4>4, <4>5
    <3>2. CASE x # workerPath[w]
        BY <2>3, <3>2
    <3> QED
        BY <3>1, <3>2
  <2> QED
      BY <1>0, <1>1, <2>4, PlacesStayKnown
<1> QED
    BY <1>2, <1>3

LEMMA WorkerStepsPlaces ==
    ASSUME PlacesHold, NEW w \in Workers,
           \/ Ready(w) \/ StartTimeout(w) \/ KillAfter(w) \/ AgeTimeout(w)
           \/ IdleTimeout(w) \/ UptimeStable(w) \/ Exit(w) \/ Close(w)
    PROVE  PlacesAreKnown'
<1>0. /\ TypeOK /\ TypeOK' /\ OneRequestEach /\ OneRequestEach' /\ Concurrency = 1
    BY DEF PlacesHold, PlacesInv, Safe
<1>1. \A p \in Pools : ~Covered(p)
    BY NothingCovered DEF Ready, StartTimeout, KillAfter, AgeTimeout, IdleTimeout, UptimeStable, Exit, Close
<1>2. \A p \in Pools : InLineOf(p)' = InLineOf(p)
    BY SameLines
    DEF Ready, StartTimeout, KillAfter, AgeTimeout, IdleTimeout, UptimeStable, Exit, Close, lineVars
<1>3. CASE Ready(w) \/ StartTimeout(w) \/ KillAfter(w) \/ UptimeStable(w)
  <2>1. \A x \in Paths : Open(x)' \subseteq Open(x)
      BY <1>3, NoNewPlaces DEF Ready, StartTimeout, KillAfter, UptimeStable
  <2> QED
      BY <1>1, <1>2, <2>1, FewerPlacesKnown
<1>4. CASE AgeTimeout(w) \/ IdleTimeout(w)
  <2>1. \A x \in Paths : Open(x)' \subseteq Open(x)
      BY <1>4, NoNewPlaces DEF AgeTimeout, IdleTimeout
  <2> QED
      BY <1>1, <1>2, <2>1, FewerPlacesKnown
<1>5. CASE Exit(w)
  <2>1. PICK how \in Ends : proc' = [proc EXCEPT ![w] = how]
      BY <1>5 DEF Exit
  <2>2. /\ proc[w] = "up" /\ \A u \in Workers : proc'[u] = proc[u] \/ u = w
        /\ UNCHANGED <<listed, stopping, retired, workerPath, leases>>
      BY <1>0, <1>5, <2>1 DEF Exit, TypeOK
  <2>3. \A x \in Paths : Open(x)' \subseteq Open(x)
      BY <2>2, NoNewPlaces
  <2> QED
      BY <1>1, <1>2, <2>3, FewerPlacesKnown
<1>6. CASE Close(w)
  <2>1. /\ listed' = listed \ {w} /\ leases' = [leases EXCEPT ![w] = {}]
        /\ proc' = [proc EXCEPT ![w] = "none"] /\ workerPath' = [workerPath EXCEPT ![w] = AnyPath]
        /\ stopping' = stopping \ {w} /\ retired' = retired \ {w}
      BY <1>6 DEF Close
  <2>2. \A u \in listed' : /\ u \in listed /\ workerPath'[u] = workerPath[u]
                           /\ leases'[u] = leases[u] /\ proc'[u] = proc[u]
                           /\ u \in stopping => u \in stopping'
                           /\ u \in retired => u \in retired'
      BY <1>0, <2>1 DEF TypeOK
  <2>3. \A u \in listed' : IsIdle(u)' <=> IsIdle(u)
      BY <2>2 DEF IsIdle
  <2>4. \A x \in Paths : Open(x)' \subseteq Open(x)
      BY <1>0, <2>2, <2>3, FewerPlaces
  <2> QED
      BY <1>1, <1>2, <2>4, FewerPlacesKnown
<1> QED
    BY <1>3, <1>4, <1>5, <1>6

LEMMA OwnerStepsPlaces ==
    ASSUME PlacesHold, NEW x \in Paths, NEW p \in Pools,
           \/ BackoffOver(x) \/ Warm(x) \/ KeepWarm(x) \/ RefillTimer(x)
           \/ Dispose(p) \/ DisposeTimeout(p)
    PROVE  PlacesAreKnown'
<1>1. \A q \in Pools : ~Covered(q)
    BY NothingCovered DEF BackoffOver, Warm, KeepWarm, RefillTimer, Dispose, DisposeTimeout
<1>2. \A q \in Pools : InLineOf(q)' = InLineOf(q)
    BY SameLines DEF BackoffOver, Warm, KeepWarm, RefillTimer, Dispose, DisposeTimeout, lineVars
<1>3. /\ stopping \subseteq stopping'
      /\ UNCHANGED <<proc, workerPath, listed, leases, retired>>
    BY DEF BackoffOver, Warm, KeepWarm, RefillTimer, Dispose, DisposeTimeout, workerVars
<1>4. \A y \in Paths : Open(y)' \subseteq Open(y)
    BY <1>3, NoNewPlaces
<1> QED
    BY <1>1, <1>2, <1>4, FewerPlacesKnown

LEMMA RestOfTurnPlaces ==
    ASSUME PlacesHold, RestOfTurn
    PROVE  PlacesAreKnown'
<1>0. /\ TypeOK /\ TypeOK' /\ OneRequestEach /\ OneRequestEach' /\ Concurrency = 1
      /\ PlacesAreKnown /\ OneWarmed /\ queue \in [Pools -> Seq(Requests)]
    BY DEF PlacesHold, PlacesInv, Safe, TypeOK
<1>1. ASSUME NEW p \in Pools, WakeLine(p) PROVE PlacesAreKnown'
  <2>1. /\ queue' = [queue EXCEPT ![p] = <<>>] /\ waking' = waking \ {p} /\ warming' = warming
        /\ UNCHANGED workerVars
      BY <1>1 DEF WakeLine
  <2>2. InLineOf(p)' = {} /\ \A q \in Pools : InLineOf(q)' \subseteq InLineOf(q)
      BY <1>0, <2>1, LinesOf
  <2>3. \A q \in Pools : Covered(q) => Covered(q)' \/ q = p
      BY <2>1 DEF Covered
  <2>4. \A x \in Paths : Open(x)' \subseteq Open(x)
      BY <2>1, NoNewPlaces DEF workerVars
  <2> QED
      BY <2>2, <2>3, <2>4, FewerPlacesKnown
<1>2. CASE Offer
  <2> DEFINE r == Head(offering)
  <2>1. r \in Requests
      BY <1>0, <1>2 DEF TypeOK, Offer
  <2>2. /\ GetWorker(r) \/ GetsNone(r) \/ UNCHANGED workerVars
        /\ UNCHANGED <<waking, warming>>
        /\ \/ queue' = queue
           \/ GetNothing(r) /\ queue' = [queue EXCEPT ![PoolOfRequest(r)] = Append(@, r)]
      BY <1>2 DEF Offer, GetsNone
  <2> HIDE DEF r
  <2> QED
      BY <2>1, <2>2, AskedPlaces
<1>3. CASE StopIdle \/ CheckDisposed
  <2>1. /\ stopping \subseteq stopping' /\ UNCHANGED <<proc, workerPath, listed, leases, retired>>
        /\ UNCHANGED <<waking, warming, queue>>
      BY <1>3 DEF StopIdle, CheckDisposed, workerVars, lineVars
  <2>2. \A x \in Paths : Open(x)' \subseteq Open(x)
      BY <2>1, NoNewPlaces
  <2>3. \A q \in Pools : (Covered(q)' <=> Covered(q)) /\ InLineOf(q)' = InLineOf(q)
      BY <2>1 DEF Covered, InLineOf
  <2> QED
      BY <2>2, <2>3, FewerPlacesKnown
<1>4. ASSUME NEW x \in Paths, WarmStart(x) PROVE PlacesAreKnown'
  <2>1. PICK w \in Workers : CreateWorker(w, x, listed, {})
      BY <1>4 DEF WarmStart
  <2>2. stopping' = stopping /\ UNCHANGED <<waking, warming, queue>> /\ x \in warming
      BY <1>4 DEF WarmStart, turnVars, lineVars
  <2>3. \A q \in Pools : (Covered(q)' <=> Covered(q)) /\ InLineOf(q)' = InLineOf(q)
      BY <2>2 DEF Covered, InLineOf
  <2>4. Covered(PoolOf[x])'
      BY <2>2 DEF Covered
  <2>5. ASSUME NEW y \in Paths, y # x PROVE Open(y)' \subseteq Open(y)
    <3>1. Safe /\ listed \in SUBSET listed /\ {} \in SUBSET Requests /\ stopping \subseteq stopping'
        BY <2>2 DEF PlacesHold
    <3>2. \A u \in listed' : workerPath'[u] = y =>
              /\ u \in listed /\ workerPath[u] = y /\ leases'[u] = leases[u] /\ proc'[u] = proc[u]
              /\ u \in stopping => u \in stopping'
              /\ u \in retired => u \in retired'
        BY <2>1, <2>5, <3>1, CreateWorkerPlaces
    <3>3. \A u \in listed' : workerPath'[u] = y /\ IsIdle(u)' => IsIdle(u)
        BY <3>2 DEF IsIdle
    <3> QED
        BY <1>0, <3>2, <3>3, FewerPlaces
  <2> QED
      BY <1>0, <2>3, <2>4, <2>5, PlacesStayKnown
<1>5. ASSUME NEW x \in Paths, WarmDone(x) PROVE PlacesAreKnown'
  <2>1. /\ waking = {} /\ x \in warming /\ waking' = {q \in {PoolOf[x]} : queue[q] # <<>>}
        /\ queue' = queue /\ UNCHANGED workerVars
      BY <1>5 DEF WarmDone, LinesServed, WakeUp, lineVars
  <2>2. warming = {x}
      BY <1>0, <2>1 DEF OneWarmed
  <2>3. \A q \in Pools : Covered(q) => Covered(q)' \/ InLineOf(q)' = {}
      BY <2>1, <2>2 DEF Covered, InLineOf
  <2>4. \A y \in Paths : Open(y)' \subseteq Open(y)
      BY <2>1, NoNewPlaces DEF workerVars
  <2>5. \A q \in Pools : InLineOf(q)' \subseteq InLineOf(q)
      BY <2>1, SameLines
  <2> QED
      BY <2>3, <2>4, <2>5, FewerPlacesKnown
<1>6. CASE Refill
  <2>1. waking = {} /\ warming = {} /\ queue' = queue /\ UNCHANGED workerVars
      BY <1>6 DEF Refill, LinesServed, lineVars
  <2>2. \A q \in Pools : ~Covered(q) /\ InLineOf(q)' \subseteq InLineOf(q)
      BY <2>1, SameLines DEF Covered
  <2>3. \A y \in Paths : Open(y)' \subseteq Open(y)
      BY <2>1, NoNewPlaces DEF workerVars
  <2> QED
      BY <2>2, <2>3, FewerPlacesKnown
<1>7. ASSUME NEW x \in Paths PROVE ~WarmFails(x)
    BY DEF WarmFails, PlacesHold, PlacesInv, WarmStartsSucceed, NothingWarmed
<1> QED
    BY <1>1, <1>2, <1>3, <1>4, <1>5, <1>6, <1>7 DEF RestOfTurn

LEMMA PlacesStep ==
    ASSUME Concurrency = 1, WarmStartsSucceed
    PROVE  Safe /\ PlacesInv /\ [Next]_vars => PlacesInv'
<1> SUFFICES ASSUME Safe, PlacesInv, [Next]_vars PROVE PlacesInv'
    OBVIOUS
<1>1. OneRequestEach' /\ OneWarmed' /\ (WarmsNothing => NothingWarmed')
    BY OneRequestStep, WarmedStep DEF PlacesInv, Safe
<1>2. PlacesHold
    BY <1>1, SafeStep DEF PlacesHold
<1>3. PlacesAreKnown'
  <2>1. CASE UNCHANGED vars
    <3>1. /\ UNCHANGED <<proc, workerPath, listed, leases, retired, stopping>>
          /\ UNCHANGED <<waking, warming, queue>>
        BY <2>1 DEF vars, workerVars, lineVars, turnVars
    <3>2. \A q \in Pools : (Covered(q)' <=> Covered(q)) /\ InLineOf(q)' = InLineOf(q)
        BY <3>1 DEF Covered, InLineOf
    <3>3. \A x \in Paths : Open(x)' \subseteq Open(x)
        BY <1>2, <3>1, NoNewPlaces
    <3> QED
        BY <1>2, <3>2, <3>3, FewerPlacesKnown
  <2>2. CASE Next
    <3>1. CASE \E r \in Requests : Acquire(r) \/ LeaveLine(r) \/ ReleaseLost(r)
        BY <1>2, <3>1, RequestStepsPlaces
    <3>2. CASE \E r \in Requests, w \in Workers : Release(r, w) \/ Kill(r, w)
        BY <1>2, <3>2, LeaseStepsPlaces
    <3>3. CASE \E w \in Workers : \/ Ready(w) \/ StartTimeout(w) \/ KillAfter(w) \/ AgeTimeout(w)
                                  \/ IdleTimeout(w) \/ UptimeStable(w) \/ Exit(w) \/ Close(w)
        BY <1>2, <3>3, WorkerStepsPlaces
    <3>4. CASE \E x \in Paths : BackoffOver(x) \/ Warm(x) \/ KeepWarm(x) \/ RefillTimer(x)
        BY <1>2, <3>4, OwnerStepsPlaces, SetsAssumption
    <3>5. CASE \E p \in Pools : Dispose(p) \/ DisposeTimeout(p)
        BY <1>2, <3>5, OwnerStepsPlaces, SetsAssumption
    <3>6. CASE RestOfTurn
        BY <1>2, <3>6, RestOfTurnPlaces
    <3> QED
        BY <2>2, <3>1, <3>2, <3>3, <3>4, <3>5, <3>6 DEF Next
  <2> QED
      BY <2>1, <2>2
<1> QED
    BY <1>1, <1>3 DEF PlacesInv

LEMMA InitPlaces == Init => PlacesInv
BY DEF Init, PlacesInv, PlacesAreKnown, InLineOf, OneRequestEach, IsIdle, OneWarmed, NothingWarmed

LEMMA PlacesEnough == TypeOK /\ PlacesInv => NoPlaceWasted
<1> SUFFICES ASSUME TypeOK, PlacesInv, Quiet, NEW p \in members, NEW i \in DOMAIN queue[p]
             PROVE  Open(PathOf[queue[p][i]]) = {}
    BY DEF NoPlaceWasted
<1>1. p \in Pools /\ queue[p][i] \in InLineOf(p)
    BY DEF TypeOK, InLineOf
<1> QED
    BY <1>1, NothingCovered DEF PlacesInv, PlacesAreKnown

(* A worker that takes one request at a time, as a lambda does: nobody     *)
(* waits for a file while a worker of it has a place, whatever freed it or *)
(* started it, in which order requests come, workers end and pools join in *)
(* the waking.  It needs that no spawn fails while a path is warmed.       *)
THEOREM PlacesAreUsed ==
    ASSUME Concurrency = 1, WarmStartsSucceed
    PROVE  Spec => []NoPlaceWasted
<1>1. Spec => []Safe
    BY InitSafe, SafeStep, PTL DEF Spec
<1>2. Safe /\ PlacesInv /\ [Next]_vars => PlacesInv'
    BY PlacesStep
<1>3. Safe => TypeOK
    BY DEF Safe
<1> QED
    BY <1>1, <1>2, <1>3, InitPlaces, PlacesEnough, PTL DEF Spec


-----------------------------------------------------------------------------
(* No wake-up is missing where a worker takes any number of requests       *)

(* A request for the file is not to get a worker now: there is none that   *)
(* takes requests, no room for one, and nobody to give up a place.         *)
NoWayIn(p, x) ==
    Available(x) = {} /\ x \notin held /\ ~HasRoom(p, listed) /\ IdleWorkers(p) = {}

(* Who waits in a pool of the budget is about to be woken or finds no way. *)
WaitersAreKnown ==
    \A p \in members : \A r \in InLineOf(p) :
        PoolOfRequest(r) = p /\ (p \in waking \/ NoWayIn(p, PathOf[r]))

WakesHold ==
    /\ Safe /\ Safe' /\ WithinLimits /\ WaitersAreKnown /\ Concurrency = 0

LEMMA WaitersStayKnown ==
    ASSUME WakesHold, members' \subseteq members,
           \A p \in members' : \A r \in InLineOf(p)' :
               r \in InLineOf(p) \/ (PoolOfRequest(r) = p /\ NoWayIn(p, PathOf[r])'),
           \A p \in members' : \A x \in Paths :
               PoolOf[x] = p /\ NoWayIn(p, x) => NoWayIn(p, x)' \/ p \in waking' \/ InLineOf(p)' = {},
           \A p \in members' : p \in waking => p \in waking' \/ InLineOf(p)' = {}
    PROVE  WaitersAreKnown'
<1> SUFFICES ASSUME NEW p \in members', NEW r \in InLineOf(p)'
             PROVE  PoolOfRequest(r) = p /\ (p \in waking' \/ NoWayIn(p, PathOf[r])')
    BY DEF WaitersAreKnown
<1>1. r \in Requests /\ p \in members
    BY DEF WakesHold, Safe, TypeOK, InLineOf
<1>2. PathOf[r] \in Paths /\ PoolOf[PathOf[r]] = PoolOfRequest(r)
    BY <1>1, PoolsOfThings DEF PoolOfRequest
<1>3. CASE r \in InLineOf(p)
  <2>1. PoolOfRequest(r) = p /\ (p \in waking \/ NoWayIn(p, PathOf[r]))
      BY <1>1, <1>3 DEF WakesHold, WaitersAreKnown
  <2> QED
      BY <1>2, <2>1
<1> QED
    BY <1>3

(* The room of a pool does not grow with the workers of itself and, while  *)
(* it is below its own limit, with those in the budget.                    *)
LEMMA RoomKept ==
    ASSUME TypeOK, TypeOK', NEW p \in Pools,
           ListedIn(p, listed) \subseteq ListedIn(p, listed)',
           BelowOverallLimit(p, listed) => InBudget(listed) \subseteq InBudget(listed)'
    PROVE  /\ BelowOverallLimit(p, listed)' => BelowOverallLimit(p, listed)
           /\ HasRoom(p, listed)' => HasRoom(p, listed)
<1>0. /\ IsFiniteSet(ListedIn(p, listed)) /\ Cardinality(ListedIn(p, listed)) \in Nat
      /\ IsFiniteSet(InBudget(listed)) /\ Cardinality(InBudget(listed)) \in Nat
  <2>1. listed \in SUBSET Workers
      BY DEF TypeOK
  <2> QED
      BY <2>1, ListsAreFinite
<1>1. /\ IsFiniteSet(ListedIn(p, listed)') /\ Cardinality(ListedIn(p, listed)') \in Nat
      /\ IsFiniteSet(InBudget(listed)') /\ Cardinality(InBudget(listed)') \in Nat
  <2>1. ListedIn(p, listed)' \subseteq Workers /\ InBudget(listed)' \subseteq Workers
      BY DEF TypeOK, ListedIn, InBudget
  <2> QED
      BY <2>1, SetsAssumption, FS_Subset, FS_CardinalityType
<1>2. Cardinality(ListedIn(p, listed)) <= Cardinality(ListedIn(p, listed)')
    BY <1>0, <1>1, FS_Subset
<1>3. BelowOverallLimit(p, listed) => Cardinality(InBudget(listed)) <= Cardinality(InBudget(listed)')
    BY <1>0, <1>1, FS_Subset
<1>4. BelowOverallLimit(p, listed)' => BelowOverallLimit(p, listed)
  <2>1. /\ BelowOverallLimit(p, listed)' <=> OverallLimit = 0 \/ Cardinality(ListedIn(p, listed)') < OverallLimit
        /\ BelowOverallLimit(p, listed) <=> OverallLimit = 0 \/ Cardinality(ListedIn(p, listed)) < OverallLimit
      BY DEF BelowOverallLimit
  <2> QED
      BY <1>0, <1>1, <1>2, <2>1, LimitsAssumption
<1>5. BelowOverallLimit(p, listed) /\ BudgetHasRoom(listed)' => BudgetHasRoom(listed)
  <2>1. /\ BudgetHasRoom(listed)' <=> BudgetLimit = 0 \/ Cardinality(InBudget(listed)') < BudgetLimit
        /\ BudgetHasRoom(listed) <=> BudgetLimit = 0 \/ Cardinality(InBudget(listed)) < BudgetLimit
      BY DEF BudgetHasRoom, InBudget
  <2> QED
      BY <1>0, <1>1, <1>3, <2>1, LimitsAssumption
<1> QED
    BY <1>4, <1>5 DEF HasRoom

(* Who is not to get a worker does not get one because idle workers leave  *)
(* the list, others are leased or stopped, and pools without workers leave *)
(* the budget: the idle ones were of no use to the pool.                   *)
LEMMA NoWayKept ==
    ASSUME Safe, TypeOK', NEW p \in members', members' \subseteq members, NEW x \in Paths,
           PoolOf[x] = p, NoWayIn(p, x), held' \subseteq held, listed' \subseteq listed,
           \A v \in listed \ listed' : IsIdle(v),
           \A u \in listed : PoolOfWorker(u) \notin members \ members',
           \A u \in listed' : /\ workerPath'[u] = workerPath[u]
                              /\ leases'[u] = {} => leases[u] = {}
                              /\ proc'[u] \in {"up", "signalled"} => proc[u] \in {"up", "signalled"}
                              /\ u \in stopping => u \in stopping'
                              /\ u \in retired => u \in retired',
           \A u \in listed : workerPath'[u] = workerPath[u]
    PROVE  NoWayIn(p, x)'
<1>0. TypeOK /\ p \in Pools /\ p \in members
    BY DEF Safe, TypeOK
<1>1. Available(x)' \subseteq Available(x)
    BY DEF Available, ForPath
<1>2. \A v \in listed \ listed' : /\ BelowOverallLimit(p, listed) => PoolOfWorker(v) \notin members
                                  /\ PoolOfWorker(v) # p
    BY <1>0 DEF NoWayIn, IdleWorkers
<1>3. ListedIn(p, listed) \subseteq ListedIn(p, listed)'
    BY <1>2 DEF ListedIn, PoolOfWorker
<1>4. BelowOverallLimit(p, listed) => InBudget(listed) \subseteq InBudget(listed)'
    BY <1>2 DEF InBudget, PoolOfWorker
<1>5. ~HasRoom(p, listed)' /\ (BelowOverallLimit(p, listed)' => BelowOverallLimit(p, listed))
    BY <1>0, <1>3, <1>4, RoomKept DEF NoWayIn
<1>6. IdleWorkers(p)' \subseteq IdleWorkers(p)
    BY <1>0, <1>5 DEF IdleWorkers, IsIdle, PoolOfWorker
<1> QED
    BY <1>1, <1>5, <1>6 DEF NoWayIn

(* Nor does it because somebody else is given one.                         *)
LEMMA NoWayAfterStart ==
    ASSUME Safe, TypeOK', NEW p \in members, NEW x \in Paths, PoolOf[x] = p, NoWayIn(p, x),
           NEW w \in Workers, NEW y \in Paths, NEW L \in SUBSET listed, NEW holders \in SUBSET Requests,
           CreateWorker(w, y, L, holders), HasRoom(PoolOf[y], L), \A v \in listed \ L : IsIdle(v),
           holders # {} \/ L = listed, stopping \subseteq stopping', UNCHANGED <<members, held>>
    PROVE  NoWayIn(p, x)'
<1>0. /\ TypeOK /\ p \in Pools /\ PoolOf[y] \in Pools /\ w \notin listed
      /\ listed' = L \cup {w} /\ workerPath'[w] = y /\ leases'[w] = holders
      /\ \A u \in L : workerPath'[u] = workerPath[u] /\ leases'[u] = leases[u] /\ proc'[u] = proc[u]
      /\ retired' = retired
    BY PoolsOfThings DEF Safe, SlotsAreClean, TypeOK, CreateWorker
<1>1. \A v \in listed \ L : /\ BelowOverallLimit(p, listed) => PoolOfWorker(v) \notin members
                            /\ PoolOfWorker(v) # p
    BY <1>0 DEF NoWayIn, IdleWorkers
<1>2. /\ ListedIn(p, L) = ListedIn(p, listed)
      /\ BelowOverallLimit(p, listed) => InBudget(L) = InBudget(listed)
    BY <1>1 DEF ListedIn, InBudget
<1>3. ~HasRoom(p, L)
    BY <1>2 DEF NoWayIn, HasRoom, BelowOverallLimit, BudgetHasRoom, InBudget
<1>4. PoolOf[y] # p /\ y # x
    BY <1>3
<1>5. ListedIn(p, listed) \subseteq ListedIn(p, listed)'
  <2>1. \A u \in ListedIn(p, listed) : u \in L
      BY <1>2 DEF ListedIn
  <2> QED
      BY <1>0, <2>1 DEF ListedIn, PoolOfWorker
<1>6. BelowOverallLimit(p, listed) => InBudget(listed) \subseteq InBudget(listed)'
  <2>1. BelowOverallLimit(p, listed) => \A u \in InBudget(listed) : u \in L
      BY <1>2 DEF InBudget
  <2> QED
      BY <1>0, <2>1 DEF InBudget, PoolOfWorker
<1>7. ~HasRoom(p, listed)' /\ (BelowOverallLimit(p, listed)' => BelowOverallLimit(p, listed))
    BY <1>0, <1>5, <1>6, RoomKept DEF NoWayIn
<1>8. Available(x)' \subseteq Available(x)
    BY <1>0, <1>4 DEF Available, ForPath
<1>9. IdleWorkers(p)' \subseteq IdleWorkers(p)
  <2> SUFFICES ASSUME NEW u \in IdleWorkers(p)' PROVE u \in IdleWorkers(p)
      OBVIOUS
  <2>1. /\ u \in listed' /\ leases'[u] = {}
        /\ PoolOf[workerPath'[u]] = p \/ (BelowOverallLimit(p, listed) /\ PoolOf[workerPath'[u]] \in members)
      BY <1>7 DEF IdleWorkers, IsIdle, PoolOfWorker
  <2>2. CASE u \in L
      BY <1>0, <2>1, <2>2 DEF IdleWorkers, IsIdle, PoolOfWorker
  <2>3. CASE u = w
    <3>1. holders = {} /\ L = listed /\ PoolOf[y] \in members /\ BelowOverallLimit(p, listed)
        BY <1>0, <1>4, <2>1, <2>3
    <3>2. BudgetHasRoom(listed)
        BY <3>1 DEF HasRoom
    <3>3. HasRoom(p, listed)
        BY <3>1, <3>2 DEF HasRoom
    <3> QED
        BY <3>3 DEF NoWayIn
  <2> QED
      BY <1>0, <2>1, <2>2, <2>3
<1> QED
    BY <1>7, <1>8, <1>9 DEF NoWayIn

(* A pool of the budget that evicts makes the room it needs.               *)
LEMMA EvictionMakesRoom ==
    ASSUME TypeOK, WithinLimits, NEW p \in members, NEW v \in Victims(p)
    PROVE  HasRoom(p, listed \ {v})
<1>0. /\ listed \in SUBSET Workers /\ p \in Pools /\ v \in listed
      /\ IsFiniteSet(ListedIn(p, listed)) /\ Cardinality(ListedIn(p, listed)) \in Nat
      /\ IsFiniteSet(InBudget(listed)) /\ Cardinality(InBudget(listed)) \in Nat
  <2>1. listed \in SUBSET Workers /\ p \in Pools
      BY DEF TypeOK
  <2> QED
      BY <2>1, ListsAreFinite, VictimsAreIdle
<1>1. /\ ListedIn(p, listed \ {v}) = ListedIn(p, listed) \ {v}
      /\ InBudget(listed \ {v}) = InBudget(listed) \ {v}
    BY DEF ListedIn, InBudget
<1>2. /\ PoolOfWorker(v) \in members
      /\ ~BelowOverallLimit(p, listed) => PoolOfWorker(v) = p
    BY DEF Victims, IdleWorkers
<1>3. v \in InBudget(listed)
    BY <1>0, <1>2 DEF InBudget
<1>4. BudgetHasRoom(listed \ {v})
  <2>1. Cardinality(InBudget(listed) \ {v}) = Cardinality(InBudget(listed)) - 1
      BY <1>0, <1>3, FS_RemoveElement
  <2>2. BudgetLimit > 0 => Cardinality(InBudget(listed)) <= BudgetLimit
      BY DEF WithinLimits, InBudget
  <2>3. BudgetLimit = 0 \/ Cardinality(InBudget(listed \ {v})) < BudgetLimit
      BY <1>0, <1>1, <2>1, <2>2, LimitsAssumption
  <2> QED
      BY <2>3 DEF BudgetHasRoom, InBudget
<1>5. BelowOverallLimit(p, listed \ {v})
  <2>1. CASE BelowOverallLimit(p, listed)
    <3>1. /\ Cardinality(ListedIn(p, listed) \ {v}) <= Cardinality(ListedIn(p, listed))
          /\ Cardinality(ListedIn(p, listed) \ {v}) \in Nat
      <4>1. ListedIn(p, listed) \ {v} \subseteq ListedIn(p, listed)
          OBVIOUS
      <4> QED
          BY <1>0, <4>1, FS_Subset, FS_CardinalityType
    <3> QED
        BY <1>0, <1>1, <2>1, <3>1, LimitsAssumption DEF BelowOverallLimit
  <2>2. CASE ~BelowOverallLimit(p, listed)
    <3>1. v \in ListedIn(p, listed)
        BY <1>0, <1>2, <2>2 DEF ListedIn
    <3>2. Cardinality(ListedIn(p, listed) \ {v}) = Cardinality(ListedIn(p, listed)) - 1
        BY <1>0, <3>1, FS_RemoveElement
    <3>3. OverallLimit > 0 => Cardinality(ListedIn(p, listed)) <= OverallLimit
        BY <1>0 DEF WithinLimits
    <3> QED
      <4>1. OverallLimit = 0 \/ Cardinality(ListedIn(p, listed \ {v})) < OverallLimit
        <5> DEFINE c == Cardinality(ListedIn(p, listed))
        <5>1. c \in Nat /\ Cardinality(ListedIn(p, listed \ {v})) = c - 1 /\ OverallLimit \in Nat
            BY <1>0, <1>1, <3>2, LimitsAssumption
        <5>2. OverallLimit > 0 => c <= OverallLimit
            BY <3>3
        <5> HIDE DEF c
        <5> QED
            BY <5>1, <5>2
      <4> QED
          BY <4>1 DEF BelowOverallLimit
  <2> QED
      BY <2>1, <2>2
<1> QED
    BY <1>4, <1>5 DEF HasRoom

LEMMA AskedNoWay ==
    ASSUME WakesHold, NEW r \in Requests, GetWorker(r) \/ GetsNone(r) \/ UNCHANGED workerVars,
           UNCHANGED <<members, held>>
    PROVE  \A p \in members : \A x \in Paths : PoolOf[x] = p /\ NoWayIn(p, x) => NoWayIn(p, x)'
<1> SUFFICES ASSUME NEW p \in members, NEW x \in Paths, PoolOf[x] = p, NoWayIn(p, x)
             PROVE  NoWayIn(p, x)'
    OBVIOUS
<1>0. /\ Safe /\ TypeOK /\ TypeOK' /\ members' = members /\ held' = held /\ p \in members'
      /\ PathOf[r] \in Paths /\ PoolOf[PathOf[r]] \in Pools
    BY PoolsOfThings DEF WakesHold, Safe
<1>1. CASE TakeListed(r) \/ GetsNone(r) \/ UNCHANGED workerVars
  <2>1. /\ listed' \subseteq listed /\ stopping \subseteq stopping' /\ UNCHANGED <<proc, workerPath, retired>>
        /\ \A v \in listed \ listed' : IsIdle(v)
      BY <1>0, <1>1, VictimsAreIdle DEF TakeListed, GetsNone, GetNothing, SpawnFails, workerVars
  <2>2. \A u \in Workers : leases'[u] = {} => leases[u] = {}
    <3>1. CASE TakeListed(r)
      <4>1. PICK w \in LeastLoaded(PathOf[r]) : leases' = [leases EXCEPT ![w] = @ \cup {r}]
          BY <3>1 DEF TakeListed
      <4> QED
          BY <1>0, <4>1 DEF TypeOK
    <3>2. CASE GetsNone(r) \/ UNCHANGED workerVars
        BY <3>2 DEF GetsNone, GetNothing, SpawnFails, workerVars
    <3> QED
        BY <1>1, <3>1, <3>2
  <2>3. listed \subseteq Workers
      BY <1>0 DEF TypeOK
  <2> QED
      BY <1>0, <2>1, <2>2, <2>3, NoWayKept
<1>2. CASE TakeNew(r)
  <2>1. PICK w \in Workers : CreateWorker(w, PathOf[r], listed, {r})
      BY <1>2 DEF TakeNew
  <2>2. HasRoom(PoolOf[PathOf[r]], listed) /\ stopping' = stopping
      BY <1>2 DEF TakeNew, StartsWorker, HasRoomFor
  <2>3. listed \in SUBSET listed /\ {r} \in SUBSET Requests /\ {r} # {} /\ \A v \in listed \ listed : IsIdle(v)
      OBVIOUS
  <2> QED
      BY <1>0, <2>1, <2>2, <2>3, NoWayAfterStart
<1>3. CASE TakeRoom(r)
  <2>1. PICK v \in Victims(PoolOf[PathOf[r]]), w \in Workers :
            /\ HasRoom(PoolOf[PathOf[r]], listed \ {v})
            /\ CreateWorker(w, PathOf[r], listed \ {v}, {r})
            /\ stopping' = stopping \cup {v}
      BY <1>3 DEF TakeRoom
  <2>2. IsIdle(v)
      BY <1>0, <2>1, VictimsAreIdle
  <2> DEFINE L == listed \ {v}
  <2>3. L \in SUBSET listed /\ {r} \in SUBSET Requests /\ {r} # {} /\ (\A u \in listed \ L : IsIdle(u))
      BY <2>2
  <2>4. CreateWorker(w, PathOf[r], L, {r}) /\ HasRoom(PoolOf[PathOf[r]], L) /\ stopping \subseteq stopping'
      BY <2>1
  <2> HIDE DEF L
  <2> QED
      BY <1>0, <2>3, <2>4, NoWayAfterStart
<1> QED
    BY <1>1, <1>2, <1>3 DEF GetWorker

(* A request that is put in the line of a pool of the budget has no way.   *)
LEMMA WaitsWithoutWay ==
    ASSUME WakesHold, NEW r \in Requests, GetNothing(r), PoolOfRequest(r) \in members,
           UNCHANGED <<members, held>>
    PROVE  NoWayIn(PoolOfRequest(r), PathOf[r])'
<1> DEFINE x == PathOf[r]
           p == PoolOf[x]
<1>0. /\ Safe /\ TypeOK /\ WithinLimits /\ Concurrency = 0 /\ x \in Paths /\ p \in members
      /\ PoolOfRequest(r) = p
    BY PoolsOfThings DEF WakesHold, Safe, PoolOfRequest
<1>1. Waits(x) /\ UNCHANGED workerVars
    BY <1>0, EvictionMakesRoom DEF GetNothing
<1>2. Open(x) = Available(x)
    BY <1>0 DEF Open
<1>3. Available(x) = {}
  <2>1. ~FindsIdle(x) /\ ~StartsWorker(x) /\ ~Shares(x)
      BY <1>1 DEF Waits
  <2> QED
      BY <1>2, <2>1 DEF Shares
<1>4. x \notin held
    BY <1>1, <1>3 DEF Waits, Refuses
<1>5. MayStart(x)
    BY <1>1, <1>3, <1>4, FS_EmptySet, LimitsAssumption DEF Waits, MayStart
<1>6. ~HasRoom(p, listed)
    BY <1>1, <1>5 DEF Waits, StartsWorker, HasRoomFor
<1>7. IdleWorkers(p) = {}
  <2>1. Victims(p) = {}
      BY <1>1, <1>3, <1>5, <1>6 DEF Waits, Evicts, HasRoomFor
  <2> QED
      BY <2>1 DEF Victims
<1>8. NoWayIn(PoolOfRequest(r), PathOf[r])
    BY <1>0, <1>3, <1>4, <1>6, <1>7 DEF NoWayIn
<1> QED
    BY <1>1, <1>8
    DEF workerVars, NoWayIn, Available, ForPath, HasRoom, BelowOverallLimit, BudgetHasRoom, ListedIn,
        IdleWorkers, IsIdle, PoolOfWorker

LEMMA AskedKnown ==
    ASSUME WakesHold, NEW r \in Requests, GetWorker(r) \/ GetsNone(r) \/ UNCHANGED workerVars,
           \/ queue' = queue
           \/ GetNothing(r) /\ queue' = [queue EXCEPT ![PoolOfRequest(r)] = Append(@, r)],
           UNCHANGED <<waking, members, held>>
    PROVE  WaitersAreKnown'
<1>0. /\ PathOf[r] \in Paths /\ PoolOfRequest(r) \in Pools
      /\ queue \in [Pools -> Seq(Requests)] /\ members \subseteq Pools
    BY PoolsOfThings DEF WakesHold, Safe, TypeOK
<1>1. ASSUME NEW p \in members, NEW s \in InLineOf(p)'
      PROVE  s \in InLineOf(p) \/ (PoolOfRequest(s) = p /\ NoWayIn(p, PathOf[s])')
  <2>1. CASE queue' = queue
      BY <1>1, <2>1, SameLines, <1>0
  <2>2. CASE GetNothing(r) /\ queue' = [queue EXCEPT ![PoolOfRequest(r)] = Append(@, r)]
    <3>1. s \in InLineOf(p) \/ (p = PoolOfRequest(r) /\ s = r)
        BY <1>0, <1>1, <2>2, LinesOf
    <3>2. PoolOfRequest(r) \in members => NoWayIn(PoolOfRequest(r), PathOf[r])'
        BY <2>2, WaitsWithoutWay
    <3> QED
        BY <3>1, <3>2
  <2> QED
      BY <2>1, <2>2
<1>2. \A p \in members : \A x \in Paths : PoolOf[x] = p /\ NoWayIn(p, x) => NoWayIn(p, x)'
    BY AskedNoWay
<1>3. members' = members /\ waking' = waking
    OBVIOUS
<1> QED
    BY <1>1, <1>2, <1>3, WaitersStayKnown

(* A step that starts and leases nothing, and lets only idle workers leave *)
(* the list.                                                               *)
LEMMA StopsKnown ==
    ASSUME WakesHold, held' \subseteq held, listed' \subseteq listed,
           \A v \in listed \ listed' : IsIdle(v),
           UNCHANGED <<workerPath, leases>>, stopping \subseteq stopping', retired \subseteq retired',
           \A w \in Workers : proc'[w] \in {"up", "signalled"} => proc[w] \in {"up", "signalled"},
           members' \subseteq members, \A u \in listed : PoolOfWorker(u) \notin members \ members',
           \A p \in members' : InLineOf(p)' \subseteq InLineOf(p),
           \A p \in members' : p \in waking => p \in waking' \/ InLineOf(p)' = {}
    PROVE  WaitersAreKnown'
<1>0. Safe /\ TypeOK' /\ listed \subseteq Workers
    BY DEF WakesHold, Safe, TypeOK
<1>1. ASSUME NEW p \in members', NEW x \in Paths, PoolOf[x] = p, NoWayIn(p, x)
      PROVE  NoWayIn(p, x)'
    BY <1>0, <1>1, NoWayKept
<1> QED
    BY <1>1, WaitersStayKnown

(* A step that ends with waking the lines of all pools.                    *)
LEMMA AllWoken ==
    ASSUME WakesHold, NEW p \in Pools, Quiet, WakeWaiting(p), UNCHANGED <<queue, members>>
    PROVE  WaitersAreKnown'
<1>1. \A q \in members : q \in waking' \/ queue[q] = <<>>
    BY DEF WakeWaiting
<1>2. \A q \in members : q \in waking' \/ InLineOf(q)' = {}
    BY <1>1 DEF InLineOf
<1>3. \A q \in members : \A r \in InLineOf(q)' : r \in InLineOf(q)
    BY SameLines DEF WakesHold, Safe, TypeOK
<1> QED
    BY <1>2, <1>3, WaitersStayKnown

LEMMA RequestStepsKnown ==
    ASSUME WakesHold, NEW r \in Requests, Acquire(r) \/ LeaveLine(r) \/ ReleaseLost(r)
    PROVE  WaitersAreKnown'
<1>1. CASE Acquire(r)
  <2>1. /\ GetWorker(r) \/ GetsNone(r) \/ UNCHANGED workerVars
        /\ UNCHANGED <<waking, members, held>>
        /\ \/ queue' = queue
           \/ GetNothing(r) /\ queue' = [queue EXCEPT ![PoolOfRequest(r)] = Append(@, r)]
      BY <1>1 DEF Acquire, GetsNone, NothingLeft, turnVars, lifeVars, backoffVars
  <2> QED
      BY <2>1, AskedKnown
<1>2. CASE LeaveLine(r)
  <2>1. \A p \in Pools : InLineOf(p)' \subseteq InLineOf(p)
    <3>1. queue \in [Pools -> Seq(Requests)] /\ PoolOfRequest(r) \in Pools
        BY PoolsOfThings DEF WakesHold, Safe, TypeOK
    <3> QED
        BY <1>2, <3>1, LinesOf DEF LeaveLine
  <2>2. UNCHANGED <<workerVars, held, members, waking>> /\ members \subseteq Pools
      BY <1>2 DEF LeaveLine, NothingLeft, turnVars, lifeVars, backoffVars, WakesHold, Safe, TypeOK
  <2> QED
      BY <2>1, <2>2, StopsKnown DEF workerVars
<1>3. CASE ReleaseLost(r)
  <2>1. PoolOfRequest(r) \in Pools
      BY PoolsOfThings
  <2> QED
      BY <1>3, <2>1, AllWoken DEF ReleaseLost, AfterRelease, lifeVars
<1> QED
    BY <1>1, <1>2, <1>3

LEMMA LeaseStepsKnown ==
    ASSUME WakesHold, NEW r \in Requests, NEW w \in Workers, Release(r, w) \/ Kill(r, w)
    PROVE  WaitersAreKnown'
<1>0. PoolOfWorker(w) \in Pools
    BY PoolsOfThings, TypedParts DEF WakesHold, Safe
<1>1. CASE Release(r, w)
    BY <1>0, <1>1, AllWoken DEF Release, AfterRelease, lifeVars, lineVars
<1>2. CASE Kill(r, w)
  <2>1. /\ UNCHANGED <<listed, proc, workerPath, leases, retired, held, members, waking, queue>>
        /\ stopping \subseteq stopping'
      BY <1>2 DEF Kill, lineVars, backoffVars, lifeVars, NothingLeft, turnVars
  <2>2. \A p \in members : InLineOf(p)' = InLineOf(p)
      BY <2>1 DEF InLineOf
  <2> QED
      BY <2>1, <2>2, StopsKnown
<1> QED
    BY <1>1, <1>2

LEMMA WorkerStepsKnown ==
    ASSUME WakesHold, NEW w \in Workers,
           \/ Ready(w) \/ StartTimeout(w) \/ KillAfter(w) \/ AgeTimeout(w)
           \/ IdleTimeout(w) \/ UptimeStable(w) \/ Exit(w) \/ Close(w)
    PROVE  WaitersAreKnown'
<1>0. PoolOfWorker(w) \in Pools /\ TypeOK
    BY PoolsOfThings, TypedParts DEF WakesHold, Safe
<1>1. CASE Ready(w)
    BY <1>0, <1>1, AllWoken DEF Ready, lineVars, lifeVars
<1>2. CASE Close(w)
    BY <1>0, <1>2, AllWoken DEF Close, AfterClose, lifeVars
<1>3. CASE StartTimeout(w) \/ KillAfter(w) \/ AgeTimeout(w) \/ IdleTimeout(w) \/ UptimeStable(w) \/ Exit(w)
  <2>1. /\ UNCHANGED <<workerPath, leases, members, waking, queue>>
        /\ stopping \subseteq stopping' /\ retired \subseteq retired'
        /\ listed' \subseteq listed /\ held' \subseteq held
        /\ \A v \in listed \ listed' : IsIdle(v)
      BY <1>3 DEF StartTimeout, KillAfter, AgeTimeout, IdleTimeout, UptimeStable, Exit,
                  lineVars, backoffVars, lifeVars, NothingLeft, turnVars
  <2>2. \A u \in Workers : proc'[u] \in {"up", "signalled"} => proc[u] \in {"up", "signalled"}
    <3>1. CASE Exit(w)
      <4>1. PICK how \in Ends : proc' = [proc EXCEPT ![w] = how]
          BY <3>1 DEF Exit
      <4> QED
          BY <1>0, <3>1, <4>1 DEF Exit, TypeOK
    <3>2. CASE ~Exit(w)
        BY <1>3, <3>2 DEF StartTimeout, KillAfter, AgeTimeout, IdleTimeout, UptimeStable
    <3> QED
        BY <3>1, <3>2
  <2>3. \A p \in members : InLineOf(p)' = InLineOf(p)
      BY <2>1 DEF InLineOf
  <2> QED
      BY <2>1, <2>2, <2>3, StopsKnown
<1> QED
    BY <1>1, <1>2, <1>3

LEMMA OwnerStepsKnown ==
    ASSUME WakesHold, NEW x \in Paths, NEW p \in Pools,
           \/ BackoffOver(x) \/ Warm(x) \/ KeepWarm(x) \/ RefillTimer(x)
           \/ Dispose(p) \/ DisposeTimeout(p)
    PROVE  WaitersAreKnown'
<1>1. /\ UNCHANGED <<proc, workerPath, listed, leases, retired, queue>>
      /\ stopping \subseteq stopping' /\ held' \subseteq held /\ members' \subseteq members
    BY DEF BackoffOver, Warm, KeepWarm, RefillTimer, Dispose, DisposeTimeout, workerVars, backoffVars,
           lineVars, lifeVars
<1>2. waking' = waking
    BY DEF BackoffOver, Warm, KeepWarm, RefillTimer, Dispose, DisposeTimeout, NothingLeft, turnVars
<1>3. \A u \in listed : PoolOfWorker(u) \notin members \ members'
    BY DEF BackoffOver, Warm, KeepWarm, RefillTimer, Dispose, DisposeTimeout, lifeVars, ListedIn
<1>4. \A q \in Pools : InLineOf(q)' = InLineOf(q)
    BY <1>1 DEF InLineOf
<1>5. members' \subseteq Pools
    BY DEF WakesHold, Safe, TypeOK
<1> QED
    BY <1>1, <1>2, <1>3, <1>4, <1>5, StopsKnown

LEMMA RestOfTurnKnown ==
    ASSUME WakesHold, RestOfTurn
    PROVE  WaitersAreKnown'
<1>0. Safe /\ TypeOK /\ TypeOK' /\ queue \in [Pools -> Seq(Requests)] /\ members \subseteq Pools
    BY DEF WakesHold, Safe, TypeOK
<1>1. ASSUME NEW p \in Pools, WakeLine(p) PROVE WaitersAreKnown'
  <2>1. /\ queue' = [queue EXCEPT ![p] = <<>>] /\ waking' = waking \ {p}
        /\ UNCHANGED <<proc, workerPath, listed, leases, stopping, retired, held, members>>
      BY <1>1 DEF WakeLine, workerVars, backoffVars, lifeVars
  <2>2. InLineOf(p)' = {} /\ \A q \in Pools : InLineOf(q)' \subseteq InLineOf(q)
      BY <1>0, <2>1, LinesOf
  <2> QED
      BY <1>0, <2>1, <2>2, StopsKnown
<1>2. CASE Offer
  <2> DEFINE r == Head(offering)
  <2>1. r \in Requests
      BY <1>0, <1>2 DEF TypeOK, Offer
  <2>2. /\ GetWorker(r) \/ GetsNone(r) \/ UNCHANGED workerVars
        /\ UNCHANGED <<waking, members, held>>
        /\ \/ queue' = queue
           \/ GetNothing(r) /\ queue' = [queue EXCEPT ![PoolOfRequest(r)] = Append(@, r)]
      BY <1>2 DEF Offer, GetsNone, lifeVars, backoffVars
  <2> HIDE DEF r
  <2> QED
      BY <2>1, <2>2, AskedKnown
<1>3. CASE StopIdle \/ CheckDisposed \/ Refill
  <2>1. /\ UNCHANGED <<proc, workerPath, listed, leases, retired, held, waking, queue>>
        /\ stopping \subseteq stopping' /\ members' \subseteq members
      BY <1>3 DEF StopIdle, CheckDisposed, Refill, workerVars, lineVars, backoffVars, lifeVars
  <2>2. \A u \in listed : PoolOfWorker(u) \notin members \ members'
      BY <1>3 DEF StopIdle, CheckDisposed, Refill, lifeVars, ListedIn
  <2>3. \A q \in Pools : InLineOf(q)' = InLineOf(q)
      BY <2>1 DEF InLineOf
  <2> QED
      BY <1>0, <2>1, <2>2, <2>3, StopsKnown
<1>4. ASSUME NEW x \in Paths, WarmStart(x) PROVE WaitersAreKnown'
  <2>1. PICK w \in Workers : CreateWorker(w, x, listed, {})
      BY <1>4 DEF WarmStart
  <2>2. /\ HasRoom(PoolOf[x], listed) /\ stopping' = stopping
        /\ UNCHANGED <<members, held, waking, queue>>
      BY <1>4 DEF WarmStart, ShouldWarm, HasRoomFor, turnVars, lineVars, backoffVars, lifeVars
  <2>3. ASSUME NEW p \in members, NEW y \in Paths, PoolOf[y] = p, NoWayIn(p, y)
        PROVE  NoWayIn(p, y)'
    <3>1. listed \in SUBSET listed /\ {} \in SUBSET Requests /\ \A v \in listed \ listed : IsIdle(v)
        OBVIOUS
    <3> QED
        BY <1>0, <2>1, <2>2, <2>3, <3>1, NoWayAfterStart
  <2>4. \A q \in Pools : InLineOf(q)' = InLineOf(q)
      BY <2>2 DEF InLineOf
  <2> QED
      BY <1>0, <2>2, <2>3, <2>4, WaitersStayKnown
<1>5. ASSUME NEW x \in Paths, WarmFails(x) \/ WarmDone(x) PROVE WaitersAreKnown'
  <2>1. /\ UNCHANGED <<proc, workerPath, listed, leases, stopping, retired, held, members, queue>>
        /\ waking \subseteq waking'
      BY <1>5 DEF WarmFails, WarmDone, LinesServed, workerVars, lineVars, backoffVars, lifeVars
  <2>2. \A q \in Pools : InLineOf(q)' = InLineOf(q)
      BY <2>1 DEF InLineOf
  <2> QED
      BY <1>0, <2>1, <2>2, StopsKnown
<1> QED
    BY <1>1, <1>2, <1>3, <1>4, <1>5 DEF RestOfTurn

LEMMA WakesStep ==
    ASSUME Concurrency = 0
    PROVE  Safe /\ WithinLimits /\ WaitersAreKnown /\ [Next]_vars => WaitersAreKnown'
<1> SUFFICES ASSUME Safe, WithinLimits, WaitersAreKnown, [Next]_vars PROVE WaitersAreKnown'
    OBVIOUS
<1>1. WakesHold
    BY SafeStep DEF WakesHold
<1>2. CASE UNCHANGED vars
  <2>1. UNCHANGED <<proc, workerPath, listed, leases, stopping, retired, held, members, queue, waking>>
      BY <1>2 DEF vars, workerVars, lineVars, backoffVars, lifeVars, turnVars
  <2>2. \A q \in Pools : InLineOf(q)' = InLineOf(q)
      BY <2>1 DEF InLineOf
  <2>3. members \subseteq Pools
      BY DEF Safe, TypeOK
  <2> QED
      BY <1>1, <2>1, <2>2, <2>3, StopsKnown
<1>3. CASE Next
  <2>1. CASE \E r \in Requests : Acquire(r) \/ LeaveLine(r) \/ ReleaseLost(r)
      BY <1>1, <2>1, RequestStepsKnown
  <2>2. CASE \E r \in Requests, w \in Workers : Release(r, w) \/ Kill(r, w)
      BY <1>1, <2>2, LeaseStepsKnown
  <2>3. CASE \E w \in Workers : \/ Ready(w) \/ StartTimeout(w) \/ KillAfter(w) \/ AgeTimeout(w)
                                \/ IdleTimeout(w) \/ UptimeStable(w) \/ Exit(w) \/ Close(w)
      BY <1>1, <2>3, WorkerStepsKnown
  <2>4. CASE \E x \in Paths : BackoffOver(x) \/ Warm(x) \/ KeepWarm(x) \/ RefillTimer(x)
      BY <1>1, <2>4, OwnerStepsKnown, SetsAssumption
  <2>5. CASE \E p \in Pools : Dispose(p) \/ DisposeTimeout(p)
      BY <1>1, <2>5, OwnerStepsKnown, SetsAssumption
  <2>6. CASE RestOfTurn
      BY <1>1, <2>6, RestOfTurnKnown
  <2> QED
      BY <1>3, <2>1, <2>2, <2>3, <2>4, <2>5, <2>6 DEF Next
<1> QED
    BY <1>2, <1>3

LEMMA InitWakes == Init => WaitersAreKnown
BY DEF Init, WaitersAreKnown, InLineOf

(* A request that has no way in would wait again.                          *)
LEMMA WakesEnough == TypeOK /\ WaitersAreKnown => NoLostWakeup
<1> SUFFICES ASSUME TypeOK, WaitersAreKnown, Quiet, NEW p \in members, NEW i \in DOMAIN queue[p]
             PROVE  Waits(PathOf[queue[p][i]])
    BY DEF NoLostWakeup
<1> DEFINE x == PathOf[queue[p][i]]
<1>1. PoolOfRequest(queue[p][i]) = p /\ NoWayIn(p, x)
    BY DEF WaitersAreKnown, InLineOf, Quiet
<1>2. PoolOf[x] = p
    BY <1>1 DEF PoolOfRequest
<1>3. Open(x) = {} /\ ~FindsIdle(x) /\ ~Refuses(x)
    BY <1>1 DEF NoWayIn, Open, FindsIdle, Refuses
<1>4. ~HasRoomFor(x) /\ Victims(PoolOf[x]) = {}
    BY <1>1, <1>2 DEF NoWayIn, HasRoomFor, Victims
<1> HIDE DEF x
<1>5. Waits(x)
    BY <1>3, <1>4 DEF Waits, StartsWorker, Evicts, Shares
<1> QED
    BY <1>5 DEF x

(* Where a worker takes any number of requests, nobody is ever forgotten   *)
(* in the line of a pool of the budget: whatever ends, leaves, expires or  *)
(* fails, a request that waits would wait again if it was asked.           *)
THEOREM NoWakeupIsLost ==
    ASSUME Concurrency = 0
    PROVE  Spec => []NoLostWakeup
<1>1. Spec => []Safe /\ []WithinLimits
    BY InitSafe, SafeStep, LimitsHold, PTL DEF Spec
<1>2. Safe /\ WithinLimits /\ WaitersAreKnown /\ [Next]_vars => WaitersAreKnown'
    BY WakesStep
<1>3. Safe => TypeOK
    BY DEF Safe
<1> QED
    BY <1>1, <1>2, <1>3, InitWakes, WakesEnough, PTL DEF Spec


-----------------------------------------------------------------------------
(* Warm paths are refilled                                                 *)

(* The pools do not share a limit, and the workers that stop are those of  *)
(* a pool that is disposed of, and evicted ones: what is killed, retired   *)
(* or idle for too long is not replaced, the code refills after a worker   *)
(* that ended by itself.                                                   *)
EndsByItself ==
    /\ BudgetLimit = 0
    /\ Happens \cap {"kill", "age", "idle", "spawnFails"} = {}

KeepsWarm(p) == {minimums[p][i] : i \in DOMAIN minimums[p]}
ToRefill == {refilling[i] : i \in DOMAIN refilling}
Active == members \ (closed \cup disposing)
Lacks(x) == Cardinality(ForPath(x)) < WarmCount /\ BelowOverallLimit(PoolOf[x], listed)

(* The path is about to be looked at, is being warmed, or has its timer.   *)
Attended(x) == x \in refillTimers \/ x \in ToRefill \/ (x \in warming /\ x \notin held)

(* What a pool keeps warm are its own paths, and one that lacks a worker   *)
(* is attended to.                                                         *)
WarmIsKnown ==
    \A p \in Pools : \A x \in KeepsWarm(p) :
        PoolOf[x] = p /\ (p \in Active /\ Lacks(x) => Attended(x))

(* Only a pool that is disposed of stops a worker that it lists.           *)
StoppedInDisposal ==
    /\ \A w \in listed \cap stopping : PoolOfWorker(w) \in closed \cup disposing
    /\ "stopIdle" \in after => turn \in disposing
    /\ retired = {}

WarmHolds ==
    Safe /\ Safe' /\ WithinLimits /\ WarmIsKnown /\ StoppedInDisposal /\ EndsByItself

LEMMA ActiveShrinks ==
    members' \subseteq members /\ closed \subseteq closed' /\ disposing \subseteq disposing'
        => Active' \subseteq Active
BY DEF Active

(* Enough for a step: a path that is new is attended to, and one that      *)
(* lacks a worker now, or was attended to before, is attended to after it. *)
LEMMA WarmStaysKnown ==
    ASSUME WarmHolds, Active' \subseteq Active,
           \A p \in Pools : \A x \in KeepsWarm(p)' :
               x \in KeepsWarm(p) \/ (PoolOf[x] = p /\ Attended(x)'),
           \A x \in Paths : PoolOf[x] \in Active' /\ x \in KeepsWarm(PoolOf[x])' /\ Lacks(x)' =>
               Attended(x)' \/ (Lacks(x) /\ ~Attended(x))
    PROVE  WarmIsKnown'
<1> SUFFICES ASSUME NEW p \in Pools, NEW x \in KeepsWarm(p)'
             PROVE  PoolOf[x] = p /\ (p \in Active' /\ Lacks(x)' => Attended(x)')
    BY DEF WarmIsKnown
<1>1. x \in Paths
    BY DEF WarmHolds, Safe, TypeOK, KeepsWarm
<1>2. CASE x \in KeepsWarm(p)
    BY <1>1, <1>2 DEF WarmHolds, WarmIsKnown
<1> QED
    BY <1>2

LEMMA LacksKept ==
    ASSUME TypeOK, TypeOK', NEW x \in Paths, ForPath(x) \subseteq ForPath(x)',
           BelowOverallLimit(PoolOf[x], listed)' => BelowOverallLimit(PoolOf[x], listed)
    PROVE  Lacks(x)' => Lacks(x)
<1>1. /\ IsFiniteSet(ForPath(x)) /\ IsFiniteSet(ForPath(x)')
      /\ Cardinality(ForPath(x)) \in Nat /\ Cardinality(ForPath(x)') \in Nat
  <2>1. ForPath(x) \subseteq Workers /\ ForPath(x)' \subseteq Workers
      BY DEF ForPath, TypeOK
  <2> QED
      BY <2>1, SetsAssumption, FS_Subset, FS_CardinalityType
<1>2. Cardinality(ForPath(x)) <= Cardinality(ForPath(x)')
    BY <1>1, FS_Subset
<1>3. Cardinality(ForPath(x)') < WarmCount => Cardinality(ForPath(x)) < WarmCount
    BY <1>1, <1>2, LimitsAssumption
<1> QED
    BY <1>3 DEF Lacks

LEMMA LacksNothingNew ==
    ASSUME TypeOK, TypeOK', NEW x \in Paths, ForPath(x) \subseteq ForPath(x)',
           ListedIn(PoolOf[x], listed) \subseteq ListedIn(PoolOf[x], listed)'
    PROVE  Lacks(x)' => Lacks(x)
<1> DEFINE p == PoolOf[x]
<1>1. p \in Pools
    BY PoolsOfThings
<1>2. /\ Cardinality(ListedIn(p, listed)) \in Nat /\ Cardinality(ListedIn(p, listed)') \in Nat
      /\ Cardinality(ListedIn(p, listed)) <= Cardinality(ListedIn(p, listed)')
  <2>1. ListedIn(p, listed) \subseteq Workers /\ ListedIn(p, listed)' \subseteq Workers
      BY DEF ListedIn, TypeOK
  <2> QED
      BY <2>1, SetsAssumption, FS_Subset, FS_CardinalityType
<1>3. BelowOverallLimit(p, listed)' => BelowOverallLimit(p, listed)
  <2>1. /\ BelowOverallLimit(p, listed)' <=> OverallLimit = 0 \/ Cardinality(ListedIn(p, listed)') < OverallLimit
        /\ BelowOverallLimit(p, listed) <=> OverallLimit = 0 \/ Cardinality(ListedIn(p, listed)) < OverallLimit
      BY DEF BelowOverallLimit
  <2> QED
      BY <1>2, <2>1, LimitsAssumption
<1> QED
    BY <1>3, LacksKept

(* A worker is started where there is room, in an idle one's place only    *)
(* where there is none: no path lacks a worker that it did not lack.       *)
LEMMA StartsLackNothing ==
    ASSUME WarmHolds, NEW w \in Workers, NEW y \in Paths, NEW L \in SUBSET listed,
           NEW holders \in SUBSET Requests, CreateWorker(w, y, L, holders),
           \/ L = listed
           \/ \E v \in listed : L = listed \ {v} /\ PoolOfWorker(v) = PoolOf[y]
                                /\ ~BelowOverallLimit(PoolOf[y], listed)
    PROVE  \A x \in Paths : Lacks(x)' => Lacks(x)
<1>0. /\ TypeOK /\ TypeOK' /\ w \notin listed /\ listed' = L \cup {w} /\ workerPath'[w] = y
      /\ \A u \in L : workerPath'[u] = workerPath[u]
    BY DEF WarmHolds, Safe, SlotsAreClean, TypeOK, CreateWorker
<1>1. CASE L = listed
  <2>1. \A x \in Paths : /\ ForPath(x) \subseteq ForPath(x)'
                         /\ ListedIn(PoolOf[x], listed) \subseteq ListedIn(PoolOf[x], listed)'
      BY <1>0, <1>1 DEF ForPath, ListedIn, PoolOfWorker
  <2> QED
      BY <1>0, <2>1, LacksNothingNew
<1>2. CASE \E v \in listed : L = listed \ {v} /\ PoolOfWorker(v) = PoolOf[y]
                             /\ ~BelowOverallLimit(PoolOf[y], listed)
  <2>1. PICK v \in listed : L = listed \ {v} /\ PoolOfWorker(v) = PoolOf[y]
                            /\ ~BelowOverallLimit(PoolOf[y], listed)
      BY <1>2
  <2>2. ASSUME NEW x \in Paths, PoolOf[x] # PoolOf[y] PROVE Lacks(x)' => Lacks(x)
    <3>1. ForPath(x) \subseteq ForPath(x)'
        BY <1>0, <2>1, <2>2 DEF ForPath, PoolOfWorker
    <3>2. ListedIn(PoolOf[x], listed) \subseteq ListedIn(PoolOf[x], listed)'
        BY <1>0, <2>1, <2>2 DEF ListedIn, PoolOfWorker
    <3> QED
        BY <1>0, <3>1, <3>2, LacksNothingNew
  <2>3. ~BelowOverallLimit(PoolOf[y], listed)'
    <3>1. ListedIn(PoolOf[y], listed)' = (ListedIn(PoolOf[y], listed) \ {v}) \cup {w}
        BY <1>0, <2>1 DEF ListedIn, PoolOfWorker
    <3>2. /\ v \in ListedIn(PoolOf[y], listed) /\ w \notin ListedIn(PoolOf[y], listed)
        BY <1>0, <2>1 DEF ListedIn
    <3>3. IsFiniteSet(ListedIn(PoolOf[y], listed)) /\ Cardinality(ListedIn(PoolOf[y], listed)) \in Nat
      <4>1. listed \in SUBSET Workers /\ PoolOf[y] \in Pools
          BY <1>0, PoolsOfThings DEF TypeOK
      <4> QED
          BY <1>0, <4>1, ListsAreFinite
    <3> DEFINE S == ListedIn(PoolOf[y], listed)
               T == ListedIn(PoolOf[y], listed)'
    <3> HIDE DEF S, T
    <3>4. IsFiniteSet(S) /\ Cardinality(S) \in Nat /\ v \in S /\ w \notin S /\ T = (S \ {v}) \cup {w}
        BY <3>1, <3>2, <3>3 DEF S, T
    <3>5. IsFiniteSet(S \ {v}) /\ Cardinality(S \ {v}) = Cardinality(S) - 1
        BY <3>4, FS_RemoveElement
    <3>6. Cardinality(T) = Cardinality(S \ {v}) + 1
        BY <3>4, <3>5, FS_AddElement
    <3>7. Cardinality(T) = Cardinality(S)
        BY <3>4, <3>5, <3>6
    <3> QED
        BY <2>1, <3>7 DEF S, T, BelowOverallLimit
  <2>4. ASSUME NEW x \in Paths, PoolOf[x] = PoolOf[y] PROVE ~Lacks(x)'
      BY <2>3, <2>4 DEF Lacks
  <2> QED
      BY <2>2, <2>4
<1> QED
    BY <1>1, <1>2

LEMMA AskedLacksNothing ==
    ASSUME WarmHolds, NEW r \in Requests, GetWorker(r) \/ GetsNone(r) \/ UNCHANGED workerVars,
           UNCHANGED <<members, closed, disposing>>
    PROVE  \A x \in Paths : PoolOf[x] \in Active /\ Lacks(x)' => Lacks(x)
<1>0. /\ Safe /\ TypeOK /\ TypeOK' /\ WithinLimits /\ EndsByItself
      /\ PathOf[r] \in Paths /\ PoolOf[PathOf[r]] \in Pools
    BY PoolsOfThings DEF WarmHolds, Safe
<1>1. \A L : BudgetHasRoom(L)
    BY <1>0 DEF EndsByItself, BudgetHasRoom
<1>2. ASSUME Evicts(PathOf[r]), NEW v \in Victims(PoolOf[PathOf[r]])
      PROVE  /\ v \in listed /\ PoolOfWorker(v) = PoolOf[PathOf[r]]
             /\ ~BelowOverallLimit(PoolOf[PathOf[r]], listed)
    BY <1>1, <1>2 DEF Evicts, HasRoomFor, HasRoom, Victims, IdleWorkers
<1>3. CASE UNCHANGED <<listed, workerPath>>
  <2>1. \A x \in Paths : /\ ForPath(x) \subseteq ForPath(x)'
                         /\ ListedIn(PoolOf[x], listed) \subseteq ListedIn(PoolOf[x], listed)'
      BY <1>3 DEF ForPath, ListedIn, PoolOfWorker
  <2> QED
      BY <1>0, <2>1, LacksNothingNew
<1>4. CASE TakeNew(r)
  <2>1. PICK w \in Workers : CreateWorker(w, PathOf[r], listed, {r})
      BY <1>4 DEF TakeNew
  <2>2. listed \in SUBSET listed /\ {r} \in SUBSET Requests
      OBVIOUS
  <2> QED
      BY <1>0, <2>1, <2>2, StartsLackNothing
<1>5. CASE TakeRoom(r)
  <2>1. PICK v \in Victims(PoolOf[PathOf[r]]), w \in Workers : CreateWorker(w, PathOf[r], listed \ {v}, {r})
      BY <1>5 DEF TakeRoom
  <2>2. /\ v \in listed /\ PoolOfWorker(v) = PoolOf[PathOf[r]]
        /\ ~BelowOverallLimit(PoolOf[PathOf[r]], listed)
      BY <1>2, <1>5, <2>1 DEF TakeRoom
  <2>3. listed \ {v} \in SUBSET listed /\ {r} \in SUBSET Requests
      OBVIOUS
  <2> QED
      BY <1>0, <2>1, <2>2, <2>3, StartsLackNothing
<1>6. CASE GetNothing(r) /\ ~UNCHANGED workerVars
  <2>1. PICK v \in Victims(PoolOf[PathOf[r]]) :
            ~HasRoom(PoolOf[PathOf[r]], listed \ {v}) /\ listed' = listed \ {v}
      BY <1>6 DEF GetNothing
  <2>2. v \in listed /\ PoolOfWorker(v) = PoolOf[PathOf[r]] /\ workerPath' = workerPath
      BY <1>2, <1>6, <2>1 DEF GetNothing
  <2>3. PoolOf[PathOf[r]] \notin members
      BY <1>0, <2>1, EvictionMakesRoom
  <2>4. ASSUME NEW x \in Paths, PoolOf[x] \in Active PROVE Lacks(x)' => Lacks(x)
    <3>1. PoolOf[x] # PoolOf[PathOf[r]]
        BY <2>3, <2>4 DEF Active
    <3>2. /\ ForPath(x) \subseteq ForPath(x)'
          /\ ListedIn(PoolOf[x], listed) \subseteq ListedIn(PoolOf[x], listed)'
        BY <2>1, <2>2, <3>1 DEF ForPath, ListedIn, PoolOfWorker
    <3> QED
        BY <1>0, <3>2, LacksNothingNew
  <2> QED
      BY <2>4
<1>7. ~SpawnFails(r)
    BY <1>0 DEF SpawnFails, EndsByItself
<1>8. CASE TakeListed(r)
    BY <1>3, <1>8 DEF TakeListed
<1> QED
    BY <1>3, <1>4, <1>5, <1>6, <1>7, <1>8 DEF GetWorker, GetsNone, workerVars

(* A step that leaves the lists, what is kept warm and the refills alone.  *)
LEMMA WarmUntouched ==
    ASSUME WarmHolds, UNCHANGED <<minimums, refillTimers, warming, refilling>>, held' \subseteq held,
           Active' \subseteq Active,
           \A x \in Paths : PoolOf[x] \in Active /\ Lacks(x)' => Lacks(x)
    PROVE  WarmIsKnown'
<1>1. \A p \in Pools : KeepsWarm(p)' = KeepsWarm(p)
    BY DEF KeepsWarm
<1>2. \A x : Attended(x) => Attended(x)'
    BY DEF Attended, ToRefill
<1> QED
    BY <1>1, <1>2, WarmStaysKnown

LEMMA SameLists ==
    ASSUME WarmHolds, UNCHANGED <<listed, workerPath>>
    PROVE  \A x \in Paths : Lacks(x)' => Lacks(x)
<1>1. \A x \in Paths : /\ ForPath(x) \subseteq ForPath(x)'
                       /\ ListedIn(PoolOf[x], listed) \subseteq ListedIn(PoolOf[x], listed)'
    BY DEF ForPath, ListedIn, PoolOfWorker
<1> QED
    BY <1>1, LacksNothingNew DEF WarmHolds, Safe

LEMMA RequestStepsWarm ==
    ASSUME WarmHolds, NEW r \in Requests, Acquire(r) \/ LeaveLine(r) \/ ReleaseLost(r)
    PROVE  WarmIsKnown'
<1>1. /\ UNCHANGED <<minimums, refillTimers, warming, refilling, held, members, closed, disposing>>
      /\ GetWorker(r) \/ GetsNone(r) \/ UNCHANGED workerVars
    BY DEF Acquire, LeaveLine, ReleaseLost, AfterRelease, GetsNone, NothingLeft, turnVars, lifeVars, backoffVars
<1>2. \A x \in Paths : PoolOf[x] \in Active /\ Lacks(x)' => Lacks(x)
    BY <1>1, AskedLacksNothing
<1> QED
    BY <1>1, <1>2, ActiveShrinks, WarmUntouched

LEMMA LeaseStepsWarm ==
    ASSUME WarmHolds, NEW r \in Requests, NEW w \in Workers, Release(r, w) \/ Kill(r, w)
    PROVE  WarmIsKnown'
<1>1. UNCHANGED <<minimums, refillTimers, warming, refilling, held, members, closed, disposing,
                  listed, workerPath>>
    BY DEF Release, Kill, AfterRelease, NothingLeft, turnVars, lifeVars, backoffVars
<1> QED
    BY <1>1, SameLists, ActiveShrinks, WarmUntouched

LEMMA WorkerStepsWarm ==
    ASSUME WarmHolds, NEW w \in Workers,
           \/ Ready(w) \/ StartTimeout(w) \/ KillAfter(w) \/ AgeTimeout(w)
           \/ IdleTimeout(w) \/ UptimeStable(w) \/ Exit(w)
    PROVE  WarmIsKnown'
<1>0. ~IdleTimeout(w)
    BY DEF IdleTimeout, WarmHolds, EndsByItself
<1>1. /\ UNCHANGED <<minimums, refillTimers, warming, refilling, members, closed, disposing,
                     listed, workerPath>>
      /\ held' \subseteq held
    BY <1>0 DEF Ready, StartTimeout, KillAfter, AgeTimeout, UptimeStable, Exit,
                NothingLeft, turnVars, lifeVars, backoffVars
<1> QED
    BY <1>1, SameLists, ActiveShrinks, WarmUntouched

(* A worker that was not stopped leaves a gap, and all paths of its pool   *)
(* are looked at; one that was stopped was not listed, or nobody refills.  *)
LEMMA CloseWarm ==
    ASSUME WarmHolds, NEW w \in Workers, Close(w)
    PROVE  WarmIsKnown'
<1> DEFINE p == PoolOfWorker(w)
<1>0. Safe /\ TypeOK /\ TypeOK' /\ StoppedInDisposal
    BY DEF WarmHolds, Safe
<1>1. /\ listed' = listed \ {w} /\ workerPath' = [workerPath EXCEPT ![w] = AnyPath]
      /\ refilling' = IF w \in stopping THEN <<>> ELSE minimums[p]
      /\ UNCHANGED <<minimums, refillTimers, warming, members, closed, disposing>>
      /\ refilling = <<>> /\ warming = {}
    BY DEF Close, Quiet, lifeVars
<1>2. \A u \in listed' : u \in listed /\ workerPath'[u] = workerPath[u]
    BY <1>0, <1>1 DEF TypeOK
<1>3. \A q \in Pools : KeepsWarm(q)' = KeepsWarm(q)
    BY <1>1 DEF KeepsWarm
<1>4. Active' \subseteq Active
    BY <1>1, ActiveShrinks
<1>5. ASSUME NEW x \in Paths, PoolOf[x] \in Active', x \in KeepsWarm(PoolOf[x])', Lacks(x)'
      PROVE  Attended(x)' \/ (Lacks(x) /\ ~Attended(x))
  <2>1. CASE w \notin stopping /\ PoolOf[x] = p
    <3>1. x \in KeepsWarm(p)
        BY <1>3, <1>5, <2>1, PoolsOfThings
    <3>2. refilling' = minimums[p]
        BY <1>1, <2>1
    <3>3. x \in ToRefill'
        BY <3>1, <3>2 DEF KeepsWarm, ToRefill
    <3> QED
        BY <3>3 DEF Attended
  <2>2. CASE w \in stopping \/ PoolOf[x] # p
    <3>1. w \notin listed \/ PoolOf[x] # p
        BY <1>0, <1>4, <1>5, <2>2 DEF StoppedInDisposal, Active
    <3>2. /\ ForPath(x) \subseteq ForPath(x)'
          /\ ListedIn(PoolOf[x], listed) \subseteq ListedIn(PoolOf[x], listed)'
        BY <1>0, <1>1, <3>1 DEF ForPath, ListedIn, PoolOfWorker, TypeOK
    <3>3. Lacks(x)
        BY <1>0, <1>5, <3>2, LacksNothingNew
    <3>4. Attended(x) => x \in refillTimers
        BY <1>1 DEF Attended, ToRefill
    <3>5. x \in refillTimers => Attended(x)'
        BY <1>1 DEF Attended
    <3> QED
        BY <3>3, <3>4, <3>5
  <2> QED
      BY <2>1, <2>2
<1> QED
    BY <1>3, <1>4, <1>5, WarmStaysKnown

LEMMA OwnerStepsWarm ==
    ASSUME WarmHolds, NEW x \in Paths, NEW p \in Pools,
           \/ BackoffOver(x) \/ Warm(x) \/ KeepWarm(x) \/ RefillTimer(x)
           \/ Dispose(p) \/ DisposeTimeout(p)
    PROVE  WarmIsKnown'
<1>0. /\ refilling = <<>> /\ warming = {} /\ TypeOK /\ PoolOf[x] \in Pools
      /\ UNCHANGED <<listed, workerPath>>
    BY PoolsOfThings DEF BackoffOver, Warm, KeepWarm, RefillTimer, Dispose, DisposeTimeout, Quiet, workerVars,
                         WarmHolds, Safe
<1>1. \A y \in Paths : Lacks(y)' => Lacks(y)
    BY <1>0, SameLists
<1>2. \A y : Attended(y) => y \in refillTimers
    BY <1>0 DEF Attended, ToRefill
<1>3. CASE BackoffOver(x)
  <2>1. /\ UNCHANGED <<minimums, refillTimers, warming, refilling, members, closed, disposing>>
        /\ held' \subseteq held
      BY <1>3 DEF BackoffOver, NothingLeft, turnVars, lifeVars
  <2> QED
      BY <1>1, <2>1, ActiveShrinks, WarmUntouched
<1>4. CASE Warm(x)
  <2>1. UNCHANGED <<minimums, refillTimers, members, closed, disposing>>
      BY <1>4 DEF Warm, lifeVars
  <2>2. \A y : y \in refillTimers => Attended(y)'
      BY <2>1 DEF Attended
  <2>3. \A q \in Pools : KeepsWarm(q)' = KeepsWarm(q)
      BY <2>1 DEF KeepsWarm
  <2> QED
      BY <1>1, <1>2, <2>1, <2>2, <2>3, ActiveShrinks, WarmStaysKnown
<1>5. CASE KeepWarm(x)
  <2>1. /\ minimums' = [minimums EXCEPT ![PoolOf[x]] = Append(@, x)] /\ refilling' = <<x>>
        /\ UNCHANGED <<refillTimers, members, closed, disposing>>
      BY <1>5 DEF KeepWarm
  <2>2. Attended(x)' /\ \A y : y \in refillTimers => Attended(y)'
    <3>1. x \in ToRefill'
        BY <2>1 DEF ToRefill
    <3> QED
        BY <2>1, <3>1 DEF Attended
  <2>3. \A q \in Pools : \A y \in KeepsWarm(q)' : y \in KeepsWarm(q) \/ (q = PoolOf[x] /\ y = x)
    <3> SUFFICES ASSUME NEW q \in Pools, NEW i \in DOMAIN minimums'[q]
                 PROVE  minimums'[q][i] \in KeepsWarm(q) \/ (q = PoolOf[x] /\ minimums'[q][i] = x)
        BY DEF KeepsWarm
    <3>1. minimums[q] \in Seq(Paths)
        BY <1>0 DEF TypeOK
    <3>2. CASE q = PoolOf[x]
      <4>1. minimums'[q] = Append(minimums[q], x)
          BY <1>0, <2>1, <3>2 DEF TypeOK
      <4>2. i \in DOMAIN Append(minimums[q], x)
          BY <4>1
      <4>3. Append(minimums[q], x)[i] = x \/ (i \in DOMAIN minimums[q] /\ Append(minimums[q], x)[i] = minimums[q][i])
          BY <3>1, <4>2
      <4> QED
          BY <3>2, <4>1, <4>3 DEF KeepsWarm
    <3>3. CASE q # PoolOf[x]
      <4>1. minimums'[q] = minimums[q]
          BY <1>0, <2>1, <3>3 DEF TypeOK
      <4> QED
          BY <4>1 DEF KeepsWarm
    <3> QED
        BY <3>2, <3>3
  <2>4. \A q \in Pools : \A y \in KeepsWarm(q)' : y \in KeepsWarm(q) \/ (PoolOf[y] = q /\ Attended(y)')
      BY <2>2, <2>3
  <2>5. Active' \subseteq Active
      BY <2>1, ActiveShrinks
  <2> QED
      BY <1>1, <1>2, <2>2, <2>4, <2>5, WarmStaysKnown
<1>6. CASE RefillTimer(x)
  <2>1. /\ refillTimers' = refillTimers \ {x} /\ refilling' = <<x>>
        /\ UNCHANGED <<minimums, members, closed, disposing>>
      BY <1>6 DEF RefillTimer
  <2>2. \A y : y \in refillTimers => Attended(y)'
    <3>1. x \in ToRefill'
        BY <2>1 DEF ToRefill
    <3> QED
        BY <2>1, <3>1 DEF Attended
  <2>3. \A q \in Pools : KeepsWarm(q)' = KeepsWarm(q)
      BY <2>1 DEF KeepsWarm
  <2> QED
      BY <1>1, <1>2, <2>1, <2>2, <2>3, ActiveShrinks, WarmStaysKnown
<1>7. CASE Dispose(p) \/ DisposeTimeout(p)
  <2>1. /\ minimums' = [minimums EXCEPT ![p] = <<>>]
        /\ refillTimers' = {y \in refillTimers : PoolOf[y] # p}
        /\ members' \subseteq members /\ closed \subseteq closed' /\ disposing \subseteq disposing'
      BY <1>7 DEF Dispose, DisposeTimeout, StopKeepingWarm
  <2>2. \A q \in Pools : KeepsWarm(q)' = IF q = p THEN {} ELSE KeepsWarm(q)
    <3>1. KeepsWarm(p)' = {}
        BY <1>0, <2>1 DEF KeepsWarm, TypeOK
    <3>2. ASSUME NEW q \in Pools, q # p PROVE KeepsWarm(q)' = KeepsWarm(q)
      <4>1. minimums'[q] = minimums[q]
          BY <1>0, <2>1, <3>2 DEF TypeOK
      <4> QED
          BY <4>1 DEF KeepsWarm
    <3> QED
        BY <3>1, <3>2
  <2>3. \A y : y \in refillTimers /\ PoolOf[y] # p => Attended(y)'
      BY <2>1 DEF Attended
  <2>4. ASSUME NEW y \in Paths, PoolOf[y] \in Active', y \in KeepsWarm(PoolOf[y])', Lacks(y)'
        PROVE  Attended(y)' \/ (Lacks(y) /\ ~Attended(y))
    <3>1. PoolOf[y] # p
        BY <2>2, <2>4
    <3> QED
        BY <1>1, <1>2, <2>3, <2>4, <3>1
  <2>5. \A q \in Pools : \A y \in KeepsWarm(q)' : y \in KeepsWarm(q)
      BY <2>2
  <2>6. Active' \subseteq Active
      BY <2>1, ActiveShrinks
  <2> QED
      BY <2>4, <2>5, <2>6, WarmStaysKnown
<1> QED
    BY <1>3, <1>4, <1>5, <1>6, <1>7

LEMMA RestOfTurnWarm ==
    ASSUME WarmHolds, OneWarmed, RestOfTurn
    PROVE  WarmIsKnown'
<1>0. Safe /\ TypeOK /\ TypeOK'
    BY DEF WarmHolds, Safe
<1>1. CASE \E p \in Pools : WakeLine(p)
  <2>1. UNCHANGED <<minimums, refillTimers, warming, refilling, held, members, closed, disposing,
                    listed, workerPath>>
      BY <1>1 DEF WakeLine, lifeVars, backoffVars, workerVars
  <2> QED
      BY <2>1, SameLists, ActiveShrinks, WarmUntouched
<1>2. CASE Offer
  <2> DEFINE r == Head(offering)
  <2>1. r \in Requests
      BY <1>0, <1>2 DEF TypeOK, Offer
  <2>2. /\ GetWorker(r) \/ GetsNone(r) \/ UNCHANGED workerVars
        /\ UNCHANGED <<minimums, refillTimers, warming, refilling, held, members, closed, disposing>>
      BY <1>2 DEF Offer, GetsNone, lifeVars, backoffVars
  <2> HIDE DEF r
  <2>3. \A x \in Paths : PoolOf[x] \in Active /\ Lacks(x)' => Lacks(x)
      BY <2>1, <2>2, AskedLacksNothing
  <2> QED
      BY <2>2, <2>3, ActiveShrinks, WarmUntouched
<1>3. CASE StopIdle
  <2>1. UNCHANGED <<minimums, refillTimers, warming, refilling, held, members, closed, disposing,
                    listed, workerPath>>
      BY <1>3 DEF StopIdle, lifeVars, backoffVars
  <2> QED
      BY <2>1, SameLists, ActiveShrinks, WarmUntouched
<1>4. CASE CheckDisposed
  <2>1. UNCHANGED <<minimums, refillTimers, warming, refilling, held, closed, listed, workerPath>>
      BY <1>4 DEF CheckDisposed, backoffVars, workerVars
  <2>2. Active' \subseteq Active
      BY <1>4, <2>1 DEF CheckDisposed, Active
  <2> QED
      BY <2>1, <2>2, SameLists, WarmUntouched
<1>5. ASSUME NEW x \in Paths, WarmStart(x) PROVE WarmIsKnown'
  <2>1. PICK w \in Workers : CreateWorker(w, x, listed, {})
      BY <1>5 DEF WarmStart
  <2>2. UNCHANGED <<minimums, refillTimers, warming, refilling, held, members, closed, disposing>>
      BY <1>5 DEF WarmStart, turnVars, lifeVars, backoffVars
  <2>3. listed \in SUBSET listed /\ {} \in SUBSET Requests
      OBVIOUS
  <2>4. \A y \in Paths : Lacks(y)' => Lacks(y)
      BY <2>1, <2>3, StartsLackNothing
  <2> QED
      BY <2>2, <2>4, ActiveShrinks, WarmUntouched
<1>6. ASSUME NEW x \in Paths, WarmFails(x) PROVE WarmIsKnown'
    BY <1>6 DEF WarmFails, WarmHolds, EndsByItself
<1>7. ASSUME NEW x \in Paths, WarmDone(x) PROVE WarmIsKnown'
  <2>1. /\ UNCHANGED <<minimums, refillTimers, refilling, held, members, closed, disposing,
                       listed, workerPath>>
        /\ warming = {x} /\ ~ShouldWarm(x)
      BY <1>7 DEF WarmDone, lifeVars, backoffVars, workerVars, OneWarmed
  <2>2. \A y : Attended(y) /\ y # x => Attended(y)'
      BY <2>1 DEF Attended, ToRefill
  <2>3. x \in held => (Attended(x) => Attended(x)')
      BY <2>1 DEF Attended, ToRefill
  <2>4. x \notin held /\ PoolOf[x] \in Active => ~Lacks(x)
      BY <2>1 DEF ShouldWarm, HasRoomFor, HasRoom, BudgetHasRoom, Lacks, Active, WarmHolds, EndsByItself
  <2>5. \A y \in Paths : Lacks(y)' => Lacks(y)
      BY <2>1, SameLists
  <2>6. Active' \subseteq Active /\ \A q \in Pools : KeepsWarm(q)' = KeepsWarm(q)
      BY <2>1, ActiveShrinks DEF KeepsWarm
  <2>7. ASSUME NEW y \in Paths, PoolOf[y] \in Active', Lacks(y)'
        PROVE  Attended(y)' \/ (Lacks(y) /\ ~Attended(y))
      BY <2>2, <2>3, <2>4, <2>5, <2>6, <2>7
  <2> QED
      BY <2>6, <2>7, WarmStaysKnown
<1>8. CASE Refill
  <2>0. PICK x \in Paths : x = Head(refilling)
      BY <1>0, <1>8 DEF Refill, TypeOK
  <2>1. /\ UNCHANGED <<minimums, held, members, closed, disposing, listed, workerPath>>
        /\ refilling \in Seq(Paths) /\ refilling # <<>> /\ refilling' = Tail(refilling) /\ warming = {}
        /\ refillTimers \subseteq refillTimers'
      BY <1>0, <1>8 DEF Refill, backoffVars, workerVars, TypeOK
  <2>2. \A y \in ToRefill : y = x \/ y \in ToRefill'
    <3>1. \A i \in DOMAIN refilling : i = 1 \/ (i - 1 \in DOMAIN Tail(refilling) /\ Tail(refilling)[i - 1] = refilling[i])
      <4>1. /\ Len(refilling) \in Nat \ {0} /\ DOMAIN refilling = 1..Len(refilling)
            /\ DOMAIN Tail(refilling) = 1..(Len(refilling) - 1)
            /\ \A i \in 1..(Len(refilling) - 1) : Tail(refilling)[i] = refilling[i + 1]
          BY <2>1, QueueTaken
      <4> QED
          BY <4>1
    <3>2. x = refilling[1]
        BY <2>0, <2>1, QueueTaken
    <3> QED
        BY <2>1, <3>1, <3>2 DEF ToRefill
  <2>3. PoolOf[x] \in Active /\ x \in KeepsWarm(PoolOf[x]) => Attended(x)'
    <3>1. ASSUME PoolOf[x] \in Active, x \in KeepsWarm(PoolOf[x]), x \notin refillTimers
          PROVE  /\ x \notin held => x \in warming'
                 /\ x \in held => x \in refillTimers'
      <4>1. /\ \E i \in DOMAIN minimums[PoolOf[x]] : minimums[PoolOf[x]][i] = x
            /\ PoolOf[x] \notin closed \cup disposing
          BY <3>1 DEF KeepsWarm, Active
      <4> QED
          BY <1>8, <2>0, <3>1, <4>1 DEF Refill
    <3> QED
        BY <2>1, <3>1 DEF Attended
  <2>4. \A y : Attended(y) /\ y # x => Attended(y)'
      BY <2>1, <2>2 DEF Attended
  <2>5. \A y \in Paths : Lacks(y)' => Lacks(y)
      BY <2>1, SameLists
  <2>6. Active' \subseteq Active /\ \A q \in Pools : KeepsWarm(q)' = KeepsWarm(q)
      BY <2>1, ActiveShrinks DEF KeepsWarm
  <2>7. \A y \in Paths : PoolOf[y] \in Pools
      BY PoolsOfThings
  <2>8. ASSUME NEW y \in Paths, PoolOf[y] \in Active', y \in KeepsWarm(PoolOf[y])', Lacks(y)'
        PROVE  Attended(y)' \/ (Lacks(y) /\ ~Attended(y))
      BY <2>3, <2>4, <2>5, <2>6, <2>7, <2>8
  <2> QED
      BY <2>6, <2>8, WarmStaysKnown
<1> QED
    BY <1>1, <1>2, <1>3, <1>4, <1>5, <1>6, <1>7, <1>8 DEF RestOfTurn

LEMMA InDisposalKept ==
    ASSUME Safe, TypeOK', StoppedInDisposal, UNCHANGED <<turn, after>>, disposing \subseteq disposing',
           closed \subseteq closed', retired' = retired,
           \A w \in listed' \cap stopping' : w \in listed \cap stopping /\ workerPath'[w] = workerPath[w]
    PROVE  StoppedInDisposal'
BY DEF StoppedInDisposal, PoolOfWorker

LEMMA AskedInDisposal ==
    ASSUME Safe, TypeOK', StoppedInDisposal, NEW r \in Requests,
           GetWorker(r) \/ GetsNone(r) \/ UNCHANGED workerVars,
           UNCHANGED <<turn, after, disposing, closed>>
    PROVE  StoppedInDisposal'
<1>0. TypeOK /\ PoolOf[PathOf[r]] \in Pools
    BY PoolsOfThings DEF Safe
<1>1. CASE TakeListed(r) \/ UNCHANGED workerVars
  <2>1. UNCHANGED <<listed, stopping, workerPath, retired>>
      BY <1>1 DEF TakeListed, workerVars
  <2> QED
      BY <2>1, InDisposalKept
<1>2. CASE GetsNone(r)
  <2>1. /\ UNCHANGED <<workerPath, retired>>
        /\ \/ UNCHANGED <<listed, stopping>>
           \/ \E v : listed' = listed \ {v} /\ stopping' = stopping \cup {v}
      BY <1>2 DEF GetsNone, GetNothing, SpawnFails, workerVars
  <2> QED
      BY <2>1, InDisposalKept
<1>3. CASE TakeNew(r) \/ TakeRoom(r)
  <2>1. PICK w \in Workers, D \in SUBSET listed :
            /\ CreateWorker(w, PathOf[r], listed \ D, {r}) /\ stopping' = stopping \cup D
    <3>1. CASE TakeNew(r)
      <4>1. PICK w \in Workers : CreateWorker(w, PathOf[r], listed, {r}) /\ stopping' = stopping
          BY <3>1 DEF TakeNew
      <4>2. {} \in SUBSET listed /\ listed \ {} = listed /\ stopping \cup {} = stopping
          OBVIOUS
      <4> QED
          BY <4>1, <4>2
    <3>2. CASE TakeRoom(r)
      <4>1. PICK v \in Victims(PoolOf[PathOf[r]]), w \in Workers :
                CreateWorker(w, PathOf[r], listed \ {v}, {r}) /\ stopping' = stopping \cup {v}
          BY <3>2 DEF TakeRoom
      <4>2. {v} \in SUBSET listed
          BY <1>0, <4>1, VictimsAreIdle
      <4> QED
          BY <4>1, <4>2
    <3> QED
        BY <1>3, <3>1, <3>2
  <2>2. /\ w \notin listed /\ w \notin stopping /\ listed' = (listed \ D) \cup {w} /\ retired' = retired
        /\ \A u \in listed : workerPath'[u] = workerPath[u]
      BY <1>0, <2>1 DEF Safe, SlotsAreClean, TypeOK, CreateWorker
  <2>3. \A u \in listed' \cap stopping' : u \in listed \cap stopping /\ workerPath'[u] = workerPath[u]
      BY <2>1, <2>2
  <2> QED
      BY <2>2, <2>3, InDisposalKept
<1> QED
    BY <1>1, <1>2, <1>3 DEF GetWorker

LEMMA DisposalStep ==
    EndsByItself /\ Safe /\ StoppedInDisposal /\ [Next]_vars => StoppedInDisposal'
<1> SUFFICES ASSUME EndsByItself, Safe, StoppedInDisposal, [Next]_vars PROVE StoppedInDisposal'
    OBVIOUS
<1>0. TypeOK /\ TypeOK'
    BY SafeStep DEF Safe
<1>1. CASE UNCHANGED vars
    BY <1>0, <1>1, InDisposalKept DEF vars, workerVars, lifeVars, turnVars
<1>2. CASE \E r \in Requests : Acquire(r)
  <2>1. PICK r \in Requests : Acquire(r)
      BY <1>2
  <2>2. /\ GetWorker(r) \/ GetsNone(r) \/ UNCHANGED workerVars
        /\ UNCHANGED <<turn, after, disposing, closed>>
      BY <2>1 DEF Acquire, GetsNone, NothingLeft, turnVars, lifeVars
  <2> QED
      BY <1>0, <2>1, <2>2, AskedInDisposal
<1>3. CASE \E r \in Requests : LeaveLine(r)
    BY <1>0, <1>3, InDisposalKept DEF LeaveLine, NothingLeft, turnVars, lifeVars, workerVars
<1>4. CASE \E r \in Requests : ReleaseLost(r)
    BY <1>4 DEF ReleaseLost, AfterRelease, WakeWaiting, lifeVars, workerVars, StoppedInDisposal, PoolOfWorker
<1>5. CASE \E r \in Requests, w \in Workers : Release(r, w)
    BY <1>5 DEF Release, AfterRelease, WakeWaiting, lifeVars, StoppedInDisposal, PoolOfWorker
<1>6. CASE \E w \in Workers : Ready(w) \/ StartTimeout(w) \/ KillAfter(w) \/ UptimeStable(w) \/ Exit(w)
  <2>1. /\ UNCHANGED <<listed, stopping, workerPath, retired, disposing, closed, after>>
        /\ after = {}
      BY <1>6 DEF Ready, StartTimeout, KillAfter, UptimeStable, Exit, NothingLeft, turnVars, lifeVars, Quiet
  <2> QED
      BY <2>1 DEF StoppedInDisposal, PoolOfWorker
<1>7. CASE \E w \in Workers : Close(w)
  <2>1. PICK w \in Workers : Close(w)
      BY <1>7
  <2>2. /\ listed' = listed \ {w} /\ workerPath' = [workerPath EXCEPT ![w] = AnyPath]
        /\ stopping' = stopping \ {w} /\ retired' = retired \ {w} /\ UNCHANGED <<disposing, closed>>
        /\ "stopIdle" \notin after'
      BY <2>1 DEF Close, AfterClose, lifeVars
  <2> QED
      BY <1>0, <2>2 DEF StoppedInDisposal, PoolOfWorker, TypeOK
<1>8. CASE \E x \in Paths : BackoffOver(x) \/ Warm(x) \/ KeepWarm(x) \/ RefillTimer(x)
  <2>1. /\ UNCHANGED <<listed, stopping, workerPath, retired, disposing, closed, after>>
        /\ after = {}
      BY <1>8 DEF BackoffOver, Warm, KeepWarm, RefillTimer, NothingLeft, turnVars, lifeVars, workerVars, Quiet
  <2> QED
      BY <2>1 DEF StoppedInDisposal, PoolOfWorker
<1>9. CASE \E p \in Pools : Dispose(p) \/ DisposeTimeout(p)
  <2>1. PICK p \in Pools : Dispose(p) \/ DisposeTimeout(p)
      BY <1>9
  <2>2. /\ UNCHANGED <<listed, workerPath, retired, after>> /\ after = {}
        /\ closed \subseteq closed' /\ disposing \subseteq disposing'
        /\ \A w \in stopping' \ stopping : w \in ListedIn(p, listed)
        /\ ListedIn(p, listed) = {} \/ p \in closed' \cup disposing'
      BY <2>1 DEF Dispose, DisposeTimeout, NothingLeft, turnVars, Quiet
  <2> QED
      BY <2>2 DEF StoppedInDisposal, PoolOfWorker, ListedIn
<1>10. CASE RestOfTurn
  <2>1. CASE \E p \in Pools : WakeLine(p)
      BY <1>0, <2>1, InDisposalKept DEF WakeLine, lifeVars, workerVars
  <2>2. CASE Offer
    <3>1. Head(offering) \in Requests
        BY <1>0, <2>2 DEF TypeOK, Offer
    <3>2. /\ GetWorker(Head(offering)) \/ GetsNone(Head(offering)) \/ UNCHANGED workerVars
          /\ UNCHANGED <<turn, after, disposing, closed>>
        BY <2>2 DEF Offer, GetsNone, lifeVars
    <3> QED
        BY <1>0, <3>1, <3>2, AskedInDisposal
  <2>3. CASE StopIdle
      BY <2>3 DEF StopIdle, lifeVars, StoppedInDisposal, PoolOfWorker, ListedIn
  <2>4. CASE CheckDisposed
      BY <2>4 DEF CheckDisposed, workerVars, StoppedInDisposal, PoolOfWorker, ListedIn
  <2>5. ASSUME NEW x \in Paths, WarmStart(x) PROVE StoppedInDisposal'
    <3>1. PICK w \in Workers : CreateWorker(w, x, listed, {})
        BY <2>5 DEF WarmStart
    <3>2. UNCHANGED <<stopping, turn, after, disposing, closed>>
        BY <2>5 DEF WarmStart, turnVars, lifeVars
    <3>3. /\ w \notin listed /\ w \notin stopping /\ listed' = listed \cup {w} /\ retired' = retired
          /\ \A u \in listed : workerPath'[u] = workerPath[u]
        BY <1>0, <3>1 DEF Safe, SlotsAreClean, TypeOK, CreateWorker
    <3> QED
        BY <1>0, <3>2, <3>3, InDisposalKept
  <2>6. CASE Refill \/ \E x \in Paths : WarmFails(x) \/ WarmDone(x)
    <3>1. /\ UNCHANGED <<listed, stopping, workerPath, retired, disposing, closed, after>>
          /\ after = {}
        BY <2>6 DEF Refill, WarmFails, WarmDone, lifeVars, workerVars
    <3> QED
        BY <3>1 DEF StoppedInDisposal, PoolOfWorker
  <2> QED
      BY <1>10, <2>1, <2>2, <2>3, <2>4, <2>5, <2>6 DEF RestOfTurn
<1>11. /\ \A r \in Requests, w \in Workers : ~Kill(r, w)
       /\ \A w \in Workers : ~AgeTimeout(w) /\ ~IdleTimeout(w)
    BY DEF Kill, AgeTimeout, IdleTimeout, EndsByItself
<1> QED
    BY <1>1, <1>2, <1>3, <1>4, <1>5, <1>6, <1>7, <1>8, <1>9, <1>10, <1>11 DEF Next

WarmInv == WarmIsKnown /\ StoppedInDisposal /\ OneWarmed

LEMMA WarmStep ==
    ASSUME EndsByItself
    PROVE  Safe /\ WithinLimits /\ WarmInv /\ [Next]_vars => WarmInv'
<1> SUFFICES ASSUME Safe, WithinLimits, WarmInv, [Next]_vars PROVE WarmInv'
    OBVIOUS
<1>1. StoppedInDisposal' /\ OneWarmed'
    BY DisposalStep, WarmedStep DEF WarmInv, Safe
<1>2. WarmHolds
    BY SafeStep DEF WarmHolds, WarmInv
<1>3. OneWarmed
    BY DEF WarmInv
<1>4. CASE UNCHANGED vars
  <2>1. UNCHANGED <<minimums, refillTimers, warming, refilling, held, members, closed, disposing,
                    listed, workerPath>>
      BY <1>4 DEF vars, workerVars, backoffVars, lifeVars, turnVars
  <2>2. /\ Active' \subseteq Active /\ held' \subseteq held
        /\ UNCHANGED <<minimums, refillTimers, warming, refilling>>
      BY <2>1, ActiveShrinks
  <2>3. \A x \in Paths : Lacks(x)' => Lacks(x)
      BY <1>2, <2>1, SameLists
  <2>4. WarmIsKnown'
      BY <1>2, <2>2, <2>3, WarmUntouched
  <2> QED
      BY <1>1, <2>4 DEF WarmInv
<1>5. ASSUME Next PROVE WarmIsKnown'
  <2>1. ASSUME NEW r \in Requests, Acquire(r) \/ LeaveLine(r) \/ ReleaseLost(r) PROVE WarmIsKnown'
      BY <1>2, <2>1, RequestStepsWarm
  <2>2. ASSUME NEW r \in Requests, NEW w \in Workers, Release(r, w) \/ Kill(r, w) PROVE WarmIsKnown'
      BY <1>2, <2>2, LeaseStepsWarm
  <2>3. ASSUME NEW w \in Workers,
               \/ Ready(w) \/ StartTimeout(w) \/ KillAfter(w) \/ AgeTimeout(w)
               \/ IdleTimeout(w) \/ UptimeStable(w) \/ Exit(w)
        PROVE  WarmIsKnown'
      BY <1>2, <2>3, WorkerStepsWarm
  <2>4. ASSUME NEW w \in Workers, Close(w) PROVE WarmIsKnown'
      BY <1>2, <2>4, CloseWarm
  <2>5. ASSUME NEW x \in Paths, BackoffOver(x) \/ Warm(x) \/ KeepWarm(x) \/ RefillTimer(x)
        PROVE  WarmIsKnown'
    <3>1. PoolOf[x] \in Pools
        BY PoolsOfThings
    <3> QED
        BY <1>2, <2>5, <3>1, OwnerStepsWarm
  <2>6. ASSUME NEW p \in Pools, Dispose(p) \/ DisposeTimeout(p) PROVE WarmIsKnown'
    <3>1. PICK x : x \in Paths
        BY SetsAssumption
    <3> QED
        BY <1>2, <2>6, <3>1, OwnerStepsWarm
  <2>7. CASE RestOfTurn
      BY <1>2, <1>3, <2>7, RestOfTurnWarm
  <2> QED
      BY <1>5, <2>1, <2>2, <2>3, <2>4, <2>5, <2>6, <2>7 DEF Next
<1> QED
    BY <1>1, <1>4, <1>5 DEF WarmInv

LEMMA InitWarm == Init => WarmInv
BY DEF Init, WarmInv, WarmIsKnown, StoppedInDisposal, OneWarmed, KeepsWarm

LEMMA WarmEnough == TypeOK /\ EndsByItself /\ WarmIsKnown => KeptWarm
<1> SUFFICES ASSUME TypeOK, EndsByItself, WarmIsKnown, Quiet, NEW p \in Pools, NEW i \in DOMAIN minimums[p],
                    p \in Active, minimums[p][i] \notin refillTimers
             PROVE  ~ShouldWarm(minimums[p][i])
    BY DEF KeptWarm, Active
<1> DEFINE x == minimums[p][i]
<1>1. PoolOf[x] = p /\ (Lacks(x) => Attended(x))
    BY DEF WarmIsKnown, KeepsWarm
<1>2. ~Attended(x)
    BY DEF Attended, ToRefill, Quiet
<1> HIDE DEF x
<1>3. ~ShouldWarm(x)
    BY <1>1, <1>2 DEF Lacks, ShouldWarm, HasRoomFor, HasRoom
<1> QED
    BY <1>3 DEF x

(* Where workers end by themselves, a path that is kept warm has its       *)
(* workers, or a timer to start them, whenever its pool has room: crashes, *)
(* backoffs, evictions and the disposal of pools leave none forgotten.     *)
THEOREM WarmPathsAreKept ==
    ASSUME EndsByItself
    PROVE  Spec => []KeptWarm
<1>1. Spec => []Safe /\ []WithinLimits
    BY InitSafe, SafeStep, LimitsHold, PTL DEF Spec
<1>2. Safe /\ WithinLimits /\ WarmInv /\ [Next]_vars => WarmInv'
    BY WarmStep
<1>3. Safe /\ WarmInv => KeptWarm
    BY WarmEnough DEF Safe, WarmInv
<1> QED
    BY <1>1, <1>2, <1>3, InitWarm, PTL DEF Spec

=============================================================================
