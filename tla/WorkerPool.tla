----------------------------- MODULE WorkerPool -----------------------------
(***************************************************************************)
(* The worker pools of node-worker (pool/utils/worker-pool.ts) that share  *)
(* one budget: which processes run, which request holds which worker, who  *)
(* waits in line, and what happens when a process, a timer or the owner of *)
(* a pool interferes.                                                      *)
(*                                                                         *)
(* The program is one Node.js process, so a handler runs to completion     *)
(* before the next event.  A handler is a TURN here: the event's action    *)
(* does what the handler does first and writes down the rest (the lines to *)
(* wake, the paths to refill, ...); the actions of section "The rest of a  *)
(* turn" then do that rest in the order of the code, and no event is       *)
(* possible before it is done (Quiet).  Every state between two turns is a *)
(* state of the program, the states within a turn are nobody's to see.     *)
(***************************************************************************)
EXTENDS Naturals, Sequences, FiniteSets, SequencesExt

CONSTANTS
    Pools,         \* the pools that join the budget
    Paths,         \* the worker files
    Requests,      \* the callers of acquire, each asks again once it is done
    Workers,       \* room for processes, a slot is used again after a close
    PoolOf,        \* the pool that serves a worker file
    PathOf,        \* the worker file a request asks for
    OverallLimit,  \* overallLimit of each pool, 0 for no limit
    BudgetLimit,   \* limit of the shared budget, 0 for no limit
    Concurrency,   \* requests a worker takes at the same time, 0 for no limit
    Limit,         \* the workers of one path, Math.max(limit, 1)
    MaxQueue,      \* requests that may wait in a line, 0 for no limit
    WarmPaths,     \* the paths that warm and keepWarm are called for
    WarmCount,     \* how many workers a warm path has
    Handshake,     \* startTimeout > 0
    Happens,       \* the outside events of this instance, out of Outside
    Ends,          \* how a process ends in this instance, out of Ended
    MaxLeaving     \* bound: evicted processes alive before more work arrives

Outside == {"crash", "kill", "killAfter", "stable", "age", "idle",
            "leaveLine", "warm", "keepWarm", "dispose", "spawnFails"}

(* what a process that ends leaves behind: exit code 0, another exit code, *)
(* or a signal, for which node keeps the exitCode at null                  *)
Ended == {"done", "failed", "signalled"}

(* recordFailure holds a path back from the second crash in a row, so more *)
(* crashes than that make no difference                                    *)
CrashesToHold == 2

ASSUME SetsAssumption ==
    /\ IsFiniteSet(Workers)
    /\ PoolOf \in [Paths -> Pools]
    /\ PathOf \in [Requests -> Paths]
    /\ WarmPaths \subseteq Paths
    /\ Paths # {}

ASSUME LimitsAssumption ==
    /\ {OverallLimit, BudgetLimit, Concurrency, MaxQueue} \subseteq Nat
    /\ Limit \in Nat \ {0}
    /\ WarmCount \in Nat
    /\ MaxLeaving \in Nat

ASSUME EventsAssumption ==
    /\ Handshake \in BOOLEAN
    /\ Happens \subseteq Outside
    /\ Ends \subseteq Ended

VARIABLES
    \* the registry: what a pool knows of its workers
    proc,          \* the process of a slot: "none", "up" or one of Ended
    workerPath,    \* the path it was started for
    listed,        \* the workers of the paths; an evicted one is unlisted
    leases,        \* the requests that hold it
    stopping,      \* stopped or killed by the pool
    killed,        \* SIGKILL was sent
    retired,       \* reached its maximum age
    ready,         \* said READY
    stable,        \* ran for the minimum uptime
    \* the restart backoff
    failures,      \* crashes in a row per path, up to CrashesToHold
    held,          \* paths with a backoff that is not over
    \* requests
    queue,         \* the line of each pool
    lost,          \* requests whose worker ended before they let go of it
    \* the life of a pool
    minimums,      \* the paths a pool keeps warm
    refillTimers,  \* paths to refill when their backoff is over
    closed,        \* pools that stopped all their workers
    disposing,     \* pools with an onDisposed to call
    members,       \* pools in the budget
    \* the rest of the turn
    turn,          \* the pool whose handler runs
    offering,      \* the waiters that were taken out of a line
    waking,        \* pools whose line is still to be woken
    after,         \* what follows the waking
    warming,       \* the path that warm is starting workers for
    refilling      \* the paths still to refill

workerVars == <<proc, workerPath, listed, leases, stopping, killed, retired, ready, stable>>
backoffVars == <<failures, held>>
lineVars == <<queue, lost>>
lifeVars == <<minimums, refillTimers, closed, disposing, members>>
turnVars == <<turn, offering, waking, after, warming, refilling>>

vars == <<workerVars, backoffVars, lineVars, lifeVars, turnVars>>

AnyPath == CHOOSE x \in Paths : TRUE

TypeOK ==
    /\ proc \in [Workers -> {"none", "up"} \cup Ended]
    /\ workerPath \in [Workers -> Paths]
    /\ leases \in [Workers -> SUBSET Requests]
    /\ listed \subseteq Workers
    /\ stopping \subseteq Workers
    /\ killed \subseteq Workers
    /\ retired \subseteq Workers
    /\ ready \subseteq Workers
    /\ stable \subseteq Workers
    /\ failures \in [Paths -> 0..CrashesToHold]
    /\ held \subseteq Paths
    /\ queue \in [Pools -> Seq(Requests)]
    /\ lost \subseteq Requests
    /\ minimums \in [Pools -> Seq(Paths)]
    /\ refillTimers \subseteq Paths
    /\ closed \subseteq Pools
    /\ disposing \subseteq Pools
    /\ members \subseteq Pools
    /\ turn \in Pools
    /\ offering \in Seq(Requests)
    /\ waking \subseteq Pools
    /\ after \subseteq {"stopIdle", "checkDisposed"}
    /\ warming \subseteq Paths
    /\ refilling \in Seq(Paths)

Init ==
    /\ proc = [w \in Workers |-> "none"]
    /\ workerPath = [w \in Workers |-> AnyPath]
    /\ leases = [w \in Workers |-> {}]
    /\ listed = {}
    /\ stopping = {}
    /\ killed = {}
    /\ retired = {}
    /\ ready = {}
    /\ stable = {}
    /\ failures = [x \in Paths |-> 0]
    /\ held = {}
    /\ queue = [p \in Pools |-> <<>>]
    /\ lost = {}
    /\ minimums = [p \in Pools |-> <<>>]
    /\ refillTimers = {}
    /\ closed = {}
    /\ disposing = {}
    /\ members = Pools
    /\ turn \in Pools
    /\ offering = <<>>
    /\ waking = {}
    /\ after = {}
    /\ warming = {}
    /\ refilling = <<>>

-----------------------------------------------------------------------------
(* What the registry, the budget and the eviction answer                   *)

PoolOfWorker(w) == PoolOf[workerPath[w]]
PoolOfRequest(r) == PoolOf[PathOf[r]]
ListedIn(p, L) == {w \in L : PoolOfWorker(w) = p}
ForPath(x) == {w \in listed : workerPath[w] = x}
Load(w) == Cardinality(leases[w])
IsIdle(w) == leases[w] = {}

(* the room there is when the workers in L are the listed ones             *)
BelowOverallLimit(p, L) ==
    OverallLimit = 0 \/ Cardinality(ListedIn(p, L)) < OverallLimit
(* mutant: the last place is given away twice                              *)
BudgetHasOneMore(L) ==
    BudgetLimit = 0 \/ Cardinality({w \in L : PoolOfWorker(w) \in members}) <= BudgetLimit

BudgetHasRoom(L) ==
    BudgetLimit = 0 \/ Cardinality({w \in L : PoolOfWorker(w) \in members}) < BudgetLimit
HasRoom(p, L) == BelowOverallLimit(p, L) /\ BudgetHasRoom(L)

(* The workers of a path that take requests.  Only exitCode is looked at,  *)
(* so a process that a signal ended counts until its close event.          *)
Available(x) ==
    {w \in ForPath(x) : proc[w] \in {"up", "signalled"} /\ w \notin stopping \cup retired}
Open(x) == {w \in Available(x) : Concurrency = 0 \/ Load(w) < Concurrency}
LeastLoaded(x) == {w \in Open(x) : \A v \in Open(x) : Load(w) <= Load(v)}

(* mutant: the load of a worker is not looked at                           *)
BusyOrIdleWorkers(p) ==
    LET givers == IF BelowOverallLimit(p, listed) THEN members ELSE {p}
    IN  {w \in listed : PoolOfWorker(w) \in givers}

(* The idle workers that may be given up for pool p, and the ones that go  *)
(* first: a spare of a path before the last worker of one.  Which of them  *)
(* was used longest ago is left open.                                      *)
IdleWorkers(p) ==
    LET givers == IF BelowOverallLimit(p, listed) THEN members ELSE {p}
    IN  {w \in listed : PoolOfWorker(w) \in givers /\ IsIdle(w)}
Spare(w) == Cardinality(ForPath(workerPath[w])) > 1
Victims(p) == {w \in IdleWorkers(p) : Spare(w) \/ \A v \in IdleWorkers(p) : ~Spare(v)}

(* the cases of tryGetWorker, in the order of the code                     *)
FindsIdle(x) == \E w \in Available(x) : IsIdle(w)
Refuses(x) == ~FindsIdle(x) /\ x \in held /\ Available(x) = {}
MayStart(x) ==
    ~FindsIdle(x) /\ x \notin held /\ Cardinality(Available(x)) < Limit
HasRoomFor(x) == HasRoom(PoolOf[x], listed)
StartsWorker(x) == MayStart(x) /\ HasRoomFor(x)
Evicts(x) ==
    MayStart(x) /\ ~HasRoomFor(x) /\ Available(x) = {} /\ Victims(PoolOf[x]) # {}
Shares(x) == ~FindsIdle(x) /\ ~StartsWorker(x) /\ Open(x) # {}
Waits(x) ==
    /\ ~FindsIdle(x) /\ ~Refuses(x) /\ ~StartsWorker(x) /\ ~Evicts(x) /\ ~Shares(x)

-----------------------------------------------------------------------------
(* What a handler may do to the workers                                    *)

(* a process is spawned and gets its entry, L are the others listed        *)
CreateWorker(w, x, L, holders) ==
    /\ proc[w] = "none"
    /\ proc' = [proc EXCEPT ![w] = "up"]
    /\ workerPath' = [workerPath EXCEPT ![w] = x]
    /\ leases' = [leases EXCEPT ![w] = holders]
    /\ listed' = L \cup {w}
    /\ UNCHANGED <<killed, retired, ready, stable>>

(* an idle worker, or the least busy one when no other may be started      *)
TakeListed(r) ==
    LET x == PathOf[r] IN
    /\ FindsIdle(x) \/ Shares(x)
    /\ \E w \in LeastLoaded(x) : leases' = [leases EXCEPT ![w] = @ \cup {r}]
    /\ UNCHANGED <<proc, workerPath, listed, stopping, killed, retired, ready, stable>>

TakeNew(r) ==
    LET x == PathOf[r] IN
    /\ StartsWorker(x)
    /\ \E w \in Workers : CreateWorker(w, x, listed, {r})
    /\ UNCHANGED stopping

(* the victim leaves the list at once, its process ends later              *)
TakeRoom(r) ==
    LET x == PathOf[r] IN
    /\ Evicts(x)
    /\ \E v \in Victims(PoolOf[x]), w \in Workers :
         /\ HasRoom(PoolOf[x], listed \ {v})
         /\ CreateWorker(w, x, listed \ {v}, {r})
         /\ stopping' = stopping \cup {v}

(* tryGetWorker returned a worker: the request leases it                   *)
GetWorker(r) == TakeListed(r) \/ TakeNew(r) \/ TakeRoom(r)

(* tryGetWorker returned nothing.  A victim that does not make enough room *)
(* is stopped all the same.                                                *)
GetNothing(r) ==
    LET x == PathOf[r] IN
    \/ Waits(x) /\ UNCHANGED workerVars
    \/ /\ Evicts(x)
       /\ \E v \in Victims(PoolOf[x]) :
            /\ ~HasRoom(PoolOf[x], listed \ {v})
            /\ listed' = listed \ {v}
            /\ stopping' = stopping \cup {v}
       /\ UNCHANGED <<proc, workerPath, leases, killed, retired, ready, stable>>

(* createWorker throws where a worker should start, and tryGetWorker with  *)
(* it.  What was prepared is undone, but a victim is stopped by then.      *)
SpawnFails(r) ==
    LET x == PathOf[r] IN
    /\ "spawnFails" \in Happens
    /\ \/ StartsWorker(x) /\ UNCHANGED workerVars
       \/ /\ Evicts(x)
          /\ \E v \in Victims(PoolOf[x]) :
               /\ HasRoom(PoolOf[x], listed \ {v})
               /\ listed' = listed \ {v}
               /\ stopping' = stopping \cup {v}
          /\ UNCHANGED <<proc, workerPath, leases, killed, retired, ready, stable>>

-----------------------------------------------------------------------------
(* Turns                                                                   *)

Quiet ==
    offering = <<>> /\ waking = {} /\ after = {} /\ warming = {} /\ refilling = <<>>

(* mutant: only the line of the pool itself                                *)
WakeOwnLine(p) ==
    /\ turn' = p
    /\ waking' = {q \in {p} : queue[q] # <<>>}

(* wakeWaiting: the line of the pool, then the lines of the others in the  *)
(* budget.  An empty line is not worth a step.                             *)
WakeWaiting(p) ==
    /\ turn' = p
    /\ waking' = {q \in {p} \cup members : queue[q] # <<>>}

(* the handler only wakes the line of its own pool                         *)
WakeUp(p) ==
    /\ turn' = p
    /\ waking' = {q \in {p} : queue[q] # <<>>}

NothingLeft == UNCHANGED turnVars

(* Evicted processes pile up only as long as the system is slow to end     *)
(* them; the bound is on the events that ask for more.                     *)
Leaving == {w \in Workers : proc[w] # "none" /\ w \notin listed}
Bounded == Cardinality(Leaving) <= MaxLeaving

IsWaiting(r) == \E p \in Pools : \E i \in DOMAIN queue[p] : queue[p][i] = r
Holds(r, w) == r \in leases[w]
IsAway(r) == ~IsWaiting(r) /\ r \notin lost /\ \A w \in Workers : ~Holds(r, w)

-----------------------------------------------------------------------------
(* Requests                                                                *)

(* A request that comes looks for a worker at once, whoever waits.         *)
Acquire(r) ==
    LET p == PoolOfRequest(r) IN
    /\ Quiet /\ Bounded /\ IsAway(r)
    /\ \/ GetWorker(r) /\ UNCHANGED queue
       \/ /\ GetNothing(r)
          /\ queue' = IF MaxQueue > 0 /\ Len(queue[p]) >= MaxQueue
                      THEN queue
                      ELSE [queue EXCEPT ![p] = Append(@, r)]
       \/ Refuses(PathOf[r]) /\ UNCHANGED <<workerVars, queue>>
       \/ SpawnFails(r) /\ UNCHANGED queue
    /\ NothingLeft
    /\ UNCHANGED <<lost, backoffVars, lifeVars>>

(* the acquire timeout passed, or the client went away                     *)
LeaveLine(r) ==
    LET p == PoolOfRequest(r) IN
    /\ "leaveLine" \in Happens
    /\ Quiet
    /\ \E i \in DOMAIN queue[p] :
         queue[p][i] = r /\ queue' = [queue EXCEPT ![p] = RemoveAt(@, i)]
    /\ NothingLeft
    /\ UNCHANGED <<lost, workerVars, backoffVars, lifeVars>>

(* mutant: nobody is told of a place that is free                          *)
AfterReleaseUntold(p) ==
    /\ turn' = p /\ waking' = {}
    /\ after' = IF p \in disposing THEN {"stopIdle"} ELSE {}
    /\ UNCHANGED <<offering, warming, refilling>>

(* what follows a released lease: a pool that is disposed of stops the     *)
(* workers without requests, after the line was served                     *)
AfterRelease(p) ==
    /\ WakeWaiting(p)
    /\ after' = IF p \in disposing THEN {"stopIdle"} ELSE {}
    /\ UNCHANGED <<offering, warming, refilling>>

(* lease.release: a retired worker stops with its last request             *)
Release(r, w) ==
    /\ Quiet /\ Bounded
    /\ Holds(r, w)
    /\ leases' = [leases EXCEPT ![w] = @ \ {r}]
    /\ stopping' = IF w \in retired /\ leases[w] = {r} THEN stopping \cup {w} ELSE stopping
    /\ AfterRelease(PoolOfWorker(w))
    /\ UNCHANGED <<proc, workerPath, listed, killed, retired, ready, stable>>
    /\ UNCHANGED <<lineVars, backoffVars, lifeVars>>

(* the same for a lease whose worker ended                                 *)
ReleaseLost(r) ==
    /\ Quiet /\ Bounded
    /\ r \in lost
    /\ lost' = lost \ {r}
    /\ AfterRelease(PoolOfRequest(r))
    /\ UNCHANGED <<queue, workerVars, backoffVars, lifeVars>>

(* lease.kill: the request ran out of time                                 *)
Kill(r, w) ==
    /\ "kill" \in Happens
    /\ Quiet
    /\ Holds(r, w)
    /\ w \notin stopping \cap killed
    /\ stopping' = stopping \cup {w}
    /\ killed' = killed \cup {w}
    /\ NothingLeft
    /\ UNCHANGED <<proc, workerPath, listed, leases, retired, ready, stable>>
    /\ UNCHANGED <<lineVars, backoffVars, lifeVars>>

-----------------------------------------------------------------------------
(* Timers and messages of a worker                                         *)

(* READY arrives, from a process that may have been killed meanwhile.      *)
(* Without the handshake nobody reads the flag.                            *)
Ready(w) ==
    /\ Handshake
    /\ Quiet
    /\ proc[w] # "none" /\ w \notin ready
    /\ ready' = ready \cup {w}
    /\ WakeWaiting(PoolOfWorker(w))
    /\ UNCHANGED <<after, offering, warming, refilling>>
    /\ UNCHANGED <<proc, workerPath, listed, leases, stopping, killed, retired, stable>>
    /\ UNCHANGED <<lineVars, backoffVars, lifeVars>>

(* SIGKILL for a worker that is not ready in time                          *)
StartTimeout(w) ==
    /\ Handshake
    /\ Quiet
    /\ proc[w] = "up" /\ w \notin ready \cup killed
    /\ killed' = killed \cup {w}
    /\ NothingLeft
    /\ UNCHANGED <<proc, workerPath, listed, leases, stopping, retired, ready, stable>>
    /\ UNCHANGED <<lineVars, backoffVars, lifeVars>>

(* the kill timer that stop starts                                         *)
KillAfter(w) ==
    /\ "killAfter" \in Happens
    /\ Quiet
    /\ proc[w] = "up" /\ w \in stopping \ killed
    /\ killed' = killed \cup {w}
    /\ NothingLeft
    /\ UNCHANGED <<proc, workerPath, listed, leases, stopping, retired, ready, stable>>
    /\ UNCHANGED <<lineVars, backoffVars, lifeVars>>

(* mutant: an old worker is stopped whatever it does                       *)
AgeStops(w) ==
    /\ "age" \in Happens
    /\ Quiet
    /\ proc[w] # "none" /\ w \notin retired \cup stopping
    /\ retired' = retired \cup {w}
    /\ stopping' = stopping \cup {w}
    /\ NothingLeft
    /\ UNCHANGED <<proc, workerPath, listed, leases, killed, ready, stable>>
    /\ UNCHANGED <<lineVars, backoffVars, lifeVars>>

(* retire.  It changes nothing for a worker that is being stopped.         *)
AgeTimeout(w) ==
    /\ "age" \in Happens
    /\ Quiet
    /\ proc[w] # "none" /\ w \notin retired \cup stopping
    /\ retired' = retired \cup {w}
    /\ stopping' = IF IsIdle(w) THEN stopping \cup {w} ELSE stopping
    /\ NothingLeft
    /\ UNCHANGED <<proc, workerPath, listed, leases, killed, ready, stable>>
    /\ UNCHANGED <<lineVars, backoffVars, lifeVars>>

Minimum(x) == IF \E i \in DOMAIN minimums[PoolOf[x]] : minimums[PoolOf[x]][i] = x
              THEN WarmCount ELSE 0

(* onIdleTimeout: nobody is woken for the slot it frees                    *)
IdleTimeout(w) ==
    /\ "idle" \in Happens
    /\ Quiet /\ Bounded
    /\ proc[w] # "none" /\ w \notin stopping /\ IsIdle(w)
    /\ Cardinality(ForPath(workerPath[w])) > Minimum(workerPath[w])
    /\ listed' = listed \ {w}
    /\ stopping' = stopping \cup {w}
    /\ NothingLeft
    /\ UNCHANGED <<proc, workerPath, leases, killed, retired, ready, stable>>
    /\ UNCHANGED <<lineVars, backoffVars, lifeVars>>

(* a worker that was up for the minimum uptime clears its path             *)
UptimeStable(w) ==
    /\ "stable" \in Happens
    /\ Quiet
    /\ proc[w] # "none" /\ w \notin stable
    /\ stable' = stable \cup {w}
    /\ failures' = [failures EXCEPT ![workerPath[w]] = 0]
    /\ held' = held \ {workerPath[w]}
    /\ NothingLeft
    /\ UNCHANGED <<proc, workerPath, listed, leases, stopping, killed, retired, ready>>
    /\ UNCHANGED <<lineVars, lifeVars>>

(* Date.now() passes retryAt, there is no handler for it                   *)
BackoffOver(x) ==
    /\ Quiet
    /\ x \in held
    /\ held' = held \ {x}
    /\ NothingLeft
    /\ UNCHANGED <<failures, workerVars, lineVars, lifeVars>>

-----------------------------------------------------------------------------
(* The end of a process                                                    *)

(* The exit: of itself, or because the pool sent a signal.  The pool does  *)
(* not listen to it, the close event comes when the pipes are drained.     *)
Exit(w) ==
    /\ Quiet
    /\ proc[w] = "up"
    /\ "crash" \in Happens \/ w \in stopping \cup killed
    /\ \E how \in Ends : proc' = [proc EXCEPT ![w] = how]
    /\ NothingLeft
    /\ UNCHANGED <<workerPath, listed, leases, stopping, killed, retired, ready, stable>>
    /\ UNCHANGED <<lineVars, backoffVars, lifeVars>>

(* recordCrash: the code of a signalled process is null                    *)
IsCrash(w) ==
    /\ ~(Handshake /\ w \in ready)
    /\ w \notin stopping
    /\ w \notin stable \/ proc[w] = "failed"

RecordFailure(x) ==
    LET count == IF failures[x] < CrashesToHold THEN failures[x] + 1 ELSE CrashesToHold
    IN  /\ failures' = [failures EXCEPT ![x] = count]
        /\ held' = IF count < CrashesToHold THEN held \ {x} ELSE held \cup {x}

(* mutant: checkDisposed comes before the worker is removed, and finds it  *)
AfterCloseTooEarly(p) ==
    /\ WakeWaiting(p)
    /\ after' = {}

AfterClose(p) ==
    /\ WakeWaiting(p)
    /\ after' = IF p \in disposing THEN {"checkDisposed"} ELSE {}

(* the close steps up to cleanUpWorker; wakeWaiting, checkPoolDisposed and *)
(* refillWarmPathsUnlessStopped are the rest of the turn                   *)
Close(w) ==
    LET p == PoolOfWorker(w) IN
    /\ Quiet
    /\ proc[w] \in Ended
    /\ IF IsCrash(w) THEN RecordFailure(workerPath[w]) ELSE UNCHANGED backoffVars
    /\ proc' = [proc EXCEPT ![w] = "none"]
    /\ workerPath' = [workerPath EXCEPT ![w] = AnyPath]
    /\ listed' = listed \ {w}
    /\ leases' = [leases EXCEPT ![w] = {}]
    /\ stopping' = stopping \ {w}
    /\ killed' = killed \ {w}
    /\ retired' = retired \ {w}
    /\ ready' = ready \ {w}
    /\ stable' = stable \ {w}
    /\ lost' = lost \cup leases[w]
    /\ AfterClose(p)
    /\ refilling' = IF w \in stopping THEN <<>> ELSE minimums[p]
    /\ UNCHANGED <<queue, offering, warming, lifeVars>>

-----------------------------------------------------------------------------
(* The owner of a pool                                                     *)

(* warm, for the static worker                                             *)
Warm(x) ==
    /\ "warm" \in Happens
    /\ Quiet
    /\ x \in WarmPaths
    /\ turn' = PoolOf[x]
    /\ warming' = {x}
    /\ UNCHANGED <<offering, waking, after, refilling>>
    /\ UNCHANGED <<workerVars, backoffVars, lineVars, lifeVars>>

(* keepWarm, once the probing of the file system found the worker file     *)
KeepWarm(x) ==
    LET p == PoolOf[x] IN
    /\ "keepWarm" \in Happens
    /\ Quiet
    /\ x \in WarmPaths
    /\ \A i \in DOMAIN minimums[p] : minimums[p][i] # x
    /\ minimums' = [minimums EXCEPT ![p] = Append(@, x)]
    /\ turn' = p
    /\ refilling' = <<x>>
    /\ UNCHANGED <<offering, waking, after, warming>>
    /\ UNCHANGED <<refillTimers, closed, disposing, members, workerVars, backoffVars, lineVars>>

RefillTimer(x) ==
    /\ Quiet
    /\ x \in refillTimers
    /\ refillTimers' = refillTimers \ {x}
    /\ turn' = PoolOf[x]
    /\ refilling' = <<x>>
    /\ UNCHANGED <<offering, waking, after, warming>>
    /\ UNCHANGED <<minimums, closed, disposing, members, workerVars, backoffVars, lineVars>>

StopKeepingWarm(p) ==
    /\ minimums' = [minimums EXCEPT ![p] = <<>>]
    /\ refillTimers' = {x \in refillTimers : PoolOf[x] # p}

(* dispose: the pool is done at once when it lists no worker               *)
Dispose(p) ==
    /\ "dispose" \in Happens
    /\ Quiet
    /\ p \in members \ disposing
    /\ StopKeepingWarm(p)
    /\ stopping' = stopping \cup {w \in ListedIn(p, listed) : IsIdle(w)}
    /\ IF ListedIn(p, listed) = {}
       THEN members' = members \ {p} /\ UNCHANGED disposing
       ELSE disposing' = disposing \cup {p} /\ UNCHANGED members
    /\ NothingLeft
    /\ UNCHANGED <<closed, proc, workerPath, listed, leases, killed, retired, ready, stable>>
    /\ UNCHANGED <<backoffVars, lineVars>>

(* onClose, when the disposal takes longer than its timeout                *)
DisposeTimeout(p) ==
    /\ Quiet
    /\ p \in disposing \ closed
    /\ closed' = closed \cup {p}
    /\ StopKeepingWarm(p)
    /\ stopping' = stopping \cup ListedIn(p, listed)
    /\ NothingLeft
    /\ UNCHANGED <<proc, workerPath, listed, leases, killed, retired, ready, stable>>
    /\ UNCHANGED <<disposing, members, backoffVars, lineVars>>

-----------------------------------------------------------------------------
(* The rest of a turn, in the order of the code: the waiters that were     *)
(* taken out, the other lines, stopIdle or checkDisposed, the warm paths   *)

(* wakeUp takes the whole line, its own pool's before the others'          *)
WakeLine(p) ==
    /\ offering = <<>>
    /\ p \in waking
    /\ turn \in waking => p = turn
    /\ offering' = queue[p]
    /\ queue' = [queue EXCEPT ![p] = <<>>]
    /\ waking' = waking \ {p}
    /\ UNCHANGED <<turn, after, warming, refilling>>
    /\ UNCHANGED <<lost, workerVars, backoffVars, lifeVars>>

(* the first one gets a worker, keeps its place, or is refused; the line   *)
(* goes on when a worker for it could not be started                       *)
Offer ==
    /\ offering # <<>>
    /\ LET r == Head(offering) IN
         \/ GetWorker(r) /\ UNCHANGED queue
         \/ GetNothing(r) /\ queue' = [queue EXCEPT ![PoolOfRequest(r)] = Append(@, r)]
         \/ Refuses(PathOf[r]) /\ UNCHANGED <<workerVars, queue>>
         \/ SpawnFails(r) /\ UNCHANGED queue
    /\ offering' = Tail(offering)
    /\ UNCHANGED <<turn, waking, after, warming, refilling>>
    /\ UNCHANGED <<lost, backoffVars, lifeVars>>

LinesServed == offering = <<>> /\ waking = {}

StopIdle ==
    /\ LinesServed
    /\ "stopIdle" \in after
    /\ after' = {}
    /\ stopping' = stopping \cup {w \in ListedIn(turn, listed) : IsIdle(w)}
    /\ UNCHANGED <<turn, offering, waking, warming, refilling>>
    /\ UNCHANGED <<proc, workerPath, listed, leases, killed, retired, ready, stable>>
    /\ UNCHANGED <<lineVars, backoffVars, lifeVars>>

(* onDisposed leaves the budget, which forgets the pool                    *)
CheckDisposed ==
    /\ LinesServed
    /\ "checkDisposed" \in after
    /\ after' = {}
    /\ IF ListedIn(turn, listed) = {}
       THEN disposing' = disposing \ {turn} /\ members' = members \ {turn}
       ELSE UNCHANGED <<disposing, members>>
    /\ UNCHANGED <<turn, offering, waking, warming, refilling>>
    /\ UNCHANGED <<minimums, refillTimers, closed, workerVars, backoffVars, lineVars>>

ShouldWarm(x) ==
    /\ PoolOf[x] \notin closed
    /\ Cardinality(ForPath(x)) < WarmCount
    /\ HasRoomFor(x)
    /\ x \notin held

(* one worker per step, the loop of warm goes on while it should           *)
WarmStart(x) ==
    /\ LinesServed /\ after = {}
    /\ x \in warming
    /\ ShouldWarm(x)
    /\ \E w \in Workers : CreateWorker(w, x, listed, {})
    /\ UNCHANGED <<stopping, turnVars, lineVars, backoffVars, lifeVars>>

(* warm throws, and with it the handler: the next paths are not refilled,  *)
(* nor is the line woken                                                   *)
WarmFails(x) ==
    /\ "spawnFails" \in Happens
    /\ LinesServed /\ after = {}
    /\ x \in warming
    /\ ShouldWarm(x)
    /\ warming' = {} /\ refilling' = <<>>
    /\ UNCHANGED <<turn, offering, waking, after>>
    /\ UNCHANGED <<workerVars, lineVars, backoffVars, lifeVars>>

WarmDone(x) ==
    /\ LinesServed /\ after = {}
    /\ x \in warming
    /\ ~ShouldWarm(x)
    /\ warming' = {}
    /\ WakeUp(PoolOf[x])
    /\ UNCHANGED <<offering, after, refilling>>
    /\ UNCHANGED <<workerVars, lineVars, backoffVars, lifeVars>>

(* mutant: a path that is held back is forgotten, no timer is set          *)
RefillNow ==
    /\ LinesServed /\ after = {} /\ warming = {}
    /\ refilling # <<>>
    /\ LET x == Head(refilling)
           p == PoolOf[x]
           wanted == /\ \E i \in DOMAIN minimums[p] : minimums[p][i] = x
                     /\ p \notin closed \cup disposing
                     /\ x \notin held \cup refillTimers
       IN  warming' = IF wanted THEN {x} ELSE {}
    /\ refilling' = Tail(refilling)
    /\ UNCHANGED <<turn, offering, waking, after>>
    /\ UNCHANGED <<lifeVars, workerVars, lineVars, backoffVars>>

(* refill of the next path: nothing when the pool ends or a timer is set   *)
(* already, a timer when the path is held back, else warm                  *)
Refill ==
    /\ LinesServed /\ after = {} /\ warming = {}
    /\ refilling # <<>>
    /\ LET x == Head(refilling)
           p == PoolOf[x]
           wanted == /\ \E i \in DOMAIN minimums[p] : minimums[p][i] = x
                     /\ p \notin closed \cup disposing
                     /\ x \notin refillTimers
       IN  /\ warming' = IF wanted /\ x \notin held THEN {x} ELSE {}
           /\ refillTimers' = IF wanted /\ x \in held THEN refillTimers \cup {x} ELSE refillTimers
    /\ refilling' = Tail(refilling)
    /\ UNCHANGED <<turn, offering, waking, after>>
    /\ UNCHANGED <<minimums, closed, disposing, members, workerVars, lineVars, backoffVars>>

-----------------------------------------------------------------------------

RestOfTurn ==
    \/ \E p \in Pools : WakeLine(p)
    \/ Offer
    \/ StopIdle
    \/ CheckDisposed
    \/ \E x \in Paths : WarmStart(x) \/ WarmFails(x) \/ WarmDone(x)
    \/ Refill

Next ==
    \/ \E r \in Requests : Acquire(r) \/ LeaveLine(r) \/ ReleaseLost(r)
    \/ \E r \in Requests, w \in Workers : Release(r, w) \/ Kill(r, w)
    \/ \E w \in Workers : Ready(w) \/ StartTimeout(w) \/ KillAfter(w) \/ AgeTimeout(w)
    \/ \E w \in Workers : IdleTimeout(w) \/ UptimeStable(w) \/ Exit(w) \/ Close(w)
    \/ \E x \in Paths : BackoffOver(x) \/ Warm(x) \/ KeepWarm(x) \/ RefillTimer(x)
    \/ \E p \in Pools : Dispose(p) \/ DisposeTimeout(p)
    \/ RestOfTurn

Spec == Init /\ [][Next]_vars

(* The event loop finishes a turn, the operating system ends a process     *)
(* that was sent a signal, node reports the close, and the code that holds *)
(* a lease lets go of it.  An event that stays possible between two turns  *)
(* gets its turn: strong fairness, as each other turn interrupts it.       *)
Fairness ==
    /\ WF_vars(RestOfTurn)
    /\ \A w \in Workers :
         /\ SF_vars(Exit(w) /\ w \in stopping \cup killed)
         /\ SF_vars(Close(w))
    /\ \A r \in Requests :
         SF_vars(ReleaseLost(r) \/ \E w \in Workers : Release(r, w))
    /\ \A p \in Pools : SF_vars(DisposeTimeout(p))

FairSpec == Spec /\ Fairness

-----------------------------------------------------------------------------
(* Properties                                                              *)

InLine(r) == IsWaiting(r) \/ \E i \in DOMAIN offering : offering[i] = r
IsServed(r) == \E w \in Workers : Holds(r, w)

(* While a line is served the ones that keep their place are in the queue  *)
(* again, before the ones that are still to be looked at.                  *)
LineOf(p) == queue[p] \o offering
Ahead(r, s) ==
    \E p \in Pools : \E i, j \in DOMAIN LineOf(p) : i < j /\ LineOf(p)[i] = r /\ LineOf(p)[j] = s

(* A worker that is taken out of the list, to make room or because it was  *)
(* idle, has no request, and gets none: what it is doing is lost otherwise *)
(* when its process stops.                                                 *)
LeasedStayListed ==
    \A w \in Workers : ~IsIdle(w) => w \in listed /\ proc[w] # "none"

(* The pool never stops a worker in the middle of a request (maxAge, idle  *)
(* timeout, eviction, disposal), unless the request asked to have it       *)
(* killed or the pool ran out of time for its disposal.                    *)
StopSparesRequests ==
    \A w \in stopping : IsIdle(w) \/ w \in killed \/ PoolOfWorker(w) \in closed

(* The limits hold for the workers that are listed, whatever interleaving  *)
(* of evictions, refills and pools leaving the budget.                     *)
WithinLimits ==
    /\ OverallLimit > 0 => \A p \in Pools : Cardinality(ListedIn(p, listed)) <= OverallLimit
    /\ BudgetLimit > 0 => Cardinality({w \in listed : PoolOfWorker(w) \in members}) <= BudgetLimit

(* Nothing is polled: a request that waits between two turns is one that   *)
(* would wait again if its line was woken now, so no wake-up is missing.   *)
NoLostWakeup ==
    Quiet => \A p \in members : \A i \in DOMAIN queue[p] : Waits(PathOf[queue[p][i]])

(* No request waits for a file while a worker of it that takes requests    *)
(* has a place left, whatever freed it: a release, a start, a refill.      *)
NoPlaceWasted ==
    Quiet => \A p \in members : \A i \in DOMAIN queue[p] : Open(PathOf[queue[p][i]]) = {}

(* First come, first served: a request that waits for a file is never      *)
(* passed by one that came later for the same file, be it a new request    *)
(* that finds the worker first or one that stood behind it in the line.    *)
NoOvertaking ==
    [][\A r, s \in Requests :
         /\ r # s /\ PathOf[r] = PathOf[s]
         /\ InLine(s) /\ ~Ahead(r, s) /\ ~IsServed(r)
         /\ InLine(s)'
         => ~Ahead(r, s)' /\ ~IsServed(r)']_vars

(* README.md of node-lambda-invoke, line 48, says that a request that      *)
(* comes after close() gets a lambda that stops after it: a pool that left *)
(* the budget keeps no idle worker.                                        *)
LateWorkerStops ==
    Quiet => \A w \in listed : PoolOfWorker(w) \notin members => ~IsIdle(w) \/ w \in stopping

(* worker-pool.test.ts, line 328, says that the pool does not hand out a   *)
(* worker that already exited: no request gets a worker whose process is   *)
(* gone, between its exit and its close event.                             *)
NoExitedWorker ==
    [][\A r \in Requests, w \in Workers : ~Holds(r, w) /\ Holds(r, w)' => proc[w] \notin Ended]_vars

(* A path that is kept warm has its workers whenever there is room for     *)
(* them that no waiting request takes and it is not held back.             *)
KeptWarm ==
    Quiet => \A p \in Pools : \A i \in DOMAIN minimums[p] :
        \/ p \in closed \cup disposing \/ p \notin members
        \/ minimums[p][i] \in refillTimers
        \/ ~ShouldWarm(minimums[p][i])

(* A pool that is disposed of ends: once no more requests come, its last   *)
(* worker stops and it leaves the budget.                                  *)
DisposalEnds ==
    \A p \in Pools :
        <>[](p \in disposing) => []<><<\E r \in Requests : PoolOfRequest(r) = p /\ Acquire(r)>>_vars

(* The line drains: when requests are released and no more come, nobody    *)
(* waits for ever (without the acquire timeout having to end it).          *)
LineDrains ==
    \A r \in Requests : <>[]InLine(r) => []<><<\E s \in Requests : Acquire(s)>>_vars
=============================================================================
