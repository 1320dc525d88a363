---------------------------- MODULE TargetStore ----------------------------
(***************************************************************************)
(* A proxy server with a dynamic target: the control path on which the     *)
(* service behind it registers where it is, the store that keeps the       *)
(* target in a file, one write after the other, its expiry, the agents of  *)
(* the connections, and the reload that replaces the store by another.     *)
(***************************************************************************)
EXTENDS Naturals, Sequences, FiniteSets

CONSTANTS
    Urls,           \* public addresses a service may register
    Bodies,         \* what a PUT sends
    Ttl,            \* ttl, 0 for none
    Window,         \* CONTROL_RATE_WINDOW
    FailuresLimit,  \* CONTROL_FAILURES_PER_WINDOW
    UpdatesLimit,   \* CONTROL_UPDATES_PER_WINDOW
    AllowPrivate,   \* allowPrivate
    MaxTime, MaxTargets, MaxReloads, MaxCrashes,  \* bounds
    MaxRemovals     \* bounds the writes that a removal without a target waits behind

VARIABLES
    now,        \* Date.now()
    up,         \* the process runs
    stores,     \* the stores of this process: current, its `saving` queue, writing
    serving,    \* the store the requests go to
    file,       \* what persistPath holds
    made,       \* targets made so far, which numbers the agents and the times
    agents,     \* the agents that keep connections, which are not retired
    bodies,     \* PUTs whose body is being read, with the store of their server
    failures,   \* failed attempts of the client in the window
    updates,    \* PUTs in the window
    window,     \* windowStart of both limiters
    last,       \* the target that was registered last, as its service was told
    uncertain,  \* a write failed or was cut, or two stores wrote the file
    late,       \* a store that was replaced still took a target
    reloads, crashes

limits == <<failures, updates, window>>
ghosts == <<last, uncertain, late>>
counts == <<reloads, crashes>>
vars == <<now, up, stores, serving, file, made, agents, bodies, limits, ghosts, counts>>

Target == [url : Urls, agent : Nat, setAt : Nat, expiresAt : Nat]
None == [url |-> "none", agent |-> 0, setAt |-> 0, expiresAt |-> 0]
Torn == [None EXCEPT !.url = "torn"]

IsExpired(target) == target.expiresAt # 0 /\ target.expiresAt <= now
Unexpired(target) == IF IsExpired(target) THEN None ELSE target
Stored(target) == [target EXCEPT !.agent = 0]

CreateProxyTarget(url, setAt, expiresAt) ==
    [url |-> url, agent |-> made + 1, setAt |-> setAt, expiresAt |-> expiresAt]

(* an unreadable file leaves the target unset                              *)
Restore ==
    IF file \in {None, Torn} \/ IsExpired(file) THEN None
    ELSE CreateProxyTarget(file.url, file.setAt, file.expiresAt)

NewStore(current) == [current |-> current, saving |-> <<>>, writing |-> FALSE]

Current == stores[serving].current

Init ==
    /\ now = 1 /\ up = TRUE
    /\ stores = <<NewStore(None)>>
    /\ serving = 1
    /\ file = None
    /\ made = 0 /\ agents = {}
    /\ bodies = {}
    /\ failures = 0 /\ updates = 0 /\ window = 1
    /\ last = None /\ uncertain = FALSE /\ late = FALSE
    /\ reloads = 0 /\ crashes = 0

Idle == \A s \in DOMAIN stores : stores[s].saving = <<>>

(* a save that does not wait for the one before it                         *)
SaveInFront(store, target) == [store EXCEPT !.saving = <<Stored(target)>> \o @]

(* the queue of writes with the target of now                              *)
Save(store, target) == [store EXCEPT !.saving = Append(@, Stored(target))]

(* retireAgent, when the next target does not use the agent as well         *)
RetireAgent(target, next) ==
    IF target.agent = next.agent THEN agents ELSE agents \ {target.agent}

Agents(target) == {target.agent} \ {0}

Replace(s, next, saves) ==
    /\ stores' = [stores EXCEPT ![s] = IF saves THEN Save([@ EXCEPT !.current = next], next)
                                       ELSE [@ EXCEPT !.current = next]]
    /\ agents' = RetireAgent(stores[s].current, next) \cup
                 (Agents(next) \ Agents(stores[s].current))

(* get, which drops a target that expired and leaves the file to restore   *)
Get == Replace(serving, Unexpired(Current), FALSE)

Set(s, url) ==
    LET expiresAt == IF Ttl = 0 THEN 0 ELSE now + Ttl
        current == stores[s].current
        next == IF current.url = url
                THEN [current EXCEPT !.setAt = made + 1, !.expiresAt = expiresAt]
                ELSE CreateProxyTarget(url, made + 1, expiresAt)
    IN  /\ made < MaxTargets
        /\ Replace(s, next, TRUE)
        /\ made' = made + 1
        /\ last' = Stored(next)

(* What the limiters count, which a new window forgets.                    *)
Counted(count) == IF now >= window + Window THEN 0 ELSE count

Hit(failed, updated) ==
    /\ failures' = Counted(failures) + failed
    /\ updates' = Counted(updates) + updated
    /\ window' = IF now >= window + Window THEN now ELSE window

Exceeded(count, limit) == Counted(count) >= limit

(* the status a PUT is refused with, 0 for none                            *)
Refusal(body) ==
    IF body.form = "big" THEN 413
    ELSE IF body.form # "object" \/ body.url # "ip" THEN 400
    ELSE IF body.private /\ ~AllowPrivate THEN 403 ELSE 0

(* a request for the service, not for the control path                     *)
Serve ==
    /\ up /\ IsExpired(Current)
    /\ Get
    /\ UNCHANGED <<now, up, serving, file, made, bodies, limits, ghosts, counts>>

(* A request on the control path, up to its body.                          *)
Control ==
    \E secure, authorized \in BOOLEAN, method \in {"GET", "DELETE", "PUT", "POST"} :
        LET passes == secure /\ ~Exceeded(failures, FailuresLimit)
            takes == method = "PUT" /\ ~Exceeded(updates, UpdatesLimit)
        IN  /\ up /\ passes
            /\ \/ /\ ~authorized
                  /\ Hit(1, 0)
                  /\ UNCHANGED <<stores, agents, bodies, last>>
               \/ /\ authorized /\ method = "GET"
                  /\ Get
                  /\ UNCHANGED <<limits, bodies, last>>
               \/ /\ authorized /\ method = "DELETE"
                  /\ Current = None => Len(stores[serving].saving) < MaxRemovals
                  /\ Replace(serving, None, TRUE)
                  /\ last' = None
                  /\ UNCHANGED <<limits, bodies>>
               \/ /\ authorized /\ takes
                  /\ Hit(0, 1)
                  /\ \E url \in Urls : bodies' = bodies \cup {[store |-> serving, url |-> url]}
                  /\ UNCHANGED <<stores, agents, last>>
            /\ UNCHANGED <<now, up, serving, file, made, uncertain, late, counts>>

(* The body of a PUT is there.  A reload may have replaced the store since *)
(* the request came.                                                       *)
Put(put) ==
    /\ up
    /\ bodies' = bodies \ {put}
    /\ \E body \in Bodies :
       IF Refusal(body) = 0
       THEN /\ Set(put.store, put.url)
            /\ late' = (late \/ put.store # serving)
            /\ uncertain' = (put.store # serving \/ (uncertain /\ ~Idle))
       ELSE UNCHANGED <<stores, agents, made, ghosts>>
    /\ UNCHANGED <<now, up, serving, file, limits, counts>>

Left(put) ==
    /\ up
    /\ bodies' = bodies \ {put}
    /\ UNCHANGED <<now, up, stores, serving, file, made, agents, limits, ghosts, counts>>

Others(s) == \E t \in DOMAIN stores \ {s} : stores[t].writing

Dequeue(s) == stores' = [stores EXCEPT ![s].saving = Tail(@), ![s].writing = FALSE]

(* the file is opened, which empties it                                    *)
BeginWrite(s) ==
    /\ up /\ stores[s].saving # <<>> /\ ~stores[s].writing
    /\ stores[s].saving[1] # None
    /\ stores' = [stores EXCEPT ![s].writing = TRUE]
    /\ file' = Torn
    /\ UNCHANGED <<now, up, serving, made, agents, bodies, limits, ghosts, counts>>

(* Two writes at once may leave the one in the other.                      *)
EndWrite(s) ==
    /\ up /\ stores[s].saving # <<>>
    /\ stores[s].writing \/ stores[s].saving[1] = None
    /\ Dequeue(s)
    /\ file' \in {stores[s].saving[1]} \cup {f \in {Torn} : Others(s)}
    /\ UNCHANGED <<now, up, serving, made, agents, bodies, limits, ghosts, counts>>

FailWrite(s) ==
    /\ up /\ stores[s].saving # <<>>
    /\ Dequeue(s)
    /\ uncertain' = TRUE
    /\ UNCHANGED <<now, up, serving, file, made, agents, bodies, limits, last, late, counts>>

(* A reload makes a store with the target of the one it replaces, which is *)
(* closed in the same turn, or closes the new one when another server does *)
(* not start.                                                              *)
Reload ==
    LET seed == Unexpired(Current)
        current == IF seed = None THEN Restore
                   ELSE CreateProxyTarget(seed.url, seed.setAt, seed.expiresAt)
        new == NewStore(current)
        next == IF seed = None THEN new ELSE Save(new, current)
        rest == [stores EXCEPT ![serving].current = seed]
    IN  /\ up /\ reloads < MaxReloads
        /\ reloads' = reloads + 1
        /\ made' = IF current = None THEN made ELSE made + 1
        /\ stores' = Append(rest, next)
        /\ \E works \in BOOLEAN :
              /\ serving' = IF works THEN Len(stores) + 1 ELSE serving
              /\ agents' = IF works
                           THEN RetireAgent(Current, None) \cup Agents(current)
                           ELSE RetireAgent(Current, seed)
              /\ uncertain' = (uncertain \/ ~Idle \/ ~works)
        /\ UNCHANGED <<now, up, file, bodies, limits, last, late, crashes>>

(* the process is killed or ends, in a write or not                        *)
Crash ==
    /\ up /\ crashes < MaxCrashes
    /\ up' = FALSE
    /\ crashes' = crashes + 1
    /\ uncertain' = (uncertain \/ ~Idle)
    /\ stores' = <<NewStore(None)>> /\ serving' = 1
    /\ agents' = {} /\ bodies' = {} /\ late' = FALSE
    /\ failures' = 0 /\ updates' = 0 /\ window' = now
    /\ UNCHANGED <<now, file, made, last, reloads>>

Restart ==
    /\ ~up
    /\ up' = TRUE
    /\ stores' = <<NewStore(Restore)>>
    /\ made' = IF Restore = None THEN made ELSE made + 1
    /\ agents' = Agents(stores'[1].current)
    /\ window' = now
    /\ UNCHANGED <<now, serving, file, bodies, failures, updates, ghosts, counts>>

Tick ==
    /\ now < MaxTime
    /\ now' = now + 1
    /\ UNCHANGED <<up, stores, serving, file, made, agents, bodies, limits, ghosts, counts>>

Next ==
    \/ Serve \/ Control \/ Reload \/ Crash \/ Restart \/ Tick
    \/ \E put \in bodies : Put(put) \/ Left(put)
    \/ \E s \in DOMAIN stores : BeginWrite(s) \/ EndWrite(s) \/ FailWrite(s)

Spec == Init /\ [][Next]_vars

-----------------------------------------------------------------------------

(* The server passes requests to the target that was registered last, the  *)
(* file ends with it, and a restart finds it again, or none once it has    *)
(* expired: unless a write failed or was cut by the end of the process, or *)
(* two stores were writing (create-target-store.ts:55).  The connections   *)
(* of the target are never those of an agent that was retired, and those   *)
(* of every other target are closed in the end (create-target-store.ts:68),*)
(* except for a target that reaches a store after it was replaced.         *)
TargetIsKept ==
    /\ up /\ ~uncertain => Unexpired(Stored(Current)) = Unexpired(last)
    /\ ~uncertain /\ (up => Idle) => Unexpired(file) = Unexpired(last)
    /\ up => Agents(Current) \subseteq agents
    /\ up /\ ~late => agents = Agents(Current)
=============================================================================
