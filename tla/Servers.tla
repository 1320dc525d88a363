------------------------------ MODULE Servers ------------------------------
(***************************************************************************)
(* The servers of a running process: how they are loaded from their files, *)
(* loaded again when a file changes, retired next to their successors, and *)
(* stopped with the process.  The servers are of the type that has most to *)
(* lose, `child`: each one runs a process and holds a port.                *)
(*                                                                         *)
(* Everything here runs on one thread, in turns.  A reload is one turn, in *)
(* which only the file system and the signals go on; its steps are told    *)
(* apart to let a file be written between them.                            *)
(***************************************************************************)
EXTENDS Naturals, Sequences, FiniteSets, SequencesExt

CONSTANTS
    Sources,         \* the entries of `servers`, each the path of a file
    AtStart,         \* those whose file is there when the process starts
    Kinds,           \* what a written file may be, see Content
    Ports,           \* free ports of the lookup
    ReloadOnSighup,
    MaxWrites, MaxRequests,
    MaxSignals,      \* signals and uncaught exceptions
    Exceptions       \* the process may meet uncaught exceptions

ASSUME ServersAssumption ==
    /\ IsFiniteSet(Sources) /\ AtStart \subseteq Sources
    /\ Kinds \subseteq {"good", "broken", "fails", "none"}
    /\ {Ports, MaxWrites, MaxRequests, MaxSignals} \subseteq Nat
    /\ Cardinality(AtStart) <= Ports    \* else the start fails, and the process ends
    /\ {ReloadOnSighup, Exceptions} \subseteq BOOLEAN

VARIABLES
    file,       \* the content of each source
    writes,     \* number of writes
    servers,    \* every server that was started, in order
    ports,      \* PORTS: how many are left
    turn,       \* the reload that runs on the thread
    watched,    \* the folders of the files are watched
    changed,    \* the watchers have an event that is not handled yet
    due,        \* the timer of the debounced reload
    stale,      \* timers that the watchers before have left
    missed,     \* a file was written where no watcher and no reload looks
    process,    \* "starting", "running" or "ended"
    requests,   \* number of requests that came
    keptAlive,  \* idle connections
    soft,       \* signals with the listener of the soft stop
    second,     \* listeners that end the process at once, for each signal
    raised,     \* signals that wait for their listeners
    signals,    \* number of signals and exceptions that came
    guarded,    \* the listener of uncaught exceptions is there
    stop        \* the graceful stop: its phase and its signal

fileVars == <<file, writes>>
reloadVars == <<servers, ports, turn, watched, changed, due, stale, missed>>
clientVars == <<requests, keptAlive>>
exitVars == <<soft, second, raised, signals, guarded, stop>>
vars == <<fileVars, reloadVars, process, clientVars, exitVars>>

(* Content: a file that is not there, one that does not load or has a      *)
(* problem, one whose server fails after its process was spawned, or good  *)
Content == [version : 0..MaxWrites + 1, kind : {"good", "broken", "fails", "none"}]
Gone == [version |-> 0, kind |-> "none"]
Good(version) == [version |-> version, kind |-> "good"]

Signals == {"INT", "TERM", "HUP"}
StopSignals == IF ReloadOnSighup THEN Signals \ {"HUP"} ELSE Signals

Loaded == {i \in DOMAIN servers : servers[i].of = "loaded"}
Retiring == {i \in DOMAIN servers : servers[i].of = "retiring"}
(* Mutant: the servers that are retired are forgotten at once.             *)
InstancesLoaded == Loaded

(* getInstances                                                            *)
Instances == Loaded \cup Retiring
RunningFor(source) == {i \in Loaded : servers[i].source = source}

Server(source, content, print) ==
    [source |-> source, version |-> content.version, print |-> print, of |-> "loaded",
     child |-> TRUE, active |-> 0, closing |-> {}, onIdle |-> "none", expired |-> FALSE]

Free == process = "running" /\ turn.step = "none"

(* The candidates of a reload: what is left to look at, the servers that   *)
(* stay, and the definitions that were loaded                              *)
Quiet == [step |-> "none", left |-> <<>>, kept |-> {}, fresh |-> <<>>]
Find(sources) == [step |-> "find", left |-> sources, kept |-> {}, fresh |-> <<>>]

Listening == stop.phase \in {"none", "asked"}
Active == FoldLeft(LAMBDA sum, server : sum + server.active, 0, servers)

(* the first load, before anything listens                                 *)
Init ==
    /\ file = [s \in Sources |-> IF s \in AtStart THEN Good(1) ELSE Gone]
    /\ LET there == SetToSeq(AtStart) IN
        /\ servers = [i \in DOMAIN there |-> Server(there[i], file[there[i]], 1)]
        /\ ports = Ports - Len(there)
    /\ turn = Quiet
    /\ watched = FALSE /\ changed = FALSE /\ due = FALSE /\ stale = 0 /\ missed = FALSE
    /\ writes = 0 /\ requests = 0 /\ signals = 0 /\ keptAlive = 0
    /\ process = "starting"
    /\ soft = {} /\ second = [signal \in Signals |-> 0] /\ raised = {} /\ guarded = FALSE
    /\ stop = [phase |-> "none", signal |-> "TERM", late |-> FALSE]

----------------------------------------------------------------------------
(* the files                                                               *)

(* Another process writes, creates or removes a file.  An event reaches    *)
(* the watchers that there are.  What is written while a reload reads, or  *)
(* before the first watch, may be seen by neither.                         *)
Write(source) ==
    /\ process # "ended"
    /\ writes < MaxWrites
    /\ writes' = writes + 1
    /\ \E kind \in Kinds :
        LET content == IF kind = "none" THEN Gone ELSE [version |-> writes + 2, kind |-> kind] IN
        /\ content # file[source]
        /\ file' = [file EXCEPT ![source] = content]
    /\ changed' = (changed \/ watched)
    /\ missed' = (missed \/ ~watched \/ turn.step # "none")
    /\ UNCHANGED <<servers, ports, turn, watched, due, stale, process, clientVars, exitVars>>

(* Mutant: the paths are hashed and not what the files hold.               *)
FingerprintOfPaths(source) == IF file[source] = Gone THEN 0 ELSE 1

(* readFingerprint: nothing for a file that cannot be read                 *)
ReadFingerprint(source) == file[source].version

(* the ports are listened on, the hooks are set, the files are watched     *)
Start ==
    /\ process = "starting"
    /\ process' = "running"
    /\ watched' = TRUE
    /\ soft' = StopSignals
    /\ guarded' = TRUE
    /\ UNCHANGED <<fileVars, servers, ports, turn, changed, due, stale, missed, clientVars,
                   second, raised, signals, stop>>

(* an event of the watchers, debounced                                     *)
Noticed ==
    /\ Free
    /\ changed
    /\ changed' = FALSE
    /\ due' = TRUE
    /\ UNCHANGED <<fileVars, servers, ports, turn, watched, stale, missed, process, clientVars, exitVars>>

(* a timer of this watch or of one before fires and loads the servers      *)
DebounceFires ==
    /\ Free
    /\ \/ due /\ due' = FALSE /\ UNCHANGED stale
       \/ stale > 0 /\ stale' = stale - 1 /\ UNCHANGED due
    /\ turn' = Find(SetToSeq(Sources))
    /\ UNCHANGED <<fileVars, servers, ports, watched, changed, missed, process, clientVars, exitVars>>

----------------------------------------------------------------------------
(* the reload                                                              *)

(* the load of an entry throws, or the check of the servers does           *)
Fails == turn' = [turn EXCEPT !.step = "watch"]

Candidate(source, content, print) == [source |-> source, content |-> content, print |-> print]

(* A server stays whose fingerprint is the one of its file; another one is *)
(* loaded, if there is a file.                                             *)
FindCandidate ==
    /\ process = "running" /\ turn.step = "find" /\ turn.left # <<>>
    /\ LET source == Head(turn.left)
           running == RunningFor(source)
           unchanged == \E i \in running : servers[i].print = ReadFingerprint(source)
       IN
        \/ /\ unchanged
           /\ turn' = [turn EXCEPT !.left = Tail(@), !.kept = @ \cup running]
        \/ /\ ~unchanged /\ file[source] = Gone
           /\ turn' = [turn EXCEPT !.left = Tail(@)]
        \/ /\ ~unchanged /\ file[source].kind = "broken"
           /\ Fails
        \/ /\ ~unchanged /\ file[source].kind \in {"good", "fails"}
           /\ turn' = [turn EXCEPT !.step = "print",
                                   !.fresh = Append(@, Candidate(source, file[source], 0))]
    /\ UNCHANGED <<fileVars, servers, ports, watched, changed, due, stale, missed, process, clientVars, exitVars>>

(* the fingerprint of the files is read after they were loaded             *)
Fingerprint ==
    /\ process = "running" /\ turn.step = "print"
    /\ turn' = [turn EXCEPT !.step = "find", !.left = Tail(@),
                            !.fresh[Len(turn.fresh)].print = ReadFingerprint(Head(turn.left))]
    /\ UNCHANGED <<fileVars, servers, ports, watched, changed, due, stale, missed, process, clientVars, exitVars>>

(* a server whose process was stopped for the close that is done           *)
Closed(server, by) ==
    [server EXCEPT !.child = FALSE,
                   !.closing = @ \ {by},
                   !.of = IF by = "reload" THEN "closed" ELSE @]

(* Mutant: the requests in flight are not waited for.                      *)
CloseWithoutWaiting(server, by) == Closed(server, by)

(* close(timeout): at once when it is idle.  There is one onIdle, and it   *)
(* is the one of the latest close.                                         *)
Close(server, by) ==
    IF server.active = 0
    THEN Closed(server, by)
    ELSE [server EXCEPT !.closing = @ \cup {by}, !.onIdle = by]

(* the new servers are started one after the other, each with a port       *)
StartedServer(candidate) == Server(candidate.source, candidate.content, candidate.print)

(* how many of them start before one throws                                *)
StartThrows(n) == n > ports \/ turn.fresh[n].content.kind = "fails"
Starting ==
    LET throwing == {n \in DOMAIN turn.fresh : StartThrows(n)} IN
    IF throwing = {} THEN Len(turn.fresh) ELSE (CHOOSE n \in throwing : \A m \in throwing : n <= m) - 1

(* apply: what is not among the next servers any more is retired           *)
Apply ==
    [i \in DOMAIN servers |->
        IF i \in Loaded \ turn.kept
        THEN Close([servers[i] EXCEPT !.of = "retiring"], "reload")
        ELSE servers[i]]

(* All of them start, and the servers are replaced; or one throws, and the *)
(* ones before it are closed.  The process of the one that threw is left.  *)
StartServers ==
    /\ process = "running" /\ turn.step = "find" /\ turn.left = <<>>
    /\ LET started == [n \in 1..Starting |-> StartedServer(turn.fresh[n])] IN
        \/ /\ Starting = Len(turn.fresh)
           /\ servers' = Apply \o started
           /\ ports' = ports - Starting
        \/ /\ Starting < Len(turn.fresh)
           /\ LET stopped == [n \in DOMAIN started |-> Closed(started[n], "reload")]
                  spawned == Starting + 1 <= ports
                  left == [StartedServer(turn.fresh[Starting + 1]) EXCEPT !.of = "left"]
              IN
               /\ servers' = servers \o stopped \o (IF spawned THEN <<left>> ELSE <<>>)
               /\ ports' = ports - Starting - (IF spawned THEN 1 ELSE 0)
    /\ turn' = [turn EXCEPT !.step = "watch"]
    /\ UNCHANGED <<fileVars, watched, changed, due, stale, missed, process, clientVars, exitVars>>

(* New watchers for the files as they are now, after a failure too.  The   *)
(* events of the old ones are gone, their timer is not.                    *)
Watch ==
    /\ process = "running" /\ turn.step = "watch"
    /\ turn' = Quiet
    /\ watched' = TRUE
    /\ changed' = FALSE
    /\ stale' = IF due THEN stale + 1 ELSE stale
    /\ due' = FALSE
    /\ UNCHANGED <<fileVars, servers, ports, missed, process, clientVars, exitVars>>

(* Mutant: a close waits for its requests only.                            *)
CloseTimeoutUnset(i) ==
    /\ Free
    /\ servers[i].active = 0
    /\ \E by \in servers[i].closing :
        servers' = [servers EXCEPT ![i] = [Closed(@, by) EXCEPT !.expired = TRUE]]
    /\ UNCHANGED <<fileVars, ports, turn, watched, changed, due, stale, missed, process, clientVars, exitVars>>

(* the timer of a close                                                    *)
CloseTimeout(i) ==
    /\ Free
    /\ \E by \in servers[i].closing :
        servers' = [servers EXCEPT ![i] = [Closed(@, by) EXCEPT !.expired = TRUE]]
    /\ UNCHANGED <<fileVars, ports, turn, watched, changed, due, stale, missed, process, clientVars, exitVars>>

----------------------------------------------------------------------------
(* the requests                                                            *)

(* a request for the host of a source, on a new or an idle connection      *)
Request(i) ==
    /\ Free
    /\ requests < MaxRequests
    /\ i \in Loaded
    /\ \/ Listening /\ UNCHANGED keptAlive
       \/ keptAlive > 0 /\ keptAlive' = keptAlive - 1
    /\ requests' = requests + 1
    /\ servers' = [servers EXCEPT ![i].active = @ + 1]
    /\ UNCHANGED <<fileVars, ports, turn, watched, changed, due, stale, missed, process, exitVars>>

(* The close of a response; the last one tells the close that waits.       *)
Done(server) ==
    LET left == [server EXCEPT !.active = @ - 1] IN
    IF left.active = 0 /\ left.onIdle \in left.closing THEN Closed(left, left.onIdle) ELSE left

Answer(i) ==
    /\ Free
    /\ servers[i].active > 0
    /\ servers' = [servers EXCEPT ![i] = Done(@)]
    /\ keptAlive' \in IF stop.late THEN {keptAlive} ELSE {keptAlive, keptAlive + 1}
    /\ UNCHANGED <<fileVars, ports, turn, watched, changed, due, stale, missed, process, requests, exitVars>>

----------------------------------------------------------------------------
(* the stop                                                                *)

HasListener(signal, softNow, secondNow) ==
    signal \in softNow \/ secondNow[signal] > 0 \/ (signal = "HUP" /\ ReloadOnSighup)

(* a signal without a listener ends the process where it is raised         *)
Raise(signal, softNow, secondNow) ==
    IF HasListener(signal, softNow, secondNow)
    THEN raised' = (raised \ {signal}) \cup {signal} /\ UNCHANGED process
    ELSE process' = "ended" /\ UNCHANGED raised

(* exitListener: the processes of the servers are stopped, and the signal  *)
(* is raised again                                                         *)
KillChildren == [i \in DOMAIN servers |-> IF i \in Instances THEN [servers[i] EXCEPT !.child = FALSE] ELSE servers[i]]

(* a signal from outside                                                   *)
Signal(signal) ==
    /\ process = "running"
    /\ signals < MaxSignals
    /\ signal \notin raised
    /\ signals' = signals + 1
    /\ HasListener(signal, soft, second)
    /\ raised' = raised \cup {signal}
    /\ UNCHANGED <<fileVars, reloadVars, process, clientVars, soft, second, guarded, stop>>

(* gracefulStop begins: the websockets are closed, and the stop of the     *)
(* servers is put off to the next turn                                     *)
StopAsked(signal) == [phase |-> "asked", signal |-> signal, late |-> FALSE]

(* the soft stop adds a listener for a second signal of each kind          *)
StopSoftly(signal) ==
    /\ Free
    /\ signal \in raised /\ signal \in soft /\ second[signal] = 0
    /\ raised' = raised \ {signal}
    /\ soft' = soft \ {signal}
    /\ second' = [s \in Signals |-> second[s] + IF s \in StopSignals THEN 1 ELSE 0]
    /\ stop' = IF stop.phase = "none" THEN StopAsked(signal) ELSE stop
    /\ UNCHANGED <<fileVars, reloadVars, process, clientVars, signals, guarded>>

(* The listeners of a second signal end the process at once.  When it is   *)
(* another signal than the first, its own soft stop begins in the same     *)
(* turn, before, and leaves a listener of its own.                         *)
StopAtOnce(signal) ==
    /\ Free
    /\ signal \in raised /\ second[signal] > 0
    /\ LET again == signal \in soft
           secondNow == [s \in Signals |->
                            (IF s = signal THEN 0 ELSE second[s]) + IF again /\ s \in StopSignals THEN 1 ELSE 0]
       IN
        /\ soft' = soft \ {signal}
        /\ second' = secondNow
        /\ IF HasListener(signal, soft', secondNow)
           THEN UNCHANGED <<raised, process>>
           ELSE process' = "ended" /\ raised' = raised \ {signal}
    /\ servers' = KillChildren
    /\ UNCHANGED <<fileVars, ports, turn, watched, changed, due, stale, missed, clientVars, signals, guarded, stop>>

(* reloadOnSighup                                                          *)
HangUp ==
    /\ Free
    /\ ReloadOnSighup /\ "HUP" \in raised
    /\ raised' = raised \ {"HUP"}
    /\ turn' = Find(SetToSeq(Sources))
    /\ UNCHANGED <<fileVars, servers, ports, watched, changed, due, stale, missed, process, clientVars,
                   soft, second, signals, guarded, stop>>

(* An uncaught exception raises SIGINT.  The second one finds no listener  *)
(* and ends the process, by way of its exit listener.                      *)
Exception ==
    /\ Exceptions /\ signals < MaxSignals
    /\ Free
    /\ signals' = signals + 1
    /\ servers' = KillChildren
    /\ \/ guarded /\ Raise("INT", soft, second)
       \/ ~guarded /\ process' = "ended" /\ UNCHANGED raised
    /\ guarded' = FALSE
    /\ UNCHANGED <<fileVars, ports, turn, watched, changed, due, stale, missed, clientVars,
                   soft, second, stop>>

(* server.close: no new connections, and the idle ones are closed          *)
StopListening ==
    /\ Free
    /\ stop.phase = "asked"
    /\ stop' = [stop EXCEPT !.phase = "closing"]
    /\ keptAlive' = 0
    /\ UNCHANGED <<fileVars, reloadVars, process, requests, soft, second, raised, signals, guarded>>

(* connections that became idle since are closed every 50 milliseconds     *)
SweepIdle ==
    /\ Free
    /\ stop.phase = "closing"
    /\ keptAlive > 0
    /\ keptAlive' = 0
    /\ UNCHANGED <<fileVars, reloadVars, process, requests, exitVars>>

(* stopBehind: closes the servers that are loaded, not the retiring ones   *)
StopBehind == [i \in DOMAIN servers |-> IF i \in Loaded THEN Close(servers[i], "stop") ELSE servers[i]]

(* every connection is closed                                              *)
ConnectionsClosed ==
    /\ Free
    /\ stop.phase = "closing"
    /\ keptAlive = 0 /\ Active = 0
    /\ stop' = [stop EXCEPT !.phase = "behind"]
    /\ servers' = StopBehind
    /\ UNCHANGED <<fileVars, ports, turn, watched, changed, due, stale, missed, process, clientVars,
                   soft, second, raised, signals, guarded>>

(* Mutant: the time of the stop has no end while requests are in flight.   *)
StopTimeoutUnset ==
    /\ Free
    /\ stop.phase = "closing"
    /\ Active = 0
    /\ stop' = [stop EXCEPT !.phase = "behind", !.late = TRUE]
    /\ keptAlive' = 0
    /\ servers' = StopBehind
    /\ UNCHANGED <<fileVars, ports, turn, watched, changed, due, stale, missed, process, requests,
                   soft, second, raised, signals, guarded>>

(* the time is up, and what is left is cut                                 *)
StopTimeout ==
    /\ Free
    /\ stop.phase = "closing"
    /\ stop' = [stop EXCEPT !.phase = "behind", !.late = TRUE]
    /\ keptAlive' = 0
    /\ servers' = StopBehind
    /\ UNCHANGED <<fileVars, ports, turn, watched, changed, due, stale, missed, process, requests,
                   soft, second, raised, signals, guarded>>

(* the listeners of a second signal are taken off, and the signal is       *)
(* raised again                                                            *)
StopOver ==
    /\ Free
    /\ stop.phase = "behind"
    /\ \A i \in DOMAIN servers : "stop" \notin servers[i].closing
    /\ second' = [s \in Signals |-> IF s \in StopSignals /\ second[s] > 0 THEN second[s] - 1 ELSE second[s]]
    /\ servers' = KillChildren
    /\ Raise(stop.signal, soft, second')
    /\ stop' = [stop EXCEPT !.phase = "none"]
    /\ UNCHANGED <<fileVars, ports, turn, watched, changed, due, stale, missed, clientVars, soft, signals, guarded>>

----------------------------------------------------------------------------
Reload == FindCandidate \/ Fingerprint \/ StartServers \/ Watch
Stop == StopListening \/ SweepIdle \/ ConnectionsClosed \/ StopTimeout \/ StopOver

Next ==
    \/ Start \/ Noticed \/ DebounceFires \/ Reload
    \/ \E source \in Sources : Write(source)
    \/ \E i \in DOMAIN servers : Request(i) \/ Answer(i) \/ CloseTimeout(i)
    \/ \E signal \in Signals : Signal(signal) \/ StopSoftly(signal) \/ StopAtOnce(signal)
    \/ HangUp \/ Exception \/ Stop

Spec == Init /\ [][Next]_vars

(* What the event loop promises: timers fire, events and signals are       *)
(* handled, turns end.  Nothing makes a request be answered before its     *)
(* connection is cut.                                                      *)
Fairness ==
    /\ WF_vars(Start) /\ WF_vars(Noticed) /\ WF_vars(DebounceFires) /\ WF_vars(Reload) /\ WF_vars(Stop)
    /\ \A signal \in Signals : WF_vars(StopSoftly(signal)) /\ WF_vars(StopAtOnce(signal))
    /\ WF_vars(HangUp)
    /\ WF_vars(\E i \in DOMAIN servers : CloseTimeout(i))
    /\ WF_vars(stop.late /\ \E i \in DOMAIN servers : Answer(i))

FairSpec == Spec /\ Fairness

----------------------------------------------------------------------------
(* Properties                                                              *)

(* A process of a server belongs to one that is loaded or retiring, which  *)
(* the stop asks for (getInstances), and there is one loaded server for an *)
(* entry; the exception is a server that failed after its process was      *)
(* spawned, of which nothing knows.  When the process has ended, no child  *)
(* of a known server goes on.                                              *)
ChildrenAreKnown ==
    /\ \A i \in DOMAIN servers : servers[i].child =>
        servers[i].of = "left" \/ (i \in Loaded \cup Retiring /\ process # "ended")
    /\ \A i, j \in Loaded : servers[i].source = servers[j].source => i = j

(* A reload stops the process of a server only when the requests that the  *)
(* server took are answered, or after the timeout of its close; otherwise  *)
(* only the end of the process does.                                       *)
TakenRequestsAreServed ==
    [][\A i \in DOMAIN servers :
        servers[i].child /\ ~servers'[i].child /\ servers'[i].active > 0
            => servers'[i].expired \/ <<second, guarded, process>>' # <<second, guarded, process>>]_vars

(* The servers are in the end those of their files, unless a file has a    *)
(* problem, the ports are used up, the process stops, or a write fell into *)
(* a reload or before the first watch.                                     *)
Follows(source) ==
    IF file[source] = Gone
    THEN RunningFor(source) = {}
    ELSE \E i \in RunningFor(source) : servers[i].version = file[source].version

Excused ==
    \/ missed \/ process = "ended"
    \/ \E source \in Sources : file[source].kind \in {"broken", "fails"}
    \/ Cardinality({source \in Sources : file[source] # Gone /\ ~Follows(source)}) > ports

ServersFollowFiles == <>[](Excused \/ \A source \in Sources : Follows(source))

(* A server that is retired is closed in the end, and a stop that was      *)
(* asked for ends the process, however long the requests take.             *)
RetiredAreClosed == []<>(Retiring = {} \/ process = "ended")
StopEnds == stop.phase # "none" ~> process = "ended"

(* An uncaught exception ends the process: no soft stop begins after it.   *)
ExceptionEndsAtOnce == [][~guarded /\ process = "running" /\ stop.phase = "none" => stop'.phase = "none"]_vars
============================================================================
