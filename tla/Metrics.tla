------------------------------ MODULE Metrics ------------------------------
(***************************************************************************)
(* The metrics of a server: the requests it counts, how long they took, in *)
(* all and by the worker file that answers them, and the sources that the  *)
(* pools and the servers register for as long as they are there.  A        *)
(* request is counted in the histogram of its file if the file is known    *)
(* before the response closes; a client may leave earlier.                 *)
(***************************************************************************)
EXTENDS Integers, Sequences, FiniteSets, FiniteSetsExt, Functions

CONSTANTS
    MaxRequests,   \* bound: requests
    Paths,         \* worker files
    PathLimit,     \* LatencyPathLimit
    Buckets,       \* LatencyBucketsMs, a sequence that increases
    Durations,     \* how long a request may take
    Classes,       \* classes of statuses
    Pools,         \* what registers a source
    NameOf         \* the name each of them registers under

VARIABLES
    requests,      \* [state, path, counted, ms, class], in the order they arrived
    totals,        \* [total, active, status]
    latency,       \* the histogram of all requests
    paths, other,  \* those of the files, and the one the files above the limit share
    sources,       \* <<name, number>> to the pool that is read there
    names          \* the <<name, number>> that a registered pool unregisters

vars == <<requests, totals, latency, paths, other, sources, names>>
requestVars == <<requests, totals, latency, paths, other>>

None == "none"
Empty == [counts |-> [i \in 1..Len(Buckets) + 1 |-> 0], count |-> 0, maxMs |-> 0]

Init ==
    /\ requests = <<>>
    /\ totals = [total |-> 0, active |-> 0, status |-> [c \in Classes |-> 0]]
    /\ latency = Empty /\ paths = <<>> /\ other = Empty
    /\ sources = <<>> /\ names = <<>>

-----------------------------------------------------------------------------
(* Histograms                                                              *)

(* Mutant: a duration that is a bound falls into the bucket above.         *)
RecordAbove(histogram, ms) ==
    LET fits == {i \in 1..Len(Buckets) : ms < Buckets[i]}
        index == IF fits = {} THEN Len(Buckets) + 1 ELSE Min(fits) IN
    [counts |-> [histogram.counts EXCEPT ![index] = @ + 1],
     count |-> histogram.count + 1,
     maxMs |-> Max({histogram.maxMs, ms})]

Record(histogram, ms) ==
    LET fits == {i \in 1..Len(Buckets) : ms <= Buckets[i]}
        index == IF fits = {} THEN Len(Buckets) + 1 ELSE Min(fits) IN
    [counts |-> [histogram.counts EXCEPT ![index] = @ + 1],
     count |-> histogram.count + 1,
     maxMs |-> Max({histogram.maxMs, ms})]

(* the bound of the bucket that a share of the durations, in per cent,     *)
(* falls into, the largest duration above the last                         *)
Percentile(histogram, share) ==
    LET rank == (histogram.count * share + 99) \div 100
        index == Min({i \in 1..Len(Buckets) + 1 :
                        FoldFunctionOnSet(+, 0, histogram.counts, 1..i) >= rank})
    IN IF index <= Len(Buckets) THEN Buckets[index] ELSE histogram.maxMs

Snapshot(histogram) ==
    [count |-> histogram.count, maxMs |-> histogram.maxMs,
     percentiles |-> [share \in {50, 90, 99} |->
                        IF histogram.count = 0 THEN 0 ELSE Percentile(histogram, share)]]

-----------------------------------------------------------------------------
(* Requests                                                                *)

(* trackRequest                                                            *)
Arrives ==
    /\ Len(requests) < MaxRequests
    /\ requests' = Append(requests, [state |-> "open", path |-> None, counted |-> FALSE,
                                     ms |-> 0, class |-> None])
    /\ totals' = [totals EXCEPT !.total = @ + 1, !.active = @ + 1]
    /\ UNCHANGED <<latency, paths, other, sources, names>>

(* get: a file keeps the histogram it was given first                      *)
Get(path) ==
    paths' = IF path \in DOMAIN paths \/ Cardinality(DOMAIN paths) >= PathLimit THEN paths
             ELSE [p \in DOMAIN paths \cup {path} |-> IF p = path THEN Empty ELSE paths[p]]

(* the file of the request is known, which may be when its client has left *)
Finds(i, path) ==
    /\ requests[i].path = None
    /\ Get(path)
    /\ requests' = [requests EXCEPT ![i].path = path]
    /\ UNCHANGED <<totals, latency, other, sources, names>>

(* the response closes                                                     *)
Closes(i, ms, class) ==
    LET path == requests[i].path IN
    /\ requests[i].state = "open"
    /\ requests' = [requests EXCEPT ![i] =
                        [@ EXCEPT !.state = "closed", !.counted = path # None, !.ms = ms, !.class = class]]
    /\ totals' = [totals EXCEPT !.active = @ - 1, !.status[class] = @ + 1]
    /\ latency' = Record(latency, ms)
    /\ paths' = IF path \in DOMAIN paths THEN [paths EXCEPT ![path] = Record(@, ms)] ELSE paths
    /\ other' = IF path \in DOMAIN paths \cup {None} THEN other ELSE Record(other, ms)
    /\ UNCHANGED <<sources, names>>

-----------------------------------------------------------------------------
(* Sources                                                                 *)

(* registerMetricsSource: a second source with the name gets a number      *)
Register(pool) ==
    LET free == {n \in 1..Cardinality(DOMAIN sources) + 1 :
                    <<NameOf[pool], n>> \notin DOMAIN sources}
        name == <<NameOf[pool], Min(free)>> IN
    /\ pool \notin DOMAIN names
    /\ sources' = [x \in DOMAIN sources \cup {name} |-> IF x = name THEN pool ELSE sources[x]]
    /\ names' = [p \in DOMAIN names \cup {pool} |-> IF p = pool THEN name ELSE names[p]]
    /\ UNCHANGED requestVars

Unregister(pool) ==
    /\ pool \in DOMAIN names
    /\ sources' = Restrict(sources, DOMAIN sources \ {names[pool]})
    /\ names' = Restrict(names, DOMAIN names \ {pool})
    /\ UNCHANGED requestVars

Next ==
    \/ Arrives
    \/ \E i \in DOMAIN requests :
        \/ \E path \in Paths : Finds(i, path)
        \/ \E ms \in Durations, class \in Classes : Closes(i, ms, class)
    \/ \E pool \in Pools : Register(pool) \/ Unregister(pool)

Spec == Init /\ [][Next]_vars

-----------------------------------------------------------------------------
(* What a read gives is true of the requests that there were: every one is *)
(* counted once, as active or under its status; a percentile is the least  *)
(* bound that at least that share of the durations keeps to, the longest   *)
(* duration when no bound is; a file has all its requests in a histogram   *)
(* of its own, or all of them in the shared one.  And each pool that is    *)
(* registered is read under one name, and nothing else is.                 *)
MetricsAreTrue ==
    LET Closed == {i \in DOMAIN requests : requests[i].state = "closed"}
        Counted(path) == {i \in Closed : requests[i].counted /\ requests[i].path = path}
        Within(S, bound) == Cardinality({i \in S : requests[i].ms <= bound})
        Longest(S) == Max({requests[i].ms : i \in S} \cup {0})
        Keeps(S, share) ==
            {b \in Range(Buckets) : Within(S, b) * 100 >= Cardinality(S) * share}
        Exact(S) ==
            [count |-> Cardinality(S), maxMs |-> Longest(S),
             percentiles |-> [share \in {50, 90, 99} |->
                CASE S = {} -> 0
                  [] S # {} /\ Keeps(S, share) # {} -> Min(Keeps(S, share))
                  [] OTHER -> Longest(S)]]
    IN
    /\ totals.active = Cardinality(DOMAIN requests \ Closed)
    /\ totals.total = Len(requests)
    /\ \A c \in Classes : totals.status[c] = Cardinality({i \in Closed : requests[i].class = c})
    /\ Snapshot(latency) = Exact(Closed)
    /\ \A path \in DOMAIN paths : Snapshot(paths[path]) = Exact(Counted(path))
    /\ Snapshot(other) = Exact(UNION {Counted(path) : path \in Paths \ DOMAIN paths})
    /\ \A pool \in Pools :
        Cardinality({x \in DOMAIN sources : sources[x] = pool}) =
            IF pool \in DOMAIN names THEN 1 ELSE 0
=============================================================================
