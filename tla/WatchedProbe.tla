---------------------------- MODULE WatchedProbe ----------------------------
(***************************************************************************)
(* What the middleware asks the file system: the probe that remembers its  *)
(* answers for a while, and above it the one that answers "missing" from   *)
(* the listing of a directory while the watcher of the directory reports   *)
(* nothing.  A name belongs to one directory; names only come.  A watcher  *)
(* reports a change late, or not at all.  Times are what is left of them.  *)
(***************************************************************************)
EXTENDS Naturals, Sequences, FiniteSets, SequencesExt

CONSTANTS
    Names,              \* paths that are asked for
    DirectoryOf,        \* the directory of each name
    Ttl,                \* ttl of the probe below
    MaxDirectories,     \* maxDirectories
    MaxTotalEntries,    \* maxTotalEntries
    EntryLimit,         \* the smaller of maxEntries and maxTotalEntries
    Cooldown, OversizedCooldown, MaxAge,
    ReadTime,           \* bound: how long a directory is read
    MaxWatchers         \* bound: watchers that still have a read or a change under way

Directories == {DirectoryOf[n] : n \in Names}

VARIABLES
    present,    \* the names that are there
    since,      \* and for how long
    known,      \* the answers "missing" that the probe below remembers
    changed, oversized, missed,    \* the caches of directories
    watchers,   \* the watcher of each directory, a number, 0 for none
    listings,   \* directories with a listing, in the order they were kept
    names,      \* the names of each listing
    expires,    \* and when it expires
    total,      \* totalEntries
    reads,      \* directories being read: watcher, how long, and the names seen for sure
    events,     \* watchers with a change they have not reported
    reported,   \* names whose coming was reported to the watcher of their directory
    closed,
    answer      \* the last answer "missing": who gave it and how late it was

caches == <<known, changed, oversized, missed>>
listingVars == <<watchers, listings, names, expires, total>>
vars == <<present, since, caches, listingVars, reads, events, reported, closed, answer>>

NoAnswer == [by |-> "none", late |-> 0, told |-> FALSE]
Missing(by, n) == [by |-> by, late |-> since[n], told |-> n \in reported]

(* longer than any answer may be late                                      *)
Horizon == Ttl + MaxAge + ReadTime

Init ==
    /\ present \in SUBSET Names
    /\ since = [n \in Names |-> 0]
    /\ known = since
    /\ changed = [d \in Directories |-> 0] /\ oversized = changed /\ missed = changed
    /\ watchers = changed /\ expires = changed
    /\ listings = <<>>
    /\ names = [d \in Directories |-> {}]
    /\ total = 0
    /\ reads = {} /\ events = {} /\ reported = {}
    /\ closed = FALSE /\ answer = NoAnswer

(* an entry keeps the expiry it was given first, as long as it has not     *)
(* expired; the caches are larger than what is asked for here              *)
In(cache, key) == cache[key] > 0
Put(cache, key, ttl) == IF In(cache, key) THEN cache ELSE [cache EXCEPT ![key] = ttl]

NewWatcher ==
    LET taken == {watchers[d] : d \in Directories} \cup {read.watcher : read \in reads} \cup events
    IN  {w \in 1..MaxWatchers : w \notin taken /\ \A v \in 1..MaxWatchers : v < w => v \in taken}

HasListing(d) == Contains(listings, d)

Entries(directories) ==
    FoldSeq(LAMBDA d, n : IF d \in directories THEN n + Cardinality(names[d]) ELSE n, 0, listings)

Without(times, dropped) == [d \in Directories |-> IF d \in dropped THEN 0 ELSE times[d]]

Unlist(dropped) ==
    /\ listings' = SelectSeq(listings, LAMBDA d : d \notin dropped)
    /\ names' = [d \in Directories |-> IF d \in dropped THEN {} ELSE names[d]]
    /\ expires' = Without(expires, dropped)
    /\ total' = total - Entries(dropped)

(* drop of directories, with their watchers and listings                   *)
Drop(dropped) == Unlist(dropped) /\ watchers' = Without(watchers, dropped)

(* the oldest listings are the first to expire                             *)
Expired == {listings[i] : i \in {j \in 1..Len(listings) :
                                    \A k \in 1..j : ~In(expires, listings[k])}}

(* list: the directory is watched and read when a second path in it is     *)
(* missing, unless it changed lately, is too large, or there are too many  *)
List(d) ==
    LET full == Cardinality({w \in Directories : watchers[w] # 0})
        dropped == IF full < MaxDirectories THEN {} ELSE Expired
    IN  IF closed \/ watchers[d] # 0 \/ In(changed, d) \/ In(oversized, d)
        THEN UNCHANGED <<changed, missed, listingVars, reads>>
        ELSE IF ~In(missed, d)
        THEN /\ missed' = Put(missed, d, Cooldown)
             /\ UNCHANGED <<changed, listingVars, reads>>
        ELSE IF full - Cardinality(dropped) >= MaxDirectories
        THEN UNCHANGED <<changed, missed, listingVars, reads>>
        ELSE /\ \/ \E watcher \in NewWatcher :
                      /\ Unlist(dropped)
                      /\ watchers' = [Without(watchers, dropped) EXCEPT ![d] = watcher]
                      /\ reads' = reads \cup
                             {[watcher |-> watcher, directory |-> d, age |-> 0,
                               sure |-> {n \in present : DirectoryOf[n] = d}]}
                      /\ UNCHANGED changed
                \/ /\ changed' = Put(changed, d, Cooldown)      \* it cannot be watched
                   /\ Drop(dropped)
                   /\ UNCHANGED reads
             /\ UNCHANGED missed

(* A path is asked for: from a listing that has not expired, or from the   *)
(* probe below, which may remember that it was missing.                    *)
Ask(n) ==
    LET d == DirectoryOf[n]
        trusted == HasListing(d) /\ In(expires, d)
        missing == In(known, n) \/ n \notin present
    IN  /\ \/ /\ trusted /\ n \notin names[d]
              /\ answer' = Missing("listing", n)
              /\ UNCHANGED <<caches, listingVars, reads>>
           \/ /\ trusted => n \in names[d]
              /\ missing
              /\ answer' = Missing("probe", n)
              /\ known' = Put(known, n, Ttl)
              /\ IF HasListing(d) /\ ~trusted
                 THEN Drop({d}) /\ UNCHANGED <<changed, missed, reads>>
                 ELSE List(d)
              /\ UNCHANGED oversized
           \/ /\ trusted => n \in names[d]
              /\ ~missing
              /\ answer' = NoAnswer
              /\ IF HasListing(d) /\ ~trusted THEN Drop({d}) ELSE UNCHANGED listingVars
              /\ UNCHANGED <<caches, reads>>
        /\ UNCHANGED <<present, since, events, reported, closed>>

(* a read that is kept for the directory it was of, whoever watches it now *)
KeepAnyway(read, found) ==
    /\ reads' = reads \ {read}
    /\ listings' = Append(listings, read.directory)
    /\ names' = [names EXCEPT ![read.directory] = found]
    /\ expires' = [expires EXCEPT ![read.directory] = MaxAge]
    /\ total' = total + Cardinality(found)
    /\ answer' = NoAnswer
    /\ UNCHANGED <<present, since, caches, watchers, events, reported, closed>>

(* The directory is read: the listing is kept when its watcher is still    *)
(* the one of the directory, the directory is not too large, and there is  *)
(* room once the expired listings are gone.                                *)
Keep(read, found) ==
    LET d == read.directory
        left == total - Entries(Expired) + Cardinality(found)
    IN  /\ reads' = reads \ {read}
        /\ IF watchers[d] # read.watcher
           THEN UNCHANGED <<listingVars, changed, oversized>>
           ELSE IF Cardinality(found) > EntryLimit
           THEN Drop({d}) /\ oversized' = Put(oversized, d, OversizedCooldown) /\ UNCHANGED changed
           ELSE IF left > MaxTotalEntries
           THEN /\ Drop(Expired \cup {d})
                /\ changed' = Put(changed, d, Cooldown)
                /\ UNCHANGED oversized
           ELSE /\ watchers' = Without(watchers, Expired)
                /\ listings' = Append(SelectSeq(listings, LAMBDA e : e \notin Expired), d)
                /\ names' = [names EXCEPT ![d] = found]
                /\ expires' = [Without(expires, Expired) EXCEPT ![d] = MaxAge]
                /\ total' = left
                /\ UNCHANGED <<changed, oversized>>
        /\ answer' = NoAnswer
        /\ UNCHANGED <<present, since, known, missed, events, reported, closed>>

(* what a read may have found of the names that came while it was reading  *)
ReadDone(read) ==
    \E seen \in SUBSET {n \in present : DirectoryOf[n] = read.directory} :
        /\ read.sure \subseteq seen
        /\ Keep(read, seen)

(* a change or an error of the watcher                                     *)
DropWatched(d) ==
    /\ watchers[d] # 0
    /\ Drop({d})
    /\ changed' = Put(changed, d, Cooldown)
    /\ events' = events \ {watchers[d]}
    /\ reported' = IF watchers[d] \in events
                   THEN reported \cup {n \in present : DirectoryOf[n] = d} ELSE reported
    /\ answer' = NoAnswer
    /\ UNCHANGED <<present, since, known, oversized, missed, reads, closed>>

Comes(n) ==
    /\ n \notin present
    /\ present' = present \cup {n}
    /\ events' \in {events, events \cup ({watchers[DirectoryOf[n]]} \ {0})}
    /\ answer' = NoAnswer
    /\ UNCHANGED <<since, caches, listingVars, reads, reported, closed>>

Close ==
    /\ ~closed
    /\ closed' = TRUE
    /\ Drop(Directories)
    /\ answer' = NoAnswer
    /\ UNCHANGED <<present, since, caches, reads, events, reported>>

Passed(times) == [k \in DOMAIN times |-> IF times[k] = 0 THEN 0 ELSE times[k] - 1]

Tick ==
    /\ \A read \in reads : read.age < ReadTime
    /\ reads' = {[read EXCEPT !.age = @ + 1] : read \in reads}
    /\ since' = [n \in Names |-> IF n \in present /\ since[n] < Horizon THEN since[n] + 1
                                 ELSE since[n]]
    /\ known' = Passed(known) /\ changed' = Passed(changed) /\ oversized' = Passed(oversized)
    /\ missed' = Passed(missed) /\ expires' = Passed(expires)
    /\ answer' = NoAnswer
    /\ UNCHANGED <<present, watchers, listings, names, total, events, reported, closed>>

Next ==
    \/ \E n \in Names : Ask(n) \/ Comes(n)
    \/ \E read \in reads : ReadDone(read)
    \/ \E d \in Directories : DropWatched(d)
    \/ Close \/ Tick

Spec == Init /\ [][Next]_vars

-----------------------------------------------------------------------------

(* "Missing" is never said for longer than the probe below remembers it,   *)
(* or a listing is kept after its directory was read, although watchers    *)
(* may report nothing (create-watched-probe.ts:45,135); a name whose       *)
(* coming was reported is not missing in a listing any more, whatever      *)
(* reads were under way (create-watched-probe.ts:72,87); and the listings  *)
(* stay within their limits, which are counted right through every drop    *)
(* (create-watched-probe.ts:56,64).                                        *)
MissingIsRecent ==
    /\ answer.by = "probe" => answer.late < Ttl
    /\ answer.by = "listing" => /\ answer.late < MaxAge + ReadTime
                                /\ ~answer.told
    /\ total = Entries(Directories)
    /\ total <= MaxTotalEntries
    /\ Cardinality({d \in Directories : watchers[d] # 0}) <= MaxDirectories
    /\ \A i \in 1..Len(listings) : watchers[listings[i]] # 0
=============================================================================
