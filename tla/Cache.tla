------------------------------- MODULE Cache -------------------------------
(***************************************************************************)
(* The cache of node-worker-express: least recently used, bounded by its   *)
(* entries and their bytes, with a ttl for all entries that a single one   *)
(* may replace.  No timer runs, so what expired stays until it is read or  *)
(* a sweep gets to it: a second Map has the entries that expire, in the    *)
(* order they were set, and the sweep stops at the first that is valid.    *)
(***************************************************************************)
EXTENDS Integers, Sequences, FiniteSets, SequencesExt, FiniteSetsExt

CONSTANTS
    Keys,
    Values,
    SizeOf,                 \* the bytes of each value
    MaxEntries, MaxBytes,
    Ttl,                    \* the ttl of the cache
    OwnTtls,                \* the ttls that a set may give, Never for Infinity
    MaxTime                 \* bound: the clock

Never == MaxTime + 1        \* the clock does not get there

VARIABLES
    cache,      \* [entries, expiring, bytes], both Maps in their order
    time,
    sharing,    \* every entry has the ttl of the cache
    plain       \* history: the entries of a plain cache, see PlainSet

vars == <<cache, time, sharing, plain>>

NoEntries == [entries |-> <<>>, expiring |-> <<>>, bytes |-> 0]

Init ==
    /\ cache = NoEntries
    /\ time = 0
    /\ sharing \in BOOLEAN
    /\ plain = <<>>

-----------------------------------------------------------------------------

Without(kept, key) == SelectSeq(kept, LAMBDA e : e.key # key)
Of(kept, key) == SelectSeq(kept, LAMBDA e : e.key = key)
BytesOf(kept) == FoldSeq(LAMBDA e, n : n + SizeOf[e.value], 0, kept)
Expired(e) == e.expiresAt # Never /\ time >= e.expiresAt
Live(kept) == SelectSeq(kept, LAMBDA e : ~Expired(e))

(* mutant: the entry is left to the sweep                                  *)
RemovedUnswept(c, key) ==
    [c EXCEPT !.entries = Without(@, key), !.bytes = @ - BytesOf(Of(c.entries, key))]

(* remove: nothing for a key that is not there                             *)
Removed(c, key) ==
    IF Of(c.entries, key) = <<>> THEN c
    ELSE [entries |-> Without(c.entries, key), expiring |-> Without(c.expiring, key),
          bytes |-> c.bytes - BytesOf(Of(c.entries, key))]

RemovedFirst(c, kept, n) == FoldLeft(LAMBDA rest, e : Removed(rest, e.key), c, SubSeq(kept, 1, n))

(* dropExpired: up to the first entry that is still valid                  *)
DropExpired(c) ==
    LET valid == {i \in DOMAIN c.expiring : ~Expired(c.expiring[i])}
    IN  RemovedFirst(c, c.expiring, Min(valid \cup {Len(c.expiring) + 1}) - 1)

Fits(kept, bytes) == Len(kept) <= MaxEntries /\ bytes <= MaxBytes

(* evict: the first ones go until both limits hold                         *)
Evict(c) ==
    LET enough == {n \in 0..Len(c.entries) :
                      LET rest == RemovedFirst(c, c.entries, n) IN Fits(rest.entries, rest.bytes)}
    IN  RemovedFirst(c, c.entries, Min(enough))

Insert(c, entry) ==
    [entries |-> Append(c.entries, entry),
     expiring |-> IF entry.expiresAt = Never THEN c.expiring ELSE Append(c.expiring, entry),
     bytes |-> c.bytes + SizeOf[entry.value]]

(* a value that could never fit, or has expired already, is not kept       *)
IsKept(value, ttl) == MaxEntries >= 1 /\ SizeOf[value] <= MaxBytes /\ ttl > 0

Entry(key, value, ttl) ==
    [key |-> key, value |-> value, expiresAt |-> IF ttl = Never THEN Never ELSE time + ttl]

-----------------------------------------------------------------------------
(* The plain cache, for comparison: a sequence in the order of use.  Where *)
(* all entries share a ttl it is swept of all that expired and cut to the  *)
(* limits; where they do not it has all that was ever set.                 *)

LastThatFit(kept) ==
    LET last(n) == SubSeq(kept, Len(kept) - n + 1, Len(kept))
    IN  last(Max({n \in 0..Len(kept) : Fits(last(n), BytesOf(last(n)))}))

PlainSet(entry, isKept) ==
    LET added == Without(plain, entry.key) \o (IF isKept THEN <<entry>> ELSE <<>>)
    IN  IF sharing THEN LastThatFit(Live(added)) ELSE added

-----------------------------------------------------------------------------

Get(key) ==
    LET found == Of(cache.entries, key) IN
    /\ cache' = IF found # <<>> /\ Expired(found[1]) THEN Removed(cache, key)
                ELSE [cache EXCEPT !.entries = Without(@, key) \o found]
    /\ plain' = Without(plain, key) \o Of(plain, key)
    /\ UNCHANGED <<time, sharing>>

Set(key, value, ttl) ==
    LET entry == Entry(key, value, ttl)
        swept == DropExpired(Removed(cache, key)) IN
    /\ cache' = IF IsKept(value, ttl) THEN Evict(Insert(swept, entry)) ELSE swept
    /\ plain' = PlainSet(entry, IsKept(value, ttl))
    /\ UNCHANGED <<time, sharing>>

Delete(key) ==
    /\ cache' = Removed(cache, key)
    /\ plain' = Without(plain, key)
    /\ UNCHANGED <<time, sharing>>

Clear == cache' = NoEntries /\ plain' = <<>> /\ UNCHANGED <<time, sharing>>

(* size and bytes                                                          *)
Count == cache' = DropExpired(cache) /\ UNCHANGED <<time, sharing, plain>>

Passes == time < MaxTime /\ time' = time + 1 /\ UNCHANGED <<cache, sharing, plain>>

Next ==
    \/ \E key \in Keys :
        \/ Get(key) \/ Delete(key)
        \/ \E value \in Values, ttl \in IF sharing THEN {Ttl} ELSE OwnTtls : Set(key, value, ttl)
    \/ Clear \/ Count \/ Passes

Spec == Init /\ [][Next]_vars

-----------------------------------------------------------------------------

(* Where all entries share the ttl, the cache gives what a plain one gives *)
(* that sweeps everything: its size and its bytes are those of what did    *)
(* not expire, the entries that were used last and fit (create-cache.ts:18 *)
(* "bounded by entries and by bytes, whichever is hit first").  Where some *)
(* have a ttl of their own it may keep less, and the sweep leaves some     *)
(* that expired; what it has that is valid are the values set last, in the *)
(* order they were used.  The bytes are those of the entries, and nothing  *)
(* waits for the sweep that is not in the cache: it would never end.       *)
CacheIsPlain ==
    LET swept == DropExpired(cache).entries IN
    /\ Live(cache.entries) = SelectSeq(Live(plain), LAMBDA e : Of(cache.entries, e.key) # <<>>)
    /\ sharing => swept = Live(plain)
    /\ cache.bytes = BytesOf(cache.entries) /\ Fits(cache.entries, cache.bytes)
    /\ Range(cache.expiring) = {e \in Range(cache.entries) : e.expiresAt # Never}
=============================================================================
