---------------------------- MODULE StaticFiles ----------------------------
(***************************************************************************)
(* The static worker: a request for a file, with its conditions and its    *)
(* range, is answered from the file or from the precompressed variant next *)
(* to it, which may be replaced at any time; small files are kept in a     *)
(* cache.  A version of a file has a size and a modification time of its   *)
(* own; the bytes of a body are pairs of version and position.             *)
(***************************************************************************)
EXTENDS Integers, Sequences, FiniteSets, SequencesExt, FiniteSetsExt

CONSTANTS
    SizeOf,         \* the size of each version of a file
    SecondOf,       \* the second each version was written in
    Threshold,      \* StaticStreamThreshold
    MaxEntries, MaxBytes,   \* StaticFileCache
    Headers,        \* the conditions of a request
    Ranges,         \* the Range headers
    Requests        \* bound: requests at a time

Versions == 1..Len(SizeOf)
Files == {"plain", "br"}

VARIABLES
    files,      \* the version of each file, 0 when it is not there
    newest,     \* the version that was written last
    entries,    \* the cache, the least recently used first
    bytes,      \* its size
    requests    \* what each request is at

vars == <<files, newest, entries, bytes, requests>>

(* no header, a date or an entity tag                                      *)
Nothing == [by |-> "none", version |-> 0]
Etag(version) == [by |-> "etag", version |-> version]
Date(version) == [by |-> "date", version |-> version]

Idle == [at |-> "idle"]

Init ==
    /\ files \in [Files -> {0, 1}]
    /\ newest = 1
    /\ entries = <<>> /\ bytes = 0
    /\ requests = [r \in Requests |-> Idle]

-----------------------------------------------------------------------------

(* If-None-Match decides when it is there, If-Modified-Since only          *)
(* otherwise; dates have a resolution of seconds                           *)
IsNotModified(headers, version) ==
    CASE headers.ifNoneMatch.by = "any"  -> TRUE
      [] headers.ifNoneMatch.by = "etag" -> headers.ifNoneMatch.version = version
      [] headers.ifNoneMatch.by = "none" ->
            /\ headers.ifModifiedSince.by = "date"
            /\ SecondOf[headers.ifModifiedSince.version] >= SecondOf[version]

MatchesIfRange(ifRange, version) ==
    CASE ifRange.by = "none" -> TRUE
      [] ifRange.by = "etag" -> ifRange.version = version
      [] ifRange.by = "date" -> SecondOf[ifRange.version] = SecondOf[version]

(* A range is the positions from start to end; -1 stands for no number.    *)
Ignored == [kind |-> "ignored"]
Unsatisfiable == [kind |-> "unsatisfiable"]
Part(start, end) == [kind |-> "part", start |-> start, end |-> end]

ParseRange(range, size) ==
    IF range.first = -1 /\ range.last = -1 THEN Ignored
    ELSE IF range.first = -1
    THEN IF range.last = 0 \/ size = 0 THEN Unsatisfiable
         ELSE Part(Max({size - range.last, 0}), size - 1)
    ELSE LET end == IF range.last = -1 THEN size - 1 ELSE range.last
         IN  IF end < range.first /\ range.last # -1 THEN Ignored
             ELSE IF range.first >= size THEN Unsatisfiable
             ELSE Part(range.first, Min({end, size - 1}))

Answer(status, body) == [status |-> status, part |-> body]

ChooseStaticAnswer(headers, range, version) ==
    LET size == SizeOf[version]
        part == IF MatchesIfRange(headers.ifRange, version) THEN ParseRange(range, size) ELSE Ignored
    IN  IF IsNotModified(headers, version) THEN Answer(304, Part(0, -1))
        ELSE CASE part.kind = "unsatisfiable" -> Answer(416, Part(0, -1))
               [] part.kind = "ignored"       -> Answer(200, Part(0, size - 1))
               [] part.kind = "part"          -> Answer(206, part)

Bytes(content, part) == {<<content, i>> : i \in part.start..part.end}

-----------------------------------------------------------------------------

Cached(file) == {i \in 1..Len(entries) : entries[i].file = file}
Without(file) == SelectSeq(entries, LAMBDA e : e.file # file)
SizeOfAll(kept) == FoldSeq(LAMBDA e, n : n + SizeOf[e.content], 0, kept)

(* evict: the least recently used entries go until both limits hold        *)
Evicted(kept) ==
    LET fits == {n \in 0..Len(kept) : LET rest == SubSeq(kept, n + 1, Len(kept))
                                      IN  Len(rest) <= MaxEntries /\ SizeOfAll(rest) <= MaxBytes}
    IN  SubSeq(kept, Min(fits) + 1, Len(kept))

Keep(kept) == entries' = Evicted(kept) /\ bytes' = SizeOfAll(Evicted(kept))

(* the modification time of a body is compared by the second               *)
HitsBySecond(file, version) ==
    \E i \in Cached(file) : /\ SecondOf[entries[i].version] = SecondOf[version]
                         /\ SizeOf[entries[i].version] = SizeOf[version]

(* the body is cached for the modification time and the size of the stats  *)
Hits(file, version) == \E i \in Cached(file) : entries[i].version = version

(* The request: the stats of the file it is for, then the variant.         *)
Arrives(r) ==
    /\ requests[r] = Idle
    /\ IF files["plain"] = 0
       THEN UNCHANGED requests      \* answered with 404
       ELSE requests' = [requests EXCEPT ![r] = [at |-> "found", version |-> files["plain"]]]
    /\ UNCHANGED <<files, newest, entries, bytes>>

(* What was answered, from which version of which file, and whether the    *)
(* file was replaced between its stats and its bytes.                      *)
Answered(request, file, version, answer, content, raced) ==
    [at |-> "answered", headers |-> request.headers, range |-> request.range,
     status |-> answer.status, version |-> version, raced |-> raced,
     body |-> Bytes(content, answer.part)]

(* findPrecompressed and chooseStaticAnswer; a small body that is cached   *)
(* is sent at once                                                         *)
Chooses(r) ==
    \E headers \in Headers, range \in Ranges, file \in Files :
    LET version == IF file = "br" THEN files["br"] ELSE requests[r].version
        answer == ChooseStaticAnswer(headers, range, version)
        small == SizeOf[version] <= Threshold
        request == [headers |-> headers, range |-> range]
    IN  /\ requests[r].at = "found"
        /\ version # 0      \* the client accepts the variant and it is there, or not
        /\ IF answer.part.end = -1
           THEN /\ requests' = [requests EXCEPT ![r] =
                                   Answered(request, file, version, answer, version, FALSE)]
                /\ UNCHANGED <<entries, bytes>>
           ELSE IF small /\ Hits(file, version)
           THEN \E i \in Cached(file) :
                    /\ entries' = Append(Without(file), entries[i])
                    /\ requests' = [requests EXCEPT ![r] =
                                       Answered(request, file, version, answer,
                                                entries[i].content, entries[i].raced)]
                    /\ UNCHANGED bytes
           ELSE /\ requests' = [requests EXCEPT ![r] =
                                   [at |-> "reading", headers |-> request.headers,
                                    range |-> request.range, file |-> file,
                                    version |-> version, answer |-> answer]]
                /\ IF small THEN Keep(Without(file)) ELSE UNCHANGED <<entries, bytes>>
        /\ UNCHANGED <<files, newest>>

(* The file is read, as it is now: a small one is kept when its size is    *)
(* still the one of the stats.                                             *)
Reads(r) ==
    LET request == requests[r]
        content == files[request.file]
        raced == content # request.version
        kept == [file |-> request.file, version |-> request.version, content |-> content,
                 raced |-> raced]
    IN  /\ request.at = "reading"
        /\ IF content = 0
           THEN requests' = [requests EXCEPT ![r] = Idle] /\ UNCHANGED <<entries, bytes>>
           ELSE /\ requests' = [requests EXCEPT ![r] =
                                   Answered(request, request.file, request.version,
                                            request.answer, content, raced)]
                /\ IF /\ SizeOf[request.version] <= Threshold
                      /\ SizeOf[content] = SizeOf[request.version]
                      /\ SizeOf[content] <= MaxBytes /\ MaxEntries > 0
                   THEN Keep(Append(Without(request.file), kept))
                   ELSE UNCHANGED <<entries, bytes>>
        /\ UNCHANGED <<files, newest>>

Over(r) ==
    /\ requests[r].at = "answered"
    /\ requests' = [requests EXCEPT ![r] = Idle]
    /\ UNCHANGED <<files, newest, entries, bytes>>

Replaced(file) ==
    /\ newest < Len(SizeOf)
    /\ newest' = newest + 1
    /\ files' \in {[files EXCEPT ![file] = newest + 1], [files EXCEPT ![file] = 0]}
    /\ UNCHANGED <<entries, bytes, requests>>

Next ==
    \/ \E r \in Requests : Arrives(r) \/ Chooses(r) \/ Reads(r) \/ Over(r)
    \/ \E file \in Files : Replaced(file)

Spec == Init /\ [][Next]_vars

-----------------------------------------------------------------------------

(* the positions a range asks for, of a file of the size, by RFC 9110      *)
Asked(range, size) ==
    IF range.first = -1 THEN {i \in 0..(size - 1) : i >= size - range.last}
    ELSE {i \in 0..(size - 1) : i >= range.first /\ (range.last = -1 \/ i <= range.last)}

IsRange(range) == /\ range.first # -1 \/ range.last # -1
                  /\ range.first = -1 \/ range.last = -1 \/ range.first <= range.last

(* An answer whose file was not replaced between its stats and its bytes   *)
(* has the bytes of the version its ETag names, all of them or just those  *)
(* that were asked for of the very version the client has a part of        *)
(* (serve-static-file.ts:33-63); "not modified" is only said of the        *)
(* version, or the second, that the client has; and the cache is never     *)
(* larger than its limits, by the bytes it counts (create-cache.ts:54).    *)
AnswerIsOfOneVersion ==
    /\ \A r \in Requests : requests[r].at = "answered" /\ ~requests[r].raced =>
        LET request == requests[r]
            version == request.version
            whole == {<<version, i>> : i \in 0..(SizeOf[version] - 1)}
            asked == {<<version, i>> : i \in Asked(request.range, SizeOf[version])}
            headers == request.headers
        IN  /\ request.status = 200 => request.body = whole
            /\ request.status = 206 =>
                  /\ request.body = asked /\ asked # {} /\ IsRange(request.range)
                  /\ headers.ifRange.by = "etag" => headers.ifRange.version = version
            /\ request.status = 416 => IsRange(request.range) /\ asked = {}
            /\ request.status = 304 =>
                  \/ headers.ifNoneMatch.by # "none"
                     /\ headers.ifNoneMatch \in {[by |-> "any", version |-> 0], Etag(version)}
                  \/ SecondOf[headers.ifModifiedSince.version] >= SecondOf[version]
    /\ bytes = SizeOfAll(entries) /\ bytes <= MaxBytes /\ Len(entries) <= MaxEntries
=============================================================================
