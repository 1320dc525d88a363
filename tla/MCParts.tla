------------------------------ MODULE MCParts ------------------------------
(***************************************************************************)
(* Small instances of the parts that keep their state to themselves.  A    *)
(* behaviour is one of one part, which is chosen at the start; the         *)
(* variables are those of the part, in the order of its module, and the    *)
(* others are not used.                                                    *)
(***************************************************************************)
EXTENDS Integers, Sequences, TLC

VARIABLES
    part,   \* the part that runs
    s1, s2, s3, s4, s5, s6, s7, s8, s9,
    s10, s11, s12, s13, s14, s15, s16, s17

vars == <<part, s1, s2, s3, s4, s5, s6, s7, s8, s9, s10, s11, s12, s13, s14, s15, s16, s17>>

(* the variables that a part with n variables does not use                  *)
beyond4 == <<s5, s6, s7, s8, s9, s10, s11, s12, s13, s14, s15, s16, s17>>
beyond5 == <<s6, s7, s8, s9, s10, s11, s12, s13, s14, s15, s16, s17>>
beyond6 == <<s7, s8, s9, s10, s11, s12, s13, s14, s15, s16, s17>>
beyond7 == <<s8, s9, s10, s11, s12, s13, s14, s15, s16, s17>>
beyond8 == <<s9, s10, s11, s12, s13, s14, s15, s16, s17>>
beyond12 == <<s13, s14, s15, s16, s17>>
beyond14 == <<s15, s16, s17>>
beyond15 == <<s16, s17>>
beyond16 == <<s17>>

Unused16 == s17 = 0
Unused15 == s16 = 0 /\ Unused16
Unused14 == s15 = 0 /\ Unused15
Unused12 == s13 = 0 /\ s14 = 0 /\ Unused14
Unused8 == s9 = 0 /\ s10 = 0 /\ s11 = 0 /\ s12 = 0 /\ Unused12
Unused7 == s8 = 0 /\ Unused8
Unused6 == s7 = 0 /\ Unused7
Unused5 == s6 = 0 /\ Unused6
Unused4 == s5 = 0 /\ Unused5
-----------------------------------------------------------------------------
(* TargetStore: what a PUT sends                                           *)
Bodies == [form : {"object"}, url : {"ip"}, private : BOOLEAN]

(* WatchedProbe, with one directory that is watched, and with both         *)
DirectoryOf == [a1 |-> "a", a2 |-> "a", b1 |-> "b"]
OneEach == [a1 |-> "a", b1 |-> "b"]

(* StaticFiles: conditions of a request and its Range header               *)
Nothing == [by |-> "none", version |-> 0]
Etag == [by |-> "etag", version |-> 1]
Date(version) == [by |-> "date", version |-> version]
Conditions(ifNoneMatch, ifModifiedSince, ifRange) ==
    [ifNoneMatch |-> ifNoneMatch, ifModifiedSince |-> ifModifiedSince, ifRange |-> ifRange]
Headers ==
    {Conditions(Nothing, Nothing, Nothing), Conditions(Etag, Date(1), Nothing),
     Conditions(Nothing, Date(1), Nothing), Conditions(Nothing, Nothing, Etag),
     Conditions(Nothing, Nothing, Date(2))}
Ranges ==
    {[first |-> -1, last |-> -1], [first |-> 1, last |-> -1], [first |-> 1, last |-> 0],
     [first |-> 2, last |-> 9]}

(* Cache: what fits with another, what does not, and what never fits      *)
ValueSizes == [small |-> 1, big |-> 2, huge |-> 4]

(* Frames: messages of the channel, up to the longest, and frames of a     *)
(* websocket client, some of them wrong                                    *)
Message(meta, kind, body) == [meta |-> meta, kind |-> kind, body |-> body]
Messages ==
    {Message(1, "none", <<>>), Message(1, "end", <<>>), Message(1, "bytes", <<>>),
     Message(2, "bytes", <<5, 6, 7>>), Message(1, "text", <<1, 2>>),
     Message(2, "text", <<1, 2, 3, 4, 5, 6, 7, 8>>)}
Frame(fin, opcode, payload) ==
    [fin |-> fin, opcode |-> opcode, reserved |-> FALSE, masked |-> TRUE, payload |-> payload]
ClientFrames ==
    {Frame(FALSE, "text", <<1, 2, 3>>), Frame(FALSE, "continuation", <<4>>),
     Frame(TRUE, "continuation", <<5, 6>>), Frame(TRUE, "binary", <<1, 2, 3, 4, 5>>),
     Frame(TRUE, "ping", <<9>>), Frame(TRUE, "close", <<>>), Frame(TRUE, "close", <<1>>),
     Frame(FALSE, "ping", <<>>), Frame(TRUE, "binary", <<1, 2, 3, 4, 5, 6, 7>>),
     [Frame(TRUE, "binary", <<1>>) EXCEPT !.masked = FALSE]}

(* Routes: rules, routes, servers, requests and files                      *)
Rule(by, path, methods, kind, target) ==
    [by |-> by, path |-> path, methods |-> methods, kind |-> kind, target |-> target]
Rules ==
    {<<>>,
     <<Rule("path", <<"p">>, {}, "rewrite", <<"q">>), Rule("path", <<"q">>, {"GET"}, "redirect", <<"p">>),
       Rule("pattern", <<"p">>, {}, "redirect", <<"{rest}">>)>>,
     <<Rule("pattern", <<"q">>, {}, "redirect", <<"p">>), Rule("path", <<"p">>, {}, "rewrite", <<"q">>),
       Rule("path", <<"q">>, {}, "rewrite", <<"p">>)>>}
Way(by, path, worker) == [by |-> by, path |-> path, methods |-> {}, worker |-> worker]
Ways ==
    {<<>>, <<Way("path", <<"p">>, <<"one">>), Way("pattern", <<"p">>, <<"two">>),
             Way("path", <<"p", "q">>, <<"three">>)>>}
Host(protocol, name, rules, routes) ==
    [protocol |-> protocol, name |-> name, default |-> FALSE, redirects |-> FALSE,
     certificate |-> protocol = "https", hsts |-> FALSE, rules |-> rules, routes |-> routes,
     fallthrough |-> TRUE, type |-> "worker", lambda |-> <<>>]
AX == <<"a", "x">>
AnyX == <<"*", "x">>
VirtualHosts ==
    {Host("http", AX, rules, ways) : rules \in Rules, ways \in Ways}
    \cup {[Host("https", AX, rules, <<>>) EXCEPT !.hsts = TRUE, !.redirects = TRUE] : rules \in Rules}
    \cup {[Host(protocol, name, <<>>, <<>>) EXCEPT !.type = "other"] :
             protocol \in {"http", "https"}, name \in {AX, AnyX}}
    \cup {[Host("http", AX, <<>>, <<>>) EXCEPT !.fallthrough = FALSE],
          [Host("http", AnyX, <<>>, <<>>) EXCEPT !.default = TRUE],
          Host("https", AnyX, <<>>, <<>>),
          [Host("https", AnyX, <<>>, <<>>) EXCEPT !.certificate = FALSE, !.redirects = TRUE],
          Host("http", AX, <<>>, <<Way("path", <<"p">>, <<"absent">>)>>),
          [Host("http", AX, <<>>, <<Way("path", <<"p">>, <<"one">>)>>) EXCEPT !.type = "lambda"],
          [Host("http", AX, <<>>, <<Way("path", <<"q">>, <<"one">>)>>) EXCEPT
              !.type = "lambda", !.lambda = <<"two">>]}
Requested ==
    [protocol : {"http", "https"}, name : {<<>>, AX, <<"c", "x">>, <<"a", "y">>}, method : {"GET", "PUT"},
     path : {<<>>, <<"p">>, <<"q">>, <<"p", "q">>, <<"p", "", "q">>, <<"p", "..">>, <<"app", "x">>,
             <<"p", "index.js", "q">>}]
Directories == {<<>>, <<"p">>, <<"app">>}
WorkerFiles ==
    {<<"one">>, <<"two">>, <<"three">>, <<"q">>, <<"app", "index.js">>, <<"p", "index.js">>}
Tree == [path \in Directories \cup WorkerFiles |-> IF path \in Directories THEN "directory" ELSE "file"]

(* Configuration: a good server, and others that differ from it            *)
InFile(instance) == [instance EXCEPT !.file = "good"]
Plain ==
    [file |-> "none", protocol |-> "http", name |-> <<"a", "x">>, default |-> FALSE, type |-> "other",
     given |-> {}, key |-> "", cert |-> "", ca |-> "", acme |-> FALSE, directory |-> "", directoryCa |-> "",
     redirects |-> FALSE, hsts |-> FALSE, rules |-> <<>>, errorPages |-> {}, root |-> "", cwd |-> "",
     staticWorker |-> "", routes |-> <<>>, lambda |-> "", target |-> "", dynamic |-> FALSE,
     token |-> FALSE, proxyCa |-> "", args |-> "none", port |-> "none"]
Secure == [Plain EXCEPT !.protocol = "https", !.key = "key", !.cert = "cert", !.hsts = TRUE]
OfWorker == [Plain EXCEPT !.type = "worker", !.given = {"options"}, !.root = "folder"]
OfLambda == [Plain EXCEPT !.type = "lambda", !.given = {"lambdaOptions"}]
OfProxy == [Plain EXCEPT !.type = "proxy", !.given = {"proxyOptions"}]
OfChild ==
    [Plain EXCEPT !.type = "child", !.given = {"childOptions", "proxyOptions", "serverOptions"},
                  !.name = <<"b", "x">>, !.args = "told"]
To(by, file) == [by |-> by, file |-> file]
Place(by, redirect, place, placeholders, status) ==
    [by |-> by, groups |-> {"id"}, redirect |-> redirect, place |-> place, placeholders |-> placeholders,
     status |-> status, methods |-> {"PUT"}]
Singles ==
    {Plain, [Plain EXCEPT !.file = "missing"], [Plain EXCEPT !.file = "broken"], [Plain EXCEPT !.hsts = TRUE],
     [Plain EXCEPT !.key = "key"], [Plain EXCEPT !.name = <<"stats">>],
     Secure, InFile(Secure), [Secure EXCEPT !.key = "", !.cert = ""], [Secure EXCEPT !.ca = "folder"],
     [Secure EXCEPT !.acme = TRUE], [Secure EXCEPT !.acme = TRUE, !.key = "gone"],
     [Secure EXCEPT !.acme = TRUE, !.name = <<"*", "x">>],
     [Secure EXCEPT !.acme = TRUE, !.directory = "http", !.directoryCa = "gone"],
     [OfWorker EXCEPT !.given = {}], [OfWorker EXCEPT !.root = "gone"], [OfWorker EXCEPT !.cwd = "page"],
     [OfWorker EXCEPT !.routes = <<To("pattern", "page"), To("path", "gone")>>],
     InFile([OfWorker EXCEPT !.routes = <<To("path", "page")>>]),
     [OfWorker EXCEPT !.routes = <<To("wrong pattern", "page")>>],
     [OfWorker EXCEPT !.routes = <<To("long path", "page")>>],
     OfLambda, [OfLambda EXCEPT !.lambda = "page"], [OfLambda EXCEPT !.routes = <<To("pattern", "page")>>],
     OfProxy, [OfProxy EXCEPT !.target = "url"], [OfProxy EXCEPT !.target = "no url"],
     [OfProxy EXCEPT !.dynamic = TRUE], [OfProxy EXCEPT !.dynamic = TRUE, !.token = TRUE],
     [OfProxy EXCEPT !.target = "url", !.proxyCa = "gone"],
     [OfChild EXCEPT !.args = "plain"], [OfChild EXCEPT !.port = "set", !.args = "plain", !.target = "url"],
     [OfChild EXCEPT !.port = "set"], [OfChild EXCEPT !.proxyCa = "gone"], [OfChild EXCEPT !.given = {}],
     [Plain EXCEPT !.rules = <<Place("wrong pattern", FALSE, "local", {}, 0)>>],
     [Plain EXCEPT !.rules = <<Place("pattern", TRUE, "fixed host", {"id"}, 308), Place("path", FALSE, "local", {}, 0)>>],
     [Plain EXCEPT !.rules = <<Place("pattern", FALSE, "fixed host", {}, 0)>>],
     [Plain EXCEPT !.rules = <<Place("pattern", TRUE, "local", {"other"}, 301)>>],
     InFile([Plain EXCEPT !.rules = <<Place("path", TRUE, "local", {}, 301)>>]),
     InFile([OfWorker EXCEPT !.errorPages = {[status |-> 404, file |-> "page"]}]),
     [Plain EXCEPT !.errorPages = {[status |-> 200, file |-> "page"]}]}
Pairs ==
    {<<InFile(OfChild), InFile(Secure)>>, <<OfChild, InFile(OfWorker)>>, <<Plain, Plain>>,
     <<OfChild, [OfChild EXCEPT !.name = <<"c", "x">>, !.args = "function"]>>,
     <<OfChild, InFile([OfWorker EXCEPT !.errorPages = {[status |-> 404, file |-> "page"]}])>>,
     <<[Plain EXCEPT !.default = TRUE], [Plain EXCEPT !.name = <<"c">>, !.default = TRUE]>>}
Usual ==
    [portHttp |-> 0, portHttps |-> 0, lookup |-> "right", unknownHostPage |-> "page", statsDomain |-> <<"stats">>]
Setups ==
    {[settings |-> Usual, entries |-> <<one>>] : one \in Singles}
    \cup {[settings |-> Usual, entries |-> two] : two \in Pairs}
    \cup {[settings |-> other, entries |-> <<InFile(OfChild)>>] : other \in
             {[Usual EXCEPT !.portHttp = 1, !.portHttps = 1], [Usual EXCEPT !.lookup = "ends before it starts"],
              [Usual EXCEPT !.unknownHostPage = ""], [Usual EXCEPT !.unknownHostPage = "gone"]}}
Definitions ==
    {InFile(OfChild), InFile(Secure), InFile(OfLambda), [Plain EXCEPT !.file = "broken"],
     [Plain EXCEPT !.file = "missing"], InFile([OfWorker EXCEPT !.routes = <<To("path", "gone")>>])}
Something(kind, pem, pair, days) == [kind |-> kind, pem |-> pem, pair |-> pair, days |-> days]
Absent == Something("absent", "none", 0, "many")
Text == Something("file", "none", 0, "many")
Key(pair) == Something("file", "key", pair, "many")
Cert(pair, days) == Something("file", "cert", pair, days)
Contents == {Absent, Text, Key(1), Cert(1, "past"), Cert(1, "few"), Cert(2, "many")}
Disk ==
    [path \in {"key", "cert", "page", "folder", "gone"} |->
        CASE path = "key" -> Key(1) [] path = "cert" -> Cert(1, "many") [] path = "page" -> Text
          [] path = "folder" -> Something("folder", "none", 0, "many") [] path = "gone" -> Absent]

(* Service: with and without a user and a folder for the output, and with  *)
(* a name that is not valid                                                *)
Offers(name, user, logFolder, version) ==
    [name |-> name, serviceUser |-> user, logFolder |-> logFolder, version |-> version]
ServiceConfigurations ==
    {Offers("a", "", TRUE, 1), Offers("a", "www", FALSE, 2), Offers("b", "", FALSE, 3),
     Offers("-", "", FALSE, 4)}

(* Response: no wish, and anything but br                                  *)
Accepts == {<<>>, ("*" :> 1) @@ ("br" :> 0)}

(* Metrics: two pools of one name                                          *)
NameOf == [pool \in {"one", "two"} |-> "workers"]

-----------------------------------------------------------------------------
Log == INSTANCE FileSink WITH Levels <- {"error", "info"}, MaxLines <- 4, BufferLimit <- 1,
        QueueLimit <- 2, FlushMayFail <- FALSE, behind <- s1, accepted <- s2, buffers <- s3,
        files <- s4, disk <- s5, pool <- s6, timer <- s7, console <- s8, printed <- s9,
        immediates <- s10, lost <- s11, ended <- s12

Target == INSTANCE TargetStore WITH Urls <- {"a", "b"}, Bodies <- Bodies, Ttl <- 1,
        Window <- 1, FailuresLimit <- 1, UpdatesLimit <- 1, AllowPrivate <- FALSE,
        MaxTime <- 2, MaxTargets <- 3, MaxReloads <- 1, MaxCrashes <- 1,
        MaxRemovals <- 2, now <- s1, up <- s2, stores <- s3, serving <- s4, file <- s5,
        made <- s6, agents <- s7, bodies <- s8, failures <- s9, updates <- s10, window <- s11, last <- s12,
        uncertain <- s13, late <- s14, reloads <- s15, crashes <- s16

Certificates == INSTANCE Renewer WITH Hosts <- {"one", "two"}, MaxBadNonces <- 2,
        MaxPolls <- 2, ReloadMayFail <- FALSE, MaxFailures <- 2, MaxAged <- 1,
        MaxCrashes <- 1, up <- s1, key <- s2, cert <- s3, used <- s4, aged <- s5,
        orders <- s6, checking <- s7, queue <- s8, step <- s9, badNonces <- s10,
        polls <- s11, challenges <- s12, issued <- s13, reload <- s14, authority <- s15,
        failures <- s16, crashes <- s17

Probe == INSTANCE WatchedProbe WITH Names <- {"a1", "a2", "b1"}, DirectoryOf <- DirectoryOf,
        Ttl <- 1, MaxDirectories <- 1, MaxTotalEntries <- 1, EntryLimit <- 1, Cooldown <- 1,
        OversizedCooldown <- 1, MaxAge <- 1, ReadTime <- 1, MaxWatchers <- 2, present <- s1,
        since <- s2, known <- s3, changed <- s4, oversized <- s5, missed <- s6,
        watchers <- s7, listings <- s8, names <- s9, expires <- s10, total <- s11,
        reads <- s12, events <- s13, reported <- s14, closed <- s15, answer <- s16

Probes == INSTANCE WatchedProbe WITH Names <- {"a1", "b1"}, DirectoryOf <- OneEach,
        Ttl <- 1, MaxDirectories <- 2, MaxTotalEntries <- 1, EntryLimit <- 1, Cooldown <- 1,
        OversizedCooldown <- 1, MaxAge <- 1, ReadTime <- 1, MaxWatchers <- 2, present <- s1,
        since <- s2, known <- s3, changed <- s4, oversized <- s5, missed <- s6,
        watchers <- s7, listings <- s8, names <- s9, expires <- s10, total <- s11,
        reads <- s12, events <- s13, reported <- s14, closed <- s15, answer <- s16

Static == INSTANCE StaticFiles WITH SizeOf <- <<2, 2, 3>>, SecondOf <- <<1, 1, 2>>,
        Threshold <- 2, MaxEntries <- 1, MaxBytes <- 3, Headers <- Headers,
        Ranges <- Ranges, Requests <- {1, 2}, files <- s1, newest <- s2, entries <- s3,
        bytes <- s4, requests <- s5

Kept == INSTANCE Cache WITH Keys <- {"a", "b", "c"}, Values <- DOMAIN ValueSizes,
        SizeOf <- ValueSizes, MaxEntries <- 2, MaxBytes <- 3, Ttl <- 1,
        OwnTtls <- {1, 2, 4}, MaxTime <- 3, cache <- s1, time <- s2, sharing <- s3,
        plain <- s4

OneLambda == INSTANCE Lambda WITH Requests <- {1, 2},
        Bodies <- {"none", "fits", "declared", "grows"},
        Results <- {"response", "nothing", "error"}, Processes <- 2, DefaultLimited <- TRUE,
        requests <- s1, client <- s2, body <- s3, arrived <- s4, answers <- s5, line <- s6,
        holder <- s7, process <- s8, started <- s9, toLambda <- s10, toServer <- s11,
        contexts <- s12, wholes <- s13, closed <- s14

Folders == INSTANCE LambdaFolders WITH Pids <- {1, 2}, Folders <- {1, 2}, running <- s1,
        disk <- s2, lambdas <- s3, tracked <- s4, hooked <- s5, removing <- s6, left <- s7

Wire == INSTANCE Frames WITH Messages <- Messages, ClientFrames <- ClientFrames,
        MaxFrames <- 3, Base <- 4, MaxFrameLength <- 9, MaxMessage <- 6, Short <- 2,
        format <- s1, frames <- s2, wire <- s3, buffer <- s4, needed <- s5, fragments <- s6,
        got <- s7, failure <- s8

Router == INSTANCE Routes WITH Hosts <- VirtualHosts, MaxHosts <- 2, Requests <- Requested,
        Tree <- Tree, Index <- <<"index.js">>, hosts <- s1, request <- s2, matches <- s3,
        index <- s4, strict <- s5, outcome <- s6

Checks == INSTANCE Configuration WITH Setups <- Setups, Definitions <- Definitions,
        Disk <- Disk, Contents <- Contents, Ports <- 1, MaxChanges <- 1, MaxLoads <- 2,
        settings <- s1, entries <- s2, disk <- s3, changes <- s4, verdict <- s5, up <- s6,
        loads <- s7, phase <- s8, candidates <- s9, running <- s10, ports <- s11,
        left <- s12, outcome <- s13, disturbed <- s14

Services == INSTANCE Service WITH Configurations <- ServiceConfigurations,
        Platforms <- {"linux", "darwin", "win32"},
        NoConfiguration <- Offers("-", "", FALSE, 0), MaxCommands <- 3, MaxTroubles <- 2,
        platform <- s1, configuration <- s2, files <- s3, known <- s4, enabled <- s5,
        runs <- s6, command <- s7, todo <- s8, before <- s9, outcome <- s10,
        commands <- s11, troubles <- s12

Asked == INSTANCE Questions WITH Messages <- 2, kind <- s1, handlers <- s2, waiting <- s3,
        stream <- s4, receiving <- s5, line <- s6, kept <- s7, toServer <- s8,
        toWorker <- s9, subscribed <- s10, upgraded <- s11, reads <- s12, asked <- s13,
        got <- s14, cleared <- s15

Counted == INSTANCE Metrics WITH MaxRequests <- 3, Paths <- {"a", "b"}, PathLimit <- 1,
        Buckets <- <<2, 4>>, Durations <- {4, 5}, Classes <- {"2xx", "5xx"},
        Pools <- {"one", "two"}, NameOf <- NameOf, requests <- s1, totals <- s2,
        latency <- s3, paths <- s4, other <- s5, sources <- s6, names <- s7

Answering == INSTANCE Response WITH Responses <- {1, 2}, Concurrency <- 1, Parts <- 1,
        Sources <- {"send", "parts", "proxy"},
        Kinds <- {"text", "html", "small", "encoded"}, Supported <- <<"br", "gzip">>,
        Accepts <- Accepts, Upgrades <- {TRUE}, plan <- s1, target <- s2, written <- s3,
        page <- s4, head <- s5, stream <- s6, inside <- s7, paused <- s8, out <- s9,
        connection <- s10, released <- s11, active <- s12

-----------------------------------------------------------------------------
Init ==
    \/ part = "log" /\ Log!Init /\ Unused12
    \/ part = "target" /\ Target!Init /\ Unused16
    \/ part = "certificates" /\ Certificates!Init
    \/ part = "probe" /\ Probe!Init /\ Unused16
    \/ part = "directories" /\ Probes!Init /\ Unused16
    \/ part = "files" /\ Static!Init /\ Unused5
    \/ part = "cache" /\ Kept!Init /\ Unused4
    \/ part = "lambda" /\ OneLambda!Init /\ Unused14
    \/ part = "folders" /\ Folders!Init /\ Unused7
    \/ part = "frames" /\ Wire!Init /\ Unused8
    \/ part = "routes" /\ Router!Init /\ Unused6
    \/ part = "configuration" /\ Checks!Init /\ Unused14
    \/ part = "service" /\ Services!Init /\ Unused12
    \/ part = "questions" /\ Asked!Init /\ Unused15
    \/ part = "metrics" /\ Counted!Init /\ Unused7
    \/ part = "response" /\ Answering!Init /\ Unused12

LogRuns == part = "log" /\ Log!Next /\ UNCHANGED <<part, beyond12>>
TargetRuns == part = "target" /\ Target!Next /\ UNCHANGED <<part, beyond16>>
CertificatesRuns == part = "certificates" /\ Certificates!Next /\ UNCHANGED part
ProbeRuns == part = "probe" /\ Probe!Next /\ UNCHANGED <<part, beyond16>>
ProbesRuns == part = "directories" /\ Probes!Next /\ UNCHANGED <<part, beyond16>>
StaticRuns == part = "files" /\ Static!Next /\ UNCHANGED <<part, beyond5>>
KeptRuns == part = "cache" /\ Kept!Next /\ UNCHANGED <<part, beyond4>>
OneLambdaRuns == part = "lambda" /\ OneLambda!Next /\ UNCHANGED <<part, beyond14>>
FoldersRuns == part = "folders" /\ Folders!Next /\ UNCHANGED <<part, beyond7>>
WireRuns == part = "frames" /\ Wire!Next /\ UNCHANGED <<part, beyond8>>
RouterRuns == part = "routes" /\ Router!Next /\ UNCHANGED <<part, beyond6>>
ChecksRuns == part = "configuration" /\ Checks!Next /\ UNCHANGED <<part, beyond14>>
ServicesRuns == part = "service" /\ Services!Next /\ UNCHANGED <<part, beyond12>>
AskedRuns == part = "questions" /\ Asked!Next /\ UNCHANGED <<part, beyond15>>
CountedRuns == part = "metrics" /\ Counted!Next /\ UNCHANGED <<part, beyond7>>
AnsweringRuns == part = "response" /\ Answering!Next /\ UNCHANGED <<part, beyond12>>

Next ==
    \/ LogRuns \/ TargetRuns \/ CertificatesRuns \/ ProbeRuns \/ ProbesRuns
    \/ StaticRuns \/ KeptRuns \/ OneLambdaRuns
    \/ FoldersRuns \/ WireRuns \/ RouterRuns \/ ChecksRuns \/ ServicesRuns \/ AskedRuns \/ CountedRuns \/ AnsweringRuns

(* The certificates are the only part with a property of what happens in   *)
(* the end: its steps, as Renewer!Fairness has them.                       *)
RenewerStep(Step) == part = "certificates" /\ Step /\ UNCHANGED part
Fairness ==
    /\ WF_vars(RenewerStep(Certificates!Start)) /\ WF_vars(RenewerStep(Certificates!Look))
    /\ WF_vars(RenewerStep(Certificates!Order)) /\ WF_vars(RenewerStep(Certificates!Reload))
    /\ WF_vars(RenewerStep(Certificates!Authority))

Spec == Init /\ [][Next]_vars /\ Fairness

-----------------------------------------------------------------------------

(* A file of the log holds the lines of its level, in their order and once.*)
LogIsComplete == part = "log" => Log!LogIsComplete

(* Requests, the file and a restart find the target registered last.       *)
TargetIsKept == part = "target" => Target!TargetIsKept

(* Every host ends up served with a certificate that is not due.           *)
CertificatesAreRenewed == <>[](part = "certificates" => Certificates!Renewed)

(* "Missing" is never said for longer than it may be remembered.           *)
MissingIsRecent ==
    /\ part = "probe" => Probe!MissingIsRecent
    /\ part = "directories" => Probes!MissingIsRecent

(* An answer has the bytes of the one version its ETag names.              *)
AnswerIsOfOneVersion == part = "files" => Static!AnswerIsOfOneVersion

(* The cache gives what a plain one would give.                            *)
CacheIsPlain == part = "cache" => Kept!CacheIsPlain

(* A handler has its lambda process for itself, and one answer.            *)
HandlerRunsAlone == part = "lambda" => OneLambda!HandlerRunsAlone

(* No server sweeps the folder of a lambda of a running server.            *)
FoldersAreKept == part = "folders" => Folders!FoldersAreKept

(* Messages are handed on whole, in order, however the stream is cut.      *)
FramesSurviveCuts == part = "frames" => Wire!FramesSurviveCuts

(* The first host, rule and route that matches decides.                    *)
FirstInConfigurationDecides == part = "routes" => Router!FirstInConfigurationDecides

(* What the checks let through can be started, and nothing else is refused.*)
ChecksAreEnough == part = "configuration" => Checks!ChecksAreEnough

(* What runs or will be started has its definition, and add and remove do it all.*)
ServiceIsFound == part = "service" => Services!ServiceIsFound

(* Who asks for the metrics gets the answer to that question.              *)
QuestionsAreAnswered == part = "questions" => Asked!QuestionsAreAnswered

(* The metrics are true of the requests and the pools that there were.     *)
MetricsAreTrue == part = "metrics" => Counted!MetricsAreTrue

(* A response has one head and a body that fits it, whoever wrote it.      *)
AnswerIsOfOnePiece == part = "response" => Answering!AnswerIsOfOnePiece
=============================================================================
