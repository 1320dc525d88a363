--------------------------- MODULE Configuration ---------------------------
(***************************************************************************)
(* The checks of a configuration and what comes after them.  The servers   *)
(* are loaded from their entries, checked as a whole, their certificates   *)
(* are read, they are started one after the other, and take over.  The     *)
(* same checks can be run alone.  A check and the code that it speaks for  *)
(* are far from each other, and each reads the files for itself, so that   *)
(* another process can change them in between.                             *)
(*                                                                         *)
(* A path that is not set is "".  A file has nothing that matters but what *)
(* a key or a certificate is: the number of its pair and the days left.    *)
(***************************************************************************)
EXTENDS Integers, Sequences, FiniteSets, SequencesExt, FiniteSetsExt

CONSTANTS
    Setups,       \* what is given to a start: [settings, entries]
    Definitions,  \* what the file of an entry may become
    Disk,         \* what the paths are at first
    Contents,     \* what a path may become
    Ports,        \* free ports of the lookup
    MaxChanges, MaxLoads

VARIABLES
    settings,   \* of the whole: ports, lookup, the page of unknown hosts, the stats
    entries,    \* `servers`: each is a definition, or the file that has one
    disk,
    changes,    \* number of changes of the disk and of the files of entries
    verdict,    \* what the check alone said, if nothing has changed since
    up,         \* the servers have been started, so that a load is a reload
    loads,      \* number of starts and reloads
    phase,      \* how far the load is
    candidates, \* [entry, loaded, instance, runs, context] of the load
    running,    \* the candidates that have taken over
    ports,      \* PORTS: how many are left
    left,       \* servers that were started and that nobody closes
    outcome,    \* of the last load
    disturbed   \* something has changed while the last load ran

vars == <<settings, entries, disk, changes, verdict, up, loads, phase, candidates,
          running, ports, left, outcome, disturbed>>

NotChecked == [done |-> FALSE, errors |-> {}]

-----------------------------------------------------------------------------
(* The checks: each gives the problems it finds, as severity and setting   *)

Reported(found, setting) == IF found THEN {<<"error", setting>>} ELSE {}
Warned(found, setting) == IF found THEN {<<"warning", setting>>} ELSE {}
Errors(problems) == {problem \in problems : problem[1] = "error"}

Exists(path, kind) == disk[path].kind = kind
FindMissingPath(setting, path, kind) == Reported(path # "" /\ ~Exists(path, kind), setting)
FindMissingFiles(setting, paths) == UNION {FindMissingPath(setting, path, "file") : path \in paths}

(* what stands in a path as a key or a certificate                         *)
IsPem(path, pem) == Exists(path, "file") /\ disk[path].pem = pem

(* Mutant: the certificate is not compared with the key.                   *)
FindPairProblemsUnmatched(key, cert) ==
    Reported(~IsPem(cert, "cert"), "cert") \cup Reported(~IsPem(key, "key"), "key")

(* findPairProblems and findExpiryProblems                                 *)
FindPairProblems(key, cert) ==
    IF ~IsPem(cert, "cert") \/ ~IsPem(key, "key")
    THEN Reported(TRUE, IF IsPem(cert, "cert") THEN "key" ELSE "cert")
    ELSE Reported(disk[key].pair # disk[cert].pair \/ disk[cert].days = "past", "cert")
            \cup Warned(disk[cert].days = "few", "cert")

(* One of the two missing is an error, both only for https; a file that is *)
(* not there is for the paths to name.                                     *)
FindCertificateProblems(instance) ==
    IF instance.key = "" \/ instance.cert = ""
    THEN Reported(instance.key # instance.cert \/ instance.protocol = "https", "key")
    ELSE IF Exists(instance.key, "file") /\ Exists(instance.cert, "file")
         THEN FindPairProblems(instance.key, instance.cert) ELSE {}

(* a wildcard needs another challenge, and other letters a punycode form   *)
FindAcmeProblems(instance) ==
    IF ~instance.acme THEN {}
    ELSE Reported(instance.protocol # "https" \/ instance.directory = "http", "acme")
            \cup Reported(Range(instance.name) \cap {"*", "international"} # {}, "hostname")
            \cup FindMissingPath("acme.directoryCa", instance.directoryCa, "file")

FindRedirectProblems(instance) ==
    Reported((instance.redirects \/ instance.hsts) /\ instance.protocol # "https", "redirectHttp")

(* a selector of a route or a rule: a path, or a pattern that may be wrong *)
FindPatternProblems(selectors) ==
    Reported(\E selector \in Range(selectors) : selector.by = "wrong pattern", "pattern")

(* The target is a path of the host or, for a redirect, a URL with a host  *)
(* that is written out, and a placeholder is a group of the pattern.       *)
FindTargetProblems(rule) ==
    Reported(~(rule.place = "local" \/ (rule.redirect /\ rule.place = "fixed host")), "rule")
        \cup Reported(~(rule.placeholders \subseteq rule.groups), "rule")
FindMethodProblems(rule) ==
    Warned(rule.redirect /\ rule.status \in {301, 302} /\ ~(rule.methods \subseteq {"GET", "HEAD"}), "rule")
FindRuleProblems(instance) ==
    FindPatternProblems(instance.rules)
        \cup UNION {FindTargetProblems(rule) \cup FindMethodProblems(rule) : rule \in Range(instance.rules)}

FindErrorPageProblems(instance) ==
    FindMissingFiles("errorPages", {page.file : page \in instance.errorPages})
        \cup Reported(\E page \in instance.errorPages : page.status \notin 400..599, "errorPages")

RouteFiles(instance) == {route.file : route \in Range(instance.routes)}

FindWorkerProblems(instance) ==
    FindMissingPath("options.root", instance.root, "folder")
        \cup FindMissingPath("options.cwd", instance.cwd, "folder")
        \cup FindMissingFiles("options", {instance.staticWorker} \cup RouteFiles(instance))
        \cup FindPatternProblems(instance.routes)

FindLambdaProblems(instance) ==
    Reported(instance.lambda = "" /\ instance.routes = <<>>, "lambdaOptions")
        \cup FindMissingFiles("lambdaOptions", {instance.lambda} \cup RouteFiles(instance))
        \cup FindPatternProblems(instance.routes)

(* either a target that is a URL, or a dynamic one with a token            *)
FindProxyProblems(instance) ==
    Reported((instance.target # "") = instance.dynamic, "proxyOptions")
        \cup Reported(instance.target = "no url", "proxyOptions.target")
        \cup Reported(instance.dynamic /\ ~instance.token, "proxyOptions.dynamic")
        \cup FindMissingPath("proxyOptions.ca", instance.proxyCa, "file")

(* A process with a list of arguments is told its port by one of them, or  *)
(* the port is set, which it also is once it has been chosen.              *)
FindChildProblems(instance) ==
    Reported(instance.args = "plain" /\ instance.port = "none", "childOptions.args")

(* findSchemaProblems: what the types need                                 *)
Required(type) ==
    CASE type = "worker" -> {"options"} [] type = "lambda" -> {"lambdaOptions"}
      [] type = "proxy" -> {"proxyOptions"} [] type = "other" -> {}
      [] type = "child" -> {"childOptions", "proxyOptions", "serverOptions"}
FindSchemaProblems(instance) == {<<"error", group>> : group \in Required(instance.type) \ instance.given}

ByType(instance) ==
    CASE instance.type = "worker" /\ "options" \in instance.given -> FindWorkerProblems(instance)
      [] instance.type = "lambda" /\ "lambdaOptions" \in instance.given -> FindLambdaProblems(instance)
      [] instance.type = "proxy" /\ "proxyOptions" \in instance.given -> FindProxyProblems(instance)
      [] instance.type = "child" -> FindChildProblems(instance)
      [] OTHER -> {}

(* The key and the certificate of an acme server are made later.           *)
FindServerProblems(instance) ==
    FindMissingFiles("key", IF instance.acme THEN {} ELSE {instance.key, instance.cert})
        \cup FindMissingPath("ca", instance.ca, "file")
        \cup (IF instance.acme THEN {} ELSE FindCertificateProblems(instance))
        \cup FindAcmeProblems(instance) \cup FindRedirectProblems(instance)
        \cup FindRuleProblems(instance) \cup FindErrorPageProblems(instance)
        \cup ByType(instance)

(* a name or a default host twice, or the name of the stats                *)
FindDuplicateProblems(instances) ==
    LET Twice(Same(_, _)) == \E i, j \in DOMAIN instances :
            i < j /\ instances[i].protocol = instances[j].protocol /\ Same(instances[i], instances[j])
    IN  Reported(Twice(LAMBDA one, other : one.name = other.name), "hostname")
            \cup Reported(Twice(LAMBDA one, other : one.default /\ other.default), "defaultHost")
            \cup Warned(\E instance \in Range(instances) :
                          instance.protocol = "http" /\ instance.name = settings.statsDomain, "hostname")

ValidateServers(instances) ==
    UNION {FindSchemaProblems(instance) \cup FindServerProblems(instance) : instance \in Range(instances)}
        \cup FindDuplicateProblems(instances)

(* 0 is any port that is free                                              *)
ValidateConfiguration ==
    Reported(settings.portHttp # 0 /\ settings.portHttp = settings.portHttps, "portHttps")
        \cup Reported(settings.lookup = "ends before it starts", "portLookup")
        \cup FindMissingPath("unknownHostPage", settings.unknownHostPage, "file")

(* loadInstanceModule: an entry that is a path can have no file, or one    *)
(* that throws or exports something else                                   *)
There == {i \in DOMAIN entries : entries[i].file # "missing"}
Broken == {i \in There : entries[i].file = "broken"}
InOrder(places) == SetToSortSeq(places, <)

(* the check alone, of the servers that can be loaded                      *)
CheckConfiguration ==
    LET loaded == InOrder(There \ Broken)
    IN  ValidateConfiguration \cup Reported(Broken # {}, "(file)")
            \cup Warned(There # DOMAIN entries, "(file)")
            \cup ValidateServers([n \in DOMAIN loaded |-> entries[loaded[n]]])

-----------------------------------------------------------------------------
(* The start                                                               *)

(* createSecureContext: the files have to be there and belong together; of *)
(* an acme server without its files nothing is read                        *)
HasContext(instance) ==
    /\ instance.key # "" /\ instance.cert # ""
    /\ instance.acme => disk[instance.key].kind # "absent" /\ disk[instance.cert].kind # "absent"
ContextThrows(instance) ==
    /\ HasContext(instance)
    /\ \/ ~IsPem(instance.key, "key") \/ ~IsPem(instance.cert, "cert")
       \/ disk[instance.key].pair # disk[instance.cert].pair
       \/ instance.ca # "" /\ ~Exists(instance.ca, "file")
Context(instance) == IF HasContext(instance) THEN disk[instance.cert].pair ELSE 0

(* createRouteMatcher: wrong patterns, and paths above a length            *)
MatcherThrows(selectors) == \E selector \in Range(selectors) : selector.by \in {"wrong pattern", "long path"}

(* proxyMiddleware: a port is chosen if none is set, and kept in the       *)
(* definition itself                                                       *)
PortChosen(instance) ==
    IF instance.type = "child" /\ instance.port = "none"
    THEN [instance EXCEPT !.port = "chosen", !.target = "url"] ELSE instance

(* proxyServerMiddleware *)
TargetThrows(instance, dynamic) ==
    \/ instance.proxyCa # "" /\ ~Exists(instance.proxyCa, "file")
    \/ (instance.target # "") = dynamic
    \/ instance.target = "no url"
    \/ dynamic /\ ~instance.token

(* getMiddleware: what answers the requests does not start                 *)
MiddlewareThrows(instance, portsLeft) ==
    CASE instance.type \in {"worker", "lambda"} ->
            \/ instance.type = "worker" /\ ("options" \notin instance.given \/ instance.root = "")
            \/ \E file \in RouteFiles(instance) : ~Exists(file, "file")
            \/ MatcherThrows(instance.routes)
      [] instance.type = "proxy" -> TargetThrows(instance, instance.dynamic)
      [] instance.type = "child" ->
            \/ ~(Required("child") \subseteq instance.given)
            \/ instance.port = "none" /\ portsLeft = 0
            \/ TargetThrows(PortChosen(instance), FALSE)
      [] instance.type = "other" -> FALSE

(* createInstanceHandler: then the rules and the error pages               *)
HandlerThrows(instance) ==
    MatcherThrows(instance.rules) \/ \E page \in instance.errorPages : ~Exists(page.file, "file")

(* The process of a child is spawned before its target is looked at, and a *)
(* server whose rules or pages fail has its workers already.               *)
LeftBehind(instance, portsLeft) ==
    IF MiddlewareThrows(instance, portsLeft)
    THEN instance.type = "child" /\ Required("child") \subseteq instance.given
            /\ ~(instance.port = "none" /\ portsLeft = 0)
    ELSE HandlerThrows(instance)

Init ==
    /\ \E setup \in Setups : settings = setup.settings /\ entries = setup.entries
    /\ disk = Disk /\ changes = 0
    /\ verdict = NotChecked
    /\ up = FALSE /\ loads = 0 /\ phase = "idle"
    /\ candidates = <<>> /\ running = <<>>
    /\ ports = Ports /\ left = 0
    /\ outcome = "none" /\ disturbed = FALSE

(* another process changes a path, or the file of an entry                 *)
Changed ==
    /\ changes < MaxChanges /\ changes' = changes + 1
    /\ verdict' = NotChecked
    /\ disturbed' = TRUE
    /\ UNCHANGED <<settings, up, loads, phase, candidates, running, ports, left, outcome>>
ChangePath(path) ==
    /\ Changed
    /\ \E content \in Contents : disk' = [disk EXCEPT ![path] = content]
    /\ UNCHANGED entries
Edit(i) ==
    /\ Changed
    /\ entries[i].file # "none"
    /\ \E definition \in Definitions : definition.file # "none" /\ entries' = [entries EXCEPT ![i] = definition]
    /\ UNCHANGED disk

Check ==
    /\ phase = "idle" /\ ~up
    /\ verdict' = [done |-> TRUE, errors |-> Errors(CheckConfiguration)]
    /\ UNCHANGED <<settings, entries, disk, changes, up, loads, phase, candidates, running, ports, left,
                   outcome, disturbed>>

(* findCandidate: the server that runs, unless its file is another now     *)
FindCandidate(i) ==
    LET same == {c \in Range(running) : c.entry = i /\ (entries[i].file = "none" \/ c.loaded = entries[i])}
    IN  IF same # {} THEN CHOOSE c \in same : TRUE
        ELSE [entry |-> i, loaded |-> entries[i], instance |-> entries[i], runs |-> FALSE,
              context |-> 0, toldPort |-> FALSE]

Ends(how) == outcome' = how /\ phase' = "idle"

(* startServer and reload: the settings are checked by a start only; all   *)
(* that is wrong is reported and nothing is started                        *)
Load ==
    LET found == [n \in 1..Cardinality(There) |-> FindCandidate(InOrder(There)[n])]
        problems == ValidateServers([n \in DOMAIN found |-> found[n].instance])
    IN  /\ phase = "idle" /\ loads < MaxLoads
        /\ loads' = loads + 1
        /\ disturbed' = FALSE
        /\ IF Broken # {} \/ Errors(problems) # {} \/ (~up /\ Errors(ValidateConfiguration) # {})
           THEN Ends("refused") /\ UNCHANGED candidates
           ELSE phase' = "checked" /\ candidates' = found /\ UNCHANGED outcome
        /\ UNCHANGED <<settings, entries, disk, changes, verdict, up, running, ports, left>>

(* the certificates of all of them, also of those that run                 *)
SetupSecureContexts ==
    /\ phase = "checked"
    /\ IF \E c \in Range(candidates) : ContextThrows(c.instance)
       THEN Ends("threw") /\ UNCHANGED candidates
       ELSE /\ phase' = "certified"
            /\ candidates' = [n \in DOMAIN candidates |->
                                 [candidates[n] EXCEPT !.context = Context(candidates[n].instance)]]
            /\ UNCHANGED outcome
    /\ UNCHANGED <<settings, entries, disk, changes, verdict, up, loads, running, ports, left, disturbed>>

(* The servers that do not run are started in their order; when one throws *)
(* those before it are closed.  What was chosen for a definition that is   *)
(* in the configuration itself stays there.                                *)
Start ==
    LET PortsBefore(n) ==
            ports - Cardinality({m \in 1..(n - 1) : PortChosen(candidates[m].instance) # candidates[m].instance})
        throwing == {n \in DOMAIN candidates : ~candidates[n].runs /\
                        \/ MiddlewareThrows(candidates[n].instance, PortsBefore(n))
                        \/ HandlerThrows(candidates[n].instance)}
        last == IF throwing = {} THEN Len(candidates) ELSE Min(throwing)
        spawned == {n \in 1..last : ~candidates[n].runs /\
                        (n \in throwing => LeftBehind(candidates[n].instance, PortsBefore(n)))}
    IN  /\ phase = "certified"
        /\ entries' = [i \in DOMAIN entries |->
                          IF entries[i].file = "none" /\ \E n \in spawned : candidates[n].entry = i
                          THEN PortChosen(entries[i]) ELSE entries[i]]
        /\ ports' = PortsBefore(last + 1) +
                (IF throwing # {} /\ last \notin spawned
                    /\ PortChosen(candidates[last].instance) # candidates[last].instance THEN 1 ELSE 0)
        /\ IF throwing # {}
           THEN Ends("threw") /\ left' = left + Cardinality(spawned \cap throwing) /\ UNCHANGED candidates
           ELSE /\ phase' = "started"
                /\ candidates' = [n \in DOMAIN candidates |->
                        IF candidates[n].runs THEN candidates[n]
                        ELSE [candidates[n] EXCEPT !.instance = PortChosen(@),
                                                   !.toldPort = candidates[n].instance.port = "none"]]
                /\ UNCHANGED <<left, outcome>>
        /\ UNCHANGED <<settings, disk, changes, verdict, up, loads, running, disturbed>>

(* apply: the page is read again, and the servers take over                *)
Apply ==
    /\ phase = "started"
    /\ IF settings.unknownHostPage # "" /\ ~Exists(settings.unknownHostPage, "file")
       THEN /\ Ends("threw")
            /\ left' = left + Cardinality({n \in DOMAIN candidates : ~candidates[n].runs})
            /\ UNCHANGED <<running, up>>
       ELSE /\ Ends("runs") /\ up' = TRUE
            /\ running' = [n \in DOMAIN candidates |-> [candidates[n] EXCEPT !.runs = TRUE]]
            /\ UNCHANGED left
    /\ UNCHANGED <<settings, entries, disk, changes, verdict, loads, candidates, ports, disturbed>>

Next ==
    \/ \E path \in DOMAIN disk \ {""} : ChangePath(path)
    \/ \E i \in DOMAIN entries : Edit(i)
    \/ Check \/ Load \/ SetupSecureContexts \/ Start \/ Apply

Spec == Init /\ [][Next]_vars

-----------------------------------------------------------------------------
(* What the checks leave out: the port of a child that is set without the  *)
(* target, or with one that is no URL, and the authorities of its target;  *)
(* a path that is too long; the key and certificate of an acme server that *)
(* do not belong together; ports that run out.                             *)
Unchecked(instance) ==
    \/ instance.type = "child" /\ instance.port # "none" /\ instance.target # "url"
    \/ instance.type = "child" /\ instance.proxyCa # "" /\ ~Exists(instance.proxyCa, "file")
    \/ \E selector \in Range(instance.rules \o instance.routes) : selector.by = "long path"
    \/ instance.acme /\ ContextThrows(instance)
    \/ instance.type = "child" /\ instance.port = "none" /\ ports = 0

PageIsGone == settings.unknownHostPage # "" /\ ~Exists(settings.unknownHostPage, "file")

(* A load that was not refused does not fail, as "everything is loaded and *)
(* checked before anything is started" (load-instances.ts:47), unless the  *)
(* files changed under it or the checks leave it out; and what the check   *)
(* alone finds is what a start finds (check-configuration.ts:26).  The     *)
(* servers that run have the certificate that belongs to their key, and a  *)
(* process was told its port, however often a load failed before: but for  *)
(* a definition in the configuration itself, in which the port of a failed *)
(* start stays.  A server that nobody closes has failed after its process  *)
(* was spawned, or was to take over when the page was gone.                *)
ChecksAreEnough ==
    /\ outcome = "threw" /\ ~disturbed /\ phase = "idle" =>
        (up /\ PageIsGone) \/ \E c \in Range(candidates) : Unchecked(c.instance)
    /\ verdict.done /\ outcome # "none" /\ ~disturbed /\ ~up /\ phase = "idle" =>
        ((outcome = "refused") = (verdict.errors # {}))
    /\ \A c \in Range(running) :
        /\ c.instance.protocol = "https" /\ ~c.instance.acme => c.context # 0
        /\ c.instance.port = "chosen" /\ c.instance.args \in {"told", "function"} =>
            c.toldPort \/ (c.loaded.file = "none" /\ loads > 1)
    /\ left > 0 => changes > 0 \/ \E i \in DOMAIN entries : Unchecked(entries[i])
=============================================================================
