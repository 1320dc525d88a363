------------------------------- MODULE Routes -------------------------------
(***************************************************************************)
(* Where a request goes: the virtual hosts of its port that match its name *)
(* one after the other, as long as they pass it on; in each the rules,     *)
(* which redirect or rewrite it, the routes of its workers and then the    *)
(* files.  The tables that make this fast, a map for exact names and a     *)
(* list of patterns, are compared with the plain reading of the            *)
(* configuration.                                                          *)
(*                                                                         *)
(* A host name is a sequence of labels, "*" in a pattern is one label.  A  *)
(* path is the sequence of what is between its slashes; the pattern of a   *)
(* rule or a route is a prefix, which captures the rest.                   *)
(***************************************************************************)
EXTENDS Naturals, Sequences, FiniteSets, SequencesExt, FiniteSetsExt

CONSTANTS
    Hosts,          \* servers that a configuration may have
    MaxHosts,       \* bound
    Requests,       \* [protocol, name, path, method], name <<>> without a Host header
    Tree,           \* what exists below the root: path -> "directory" or "file"
    Index           \* the names of index workers, in their order

VARIABLES
    hosts,      \* the configuration
    request,    \* as the next handler sees it
    matches,    \* what the router runs, see Route
    index,      \* which of them runs
    strict,     \* the response has the header of HSTS
    outcome     \* <<"open">>, or what became of the request

vars == <<hosts, request, matches, index, strict, outcome>>

None == [kind |-> "none"]
Open == outcome = <<"open">>

-----------------------------------------------------------------------------
(* The tables                                                              *)

IsPattern(name) == "*" \in Range(name)

(* getHostPattern                                                          *)
Fits(name, hostname) ==
    /\ Len(name) = Len(hostname)
    /\ \A i \in 1..Len(name) : name[i] \in {"*", hostname[i]}

(* What the router of a port has: its hosts, and on the port of http after *)
(* them the redirects of the hosts of https.                               *)
Route(i, redirects) == [host |-> i, redirects |-> redirects]
OfProtocol(protocol) ==
    SelectSeq([i \in 1..Len(hosts) |-> i], LAMBDA i : hosts[i].protocol = protocol)
VirtualHosts(protocol) ==
    LET own == OfProtocol(protocol)
        redirected == IF protocol = "https" THEN <<>>
                      ELSE SelectSeq(OfProtocol("https"), LAMBDA i : hosts[i].redirects)
    IN  [i \in 1..Len(own) |-> Route(own[i], FALSE)]
            \o [i \in 1..Len(redirected) |-> Route(redirected[i], TRUE)]

(* the default host is the first one that says it is                       *)
Fallback(protocol) ==
    LET defaults == SelectSeq(OfProtocol(protocol), LAMBDA i : hosts[i].default)
    IN  IF defaults = <<>> THEN <<>> ELSE <<Route(Head(defaults), FALSE)>>

(* buildRouteGroups: a map of the names, and the patterns                  *)
NameOf(route) == hosts[route.host].name
Exact(routes, hostname) == {i \in 1..Len(routes) : ~IsPattern(NameOf(routes[i])) /\ NameOf(routes[i]) = hostname}
Patterns(routes, hostname) == {i \in 1..Len(routes) : IsPattern(NameOf(routes[i])) /\ Fits(NameOf(routes[i]), hostname)}

InOrder(routes, places) == LET order == SetToSortSeq(places, <)
                           IN  [i \in 1..Len(order) |-> routes[order[i]]]

(* the exact names come first, as they are found first                     *)
SelectExactFirst(routes, hostname) ==
    InOrder(routes, Exact(routes, hostname)) \o InOrder(routes, Patterns(routes, hostname))

(* selectRoutes: in the order of the configuration                         *)
SelectRoutes(routes, hostname) ==
    InOrder(routes, Exact(routes, hostname) \cup Patterns(routes, hostname))

(* createContextLookup: the certificate is the one of the exact name, of   *)
(* the last host that has it, else of the first pattern                    *)
ContextLookup(hostname) ==
    LET certified == SelectSeq(OfProtocol("https"), LAMBDA i : hosts[i].certificate)
        routes == [i \in 1..Len(certified) |-> Route(certified[i], FALSE)]
        exact == Exact(routes, hostname)
        patterns == Patterns(routes, hostname)
    IN  IF exact # {} THEN certified[Max(exact)]
        ELSE IF patterns # {} THEN certified[Min(patterns)] ELSE 0

(* createRouteMatcher: the first entry for the path, unless a pattern that *)
(* was listed before it matches                                            *)
Match(entries, path) ==
    LET exact == {i \in 1..Len(entries) : entries[i].by = "path" /\ entries[i].path = path}
        before == Min({Len(entries) + 1} \cup exact)
        patterns == {i \in 1..(before - 1) :
                        entries[i].by = "pattern" /\ IsPrefix(entries[i].path, path)}
    IN  IF patterns # {} THEN Min(patterns) ELSE IF exact # {} THEN before ELSE 0

(* groupRules: rules without methods that follow each other are a table,   *)
(* one with methods is a table of its own                                  *)
Groups(rules) ==
    LET HasMethods(i) == rules[i].methods # {}
        starts == {i \in 1..Len(rules) : i = 1 \/ HasMethods(i) \/ HasMethods(i - 1)}
        end(i) == Min({Len(rules)} \cup {j - 1 : j \in {k \in starts : k > i}})
        first == SetToSortSeq(starts, <)
    IN  [k \in 1..Len(first) |-> SubSeq(rules, first[k], end(first[k]))]

(* createGroup                                                             *)
Asked(group, method) == group[1].methods = {} \/ method \in group[1].methods

(* findRule: the tables are asked in order                                 *)
FindRule(rules, method, path) ==
    LET groups == Groups(rules)
        found == {k \in 1..Len(groups) : Asked(groups[k], method) /\ Match(groups[k], path) # 0}
    IN  IF found = {} THEN None
        ELSE groups[Min(found)][Match(groups[Min(found)], path)]

(* createRouteTable and createLambdaRouteTable: a server does not start    *)
(* with a route whose worker, or lambda, is not a file                     *)
ResolveWorker(worker) == worker \in DOMAIN Tree /\ Tree[worker] = "file"
ValidateLambdaRoute(lambda) == lambda \in DOMAIN Tree /\ Tree[lambda] = "file"
MayStart(host) ==
    \A i \in 1..Len(host.routes) :
        /\ host.type = "worker" => ResolveWorker(host.routes[i].worker)
        /\ host.type = "lambda" => ValidateLambdaRoute(host.routes[i].worker)

(* findDuplicateProblems: the servers that are reported, as their name or  *)
(* that they are the default is taken by one in front of them              *)
Duplicates ==
    {i \in 1..Len(hosts) : \E j \in 1..(i - 1) :
        hosts[j].protocol = hosts[i].protocol /\ hosts[j].name = hosts[i].name}
SecondDefaults ==
    {i \in 1..Len(hosts) : \E j \in 1..(i - 1) :
        hosts[j].protocol = hosts[i].protocol /\ hosts[j].default /\ hosts[i].default}

(* fillRuleTarget: the capture, or nothing, in place of {rest}             *)
FillRuleTarget(rule, path) ==
    LET rest == IF rule.by = "path" THEN <<>> ELSE SubSeq(path, Len(rule.path) + 1, Len(path))
    IN  FlattenSeq([i \in 1..Len(rule.target) |->
                       IF rule.target[i] = "{rest}" THEN rest ELSE <<rule.target[i]>>])

(* what starts with two slashes is another host for a browser              *)
IsPlace(target) == target = <<>> \/ Head(target) # ""

-----------------------------------------------------------------------------
(* A request                                                               *)

Init ==
    /\ hosts \in UNION {[1..n -> {host \in Hosts : MayStart(host)}] : n \in 1..MaxHosts}
    /\ request \in Requests
    /\ matches = <<>> /\ index = 0 /\ strict = FALSE /\ outcome = <<"open">>

(* the handshake: without a certificate for the name it fails              *)
Refused ==
    /\ Open /\ index = 0 /\ request.protocol = "https"
    /\ ContextLookup(request.name) = 0
    /\ outcome' = <<"no certificate">>
    /\ UNCHANGED <<hosts, request, matches, index, strict>>

(* A client names the host of its request in the handshake too; one that   *)
(* asks for the certificate of another is left out.                        *)
Accepted == request.protocol = "https" => ContextLookup(request.name) # 0
Matching == SelectRoutes(VirtualHosts(request.protocol), request.name) \o Fallback(request.protocol)

(* createMisdirectedHandler: no host takes it, and there is no fallback    *)
Misdirected ==
    /\ Open /\ index = 0 /\ Accepted
    /\ Matching = <<>>
    /\ outcome' = <<"misdirected">>
    /\ UNCHANGED <<hosts, request, matches, index, strict>>

(* virtualHostRouter *)
Arrives ==
    /\ Open /\ index = 0 /\ Accepted
    /\ Matching # <<>>
    /\ matches' = Matching /\ index' = 1
    /\ UNCHANGED <<hosts, request, strict, outcome>>

(* resolvePath: the closest folder or file that exists decides, a folder   *)
(* by the index worker in it                                               *)
ResolvePath(path) ==
    LET existing == {k \in 0..Len(path) : SubSeq(path, 1, k) \in DOMAIN Tree}
        current == SubSeq(path, 1, Max(existing))
        indexes == SelectSeq(Index, LAMBDA name : current \o <<name>> \in DOMAIN Tree)
        isWorker == IF Tree[current] = "directory" THEN indexes # <<>>
                    ELSE Last(current) \in Range(Index)
    IN  CASE isWorker /\ Tree[current] = "directory" -> <<"worker", current \o <<Head(indexes)>>>>
          [] isWorker /\ Tree[current] = "file"      -> <<"worker", path>>
          [] ~isWorker /\ current = path             -> <<"file", path>>
          [] OTHER                                   -> <<"not found">>

(* createTargetResolver: the worker of a route, else what is below the     *)
(* root                                                                    *)
Serve(host, path) ==
    LET fragments == SelectSeq(path, LAMBDA fragment : fragment # "")
        route == Match(host.routes, path)
    IN  CASE ".." \in Range(fragments)              -> <<"forbidden">>
          [] route # 0                              -> <<"worker", host.routes[route].worker>>
          [] route = 0 /\ ~host.fallthrough         -> <<"not found">>
          [] OTHER                                  -> ResolvePath(fragments)

(* dispatchRequest: the lambda of a route, else the one of the host; one   *)
(* without routes has all requests                                         *)
DispatchRequest(host, path) ==
    LET route == Match(host.routes, path)
    IN  CASE host.routes = <<>> -> <<"lambda", host.lambda>>
          [] route # 0 -> <<"lambda", host.routes[route].worker>>
          [] host.routes # <<>> /\ route = 0 /\ host.lambda # <<>> -> <<"lambda", host.lambda>>
          [] OTHER -> <<"not found">>

(* runRoutes: the next one of the matching hosts, which sees the path as   *)
(* it was rewritten; what the last one passes on is left to the app        *)
PassedOn == IF index = Len(matches) THEN outcome' = <<"passed">> /\ UNCHANGED index
            ELSE index' = index + 1 /\ UNCHANGED outcome

(* createHttpsRedirect                                                     *)
RedirectsToHttps ==
    /\ Open /\ index > 0 /\ matches[index].redirects
    /\ outcome' = <<"to https">>
    /\ UNCHANGED <<hosts, request, matches, index, strict>>

(* createHstsHandler, for the response whoever answers                     *)
Strict(host) == host.hsts /\ host.protocol = "https"

(* createRulesHandler: the first rule that matches decides, once: the path *)
(* as the server sees it, or the answer                                    *)
RuleDecides(host) ==
    LET rule == FindRule(host.rules, request.method, request.path)
        target == FillRuleTarget(rule, request.path)
    IN  CASE rule = None                              -> <<"serve", request.path>>
          [] rule # None /\ ~IsPlace(target)          -> <<"refused">>
          [] rule.kind = "redirect" /\ IsPlace(target) -> <<"redirected", target>>
          [] rule.kind = "rewrite" /\ IsPlace(target)  -> <<"serve", target>>

(* compose: the handlers of a host, HSTS and the rules, then its server    *)
Runs ==
    LET host == hosts[matches[index].host]
        decision == RuleDecides(host)
    IN  /\ Open /\ index > 0 /\ ~matches[index].redirects
        /\ strict' = (strict \/ Strict(host))
        /\ IF decision[1] # "serve" THEN outcome' = decision /\ UNCHANGED <<request, index>>
           ELSE /\ request' = [request EXCEPT !.path = decision[2]]
                /\ CASE host.type = "worker" -> outcome' = Serve(host, decision[2]) /\ UNCHANGED index
                     [] host.type = "lambda" -> outcome' = DispatchRequest(host, decision[2]) /\ UNCHANGED index
                     [] host.type = "other"  -> PassedOn
        /\ UNCHANGED <<hosts, matches>>

Next == Refused \/ Misdirected \/ Arrives \/ RedirectsToHttps \/ Runs

Spec == Init /\ [][Next]_vars

-----------------------------------------------------------------------------

(* the plain reading: entry by entry, in the order that they are written   *)
Applies(entry, method, path) ==
    /\ entry.methods = {} \/ method \in entry.methods
    /\ IF entry.by = "path" THEN entry.path = path ELSE IsPrefix(entry.path, path)
FirstOf(entries, Test(_)) ==
    LET all == {i \in 1..Len(entries) : Test(entries[i])} IN IF all = {} THEN 0 ELSE Min(all)

(* A host is never asked before one that was written in front of it and    *)
(* takes the name too, nor left out ("as it did when every host was a      *)
(* vhost middleware of its own", virtual-host-router.ts:75), so that the   *)
(* later host of a name, which the check of the configuration reports, is  *)
(* only asked what the earlier one passed on (find-duplicate-problems.ts:9 *)
(* "the later ones would never be asked"), as the second default host is   *)
(* never asked by default.                                                 *)
(* What is misdirected has no host.  The tables of routes and rules give   *)
(* the first entry of the list that matches, with methods or without       *)
(* (create-rules-handler.ts:11).  The certificate of a name is one of a    *)
(* host that takes it, of the first one unless it is the exact one.  And a *)
(* response sends nobody to another host, carries HSTS when a host that    *)
(* has it gave it, also as a redirect or a 400, and names a worker that is *)
(* there (but not below the file of an index worker).                      *)
FirstInConfigurationDecides ==
    /\ index > 0 =>
        LET all == VirtualHosts(request.protocol)
        IN  matches = SelectSeq(all, LAMBDA route : Fits(NameOf(route), request.name))
                      \o Fallback(request.protocol)
    /\ outcome = <<"misdirected">> =>
        \A i \in 1..Len(hosts) :
            hosts[i].protocol = request.protocol => ~Fits(hosts[i].name, request.name)
    /\ \A i \in 1..Len(hosts) :
        LET host == hosts[i]
            rule == FirstOf(host.rules, LAMBDA entry : Applies(entry, request.method, request.path))
            route == FirstOf(host.routes, LAMBDA entry : Applies(entry, request.method, request.path))
        IN  /\ FindRule(host.rules, request.method, request.path) =
                  IF rule = 0 THEN None ELSE host.rules[rule]
            /\ Match(host.routes, request.path) = route
    /\ LET certificate == ContextLookup(request.name)
           taking == {i \in 1..Len(hosts) :
                         /\ hosts[i].protocol = "https" /\ hosts[i].certificate
                         /\ Fits(hosts[i].name, request.name)}
       IN  IF taking = {} THEN certificate = 0
           ELSE /\ certificate \in taking
                /\ IsPattern(hosts[certificate].name) => certificate = Min(taking)
    /\ index > 0 /\ ~matches[index].redirects =>
        LET host == matches[index].host
        IN  IF index = Len(matches) /\ Fallback(request.protocol) # <<>>
            THEN host \notin SecondDefaults
            ELSE host \in Duplicates => \E k \in 1..(index - 1) :
                    /\ hosts[matches[k].host].name = hosts[host].name
                    /\ hosts[matches[k].host].type = "other"
    /\ outcome[1] = "redirected" => IsPlace(outcome[2])
    /\ index > 0 /\ ~Open /\ hosts[matches[index].host].hsts /\ request.protocol = "https" => strict
    /\ outcome[1] = "worker" =>
        \/ outcome[2] \in DOMAIN Tree
        \/ \E k \in 1..(Len(outcome[2]) - 1) :
              outcome[2][k] \in Range(Index) /\ SubSeq(outcome[2], 1, k) \in DOMAIN Tree
=============================================================================
