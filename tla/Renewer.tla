------------------------------ MODULE Renewer ------------------------------
(***************************************************************************)
(* The certificates of the acme servers: the look at what is due, one      *)
(* order after the other with the authority, the files, and the reload     *)
(* after which new connections get the new certificates.  A certificate is *)
(* the number of its order; it is due once it has aged.  The authority and *)
(* the network fail a bounded number of times.                             *)
(***************************************************************************)
EXTENDS Naturals, Sequences, FiniteSets, SequencesExt

CONSTANTS
    Hosts,          \* https servers with acme and no wildcard in their name
    MaxBadNonces,   \* MAX_BAD_NONCES
    MaxPolls,       \* maxPolls
    ReloadMayFail,  \* another file may be broken when the servers load again
    MaxFailures, MaxAged, MaxCrashes   \* bounds

VARIABLES
    up,         \* the server runs
    key, cert,  \* the files of each host: the order they are of, 0 for none
    used,       \* the order the secure context of each host is of
    aged,       \* orders whose certificate is about to expire
    orders,     \* orders so far
    checking,   \* a look is under way
    queue,      \* the due hosts of this look that are not done, in order
    step,       \* what the order of the first of them waits for
    badNonces,  \* refusals of this request for its nonce
    polls,      \* looks at the resource that is waited for
    challenges, \* the hosts whose token is answered
    issued,     \* certificates of this look
    reload,     \* a reload was asked for
    authority,  \* how the order stands with the authority
    failures, crashes

lookVars == <<checking, queue, issued>>
requestVars == <<step, badNonces, polls>>
orderVars == <<requestVars, challenges, authority>>
fileVars == <<key, cert, aged, orders>>
vars == <<up, used, fileVars, lookVars, orderVars, reload, failures, crashes>>

Steps == {"none", "directory", "account", "order", "authorization", "challenge", "validation",
          "finalize", "issue", "chain", "written"}

IsDue(host) == cert[host] = 0 \/ cert[host] \in aged

(* An acme host has no context until both of its files are there.          *)
SecureContexts == [h \in Hosts |-> IF key[h] = 0 \/ cert[h] = 0 THEN 0 ELSE cert[h]]

(* createSecureContext throws for a key that is not of its certificate     *)
MayLoad == \A h \in Hosts : (key[h] # 0 /\ cert[h] # 0) => key[h] = cert[h]

NoLook ==
    /\ checking' = FALSE /\ queue' = <<>> /\ issued' = 0
    /\ step' = "none" /\ badNonces' = 0 /\ polls' = 0
    /\ challenges' = {} /\ authority' = "none"

Init ==
    /\ up = FALSE
    /\ key = [h \in Hosts |-> 0] /\ cert = key /\ used = key
    /\ aged = {} /\ orders = 0
    /\ checking = FALSE /\ queue = <<>> /\ issued = 0
    /\ step = "none" /\ badNonces = 0 /\ polls = 0
    /\ challenges = {} /\ authority = "none"
    /\ reload = FALSE
    /\ failures = 0 /\ crashes = 0

(* a look at the hosts of the servers that are loaded                      *)
Check ==
    LET due == SetToSeq({h \in Hosts : IsDue(h)})
    IN  /\ checking' = (due # <<>>)
        /\ queue' = due
        /\ issued' = 0
        /\ step' = IF due = <<>> THEN "none" ELSE "directory"
        /\ UNCHANGED <<badNonces, polls, challenges, authority>>

Start ==
    /\ ~up /\ MayLoad
    /\ up' = TRUE
    /\ used' = SecureContexts
    /\ Check
    /\ UNCHANGED <<fileVars, reload, failures, crashes>>

Look ==
    /\ up /\ ~checking
    /\ Check
    /\ UNCHANGED <<up, used, fileVars, reload, failures, crashes>>

(* a look that stays under way when none of its orders was issued          *)
NextHostStays(success) ==
    /\ issued' = issued + success
    /\ queue' = Tail(queue)
    /\ step' = IF Len(queue) = 1 THEN "none" ELSE "directory"
    /\ checking' = (Len(queue) > 1 \/ issued' = 0)
    /\ reload' = (reload \/ (Len(queue) = 1 /\ issued' > 0))
    /\ badNonces' = 0 /\ polls' = 0 /\ authority' = "none"

(* The order of a host is over: the next one, or the reload when any host  *)
(* got its certificate.                                                    *)
NextHost(success) ==
    /\ issued' = issued + success
    /\ queue' = Tail(queue)
    /\ step' = IF Len(queue) = 1 THEN "none" ELSE "directory"
    /\ checking' = (Len(queue) > 1)
    /\ reload' = (reload \/ (Len(queue) = 1 /\ issued' > 0))
    /\ badNonces' = 0 /\ polls' = 0 /\ authority' = "none"

(* A request that fails, or an answer that cannot be used, ends the order: *)
(* its token is not answered any more.                                     *)
Fails ==
    /\ up /\ step \notin {"none", "written"}
    /\ failures < MaxFailures
    /\ failures' = failures + 1
    /\ challenges' = challenges \ {Head(queue)}
    /\ NextHost(0)
    /\ UNCHANGED <<up, used, fileVars, crashes>>

(* The authority has forgotten the nonce: the request is sent again.       *)
BadNonce ==
    /\ up /\ step \notin {"none", "directory", "written"}
    /\ badNonces < MaxBadNonces
    /\ badNonces' = badNonces + 1
    /\ UNCHANGED <<up, used, fileVars, lookVars, step, polls, challenges, authority, reload,
                   failures, crashes>>

Goes(from, to) ==
    /\ up /\ step = from
    /\ step' = to
    /\ badNonces' = 0 /\ polls' = 0
    /\ UNCHANGED <<up, used, lookVars, reload, failures, crashes>>

(* the directory is read and the client made with the account key          *)
Directory == Goes("directory", "account") /\ UNCHANGED <<fileVars, challenges, authority>>
Register == Goes("account", "order") /\ UNCHANGED <<fileVars, challenges, authority>>

PlaceOrder ==
    /\ Goes("order", "authorization")
    /\ authority' \in {"pending", "valid"}
    /\ UNCHANGED <<fileVars, challenges>>

(* An authorization may be valid from before.  Otherwise its token is      *)
(* answered from before the authority is told to look.                     *)
SolveAuthorization ==
    /\ Goes("authorization", IF authority = "valid" THEN "finalize" ELSE "challenge")
    /\ challenges' = IF authority = "valid" THEN challenges ELSE challenges \cup {Head(queue)}
    /\ UNCHANGED <<fileVars, authority>>

AnswerChallenge ==
    /\ Goes("challenge", "validation")
    /\ authority' = "looking"
    /\ UNCHANGED <<fileVars, challenges>>

(* One look of `settle` at the resource: the order goes on once it is      *)
(* done, and is given up when it ends badly or after too many looks.       *)
Settle(from, waiting, good, to) ==
    /\ up /\ step = from
    /\ \/ /\ authority = good
          /\ step' = to
          /\ badNonces' = 0 /\ polls' = 0
          /\ challenges' = challenges \ {Head(queue)}
          /\ UNCHANGED <<lookVars, authority, reload, failures>>
       \/ /\ authority \in waiting /\ polls + 1 < MaxPolls
          /\ polls' = polls + 1
          /\ badNonces' = 0
          /\ UNCHANGED <<lookVars, step, challenges, authority, reload, failures>>
       \/ /\ \/ authority \in waiting /\ polls + 1 = MaxPolls
             \/ authority = "invalid"
          /\ failures < MaxFailures
          /\ failures' = failures + 1
          /\ challenges' = challenges \ {Head(queue)}
          /\ NextHost(0)
    /\ UNCHANGED <<up, used, fileVars, crashes>>

SettleAuthorization == Settle("validation", {"looking"}, "valid", "finalize")

Finalize ==
    /\ Goes("finalize", "issue")
    /\ authority' = "processing"
    /\ UNCHANGED <<fileVars, challenges>>

SettleOrder == Settle("issue", {"processing"}, "issued", "chain")

(* the chain, which is of this host and key or the order fails             *)
Download ==
    /\ Goes("chain", "written")
    /\ orders' = orders + 1
    /\ UNCHANGED <<key, cert, aged, challenges, authority>>

(* the key first, then the certificate                                     *)
WriteCertificateFiles ==
    /\ up /\ step = "written"
    /\ key' = [key EXCEPT ![Head(queue)] = orders]
    /\ cert' = [cert EXCEPT ![Head(queue)] = orders]
    /\ NextHost(1)
    /\ UNCHANGED <<up, used, aged, orders, challenges, failures, crashes>>

(* The servers load again, with the files as they are now.                 *)
Reload ==
    /\ up /\ reload
    /\ reload' = FALSE
    /\ used' \in {SecureContexts} \cup {u \in {used} : ReloadMayFail}
    /\ UNCHANGED <<up, fileVars, lookVars, orderVars, failures, crashes>>

(* the process ends, but not between the two files                         *)
Crash ==
    /\ up /\ crashes < MaxCrashes
    /\ up' = FALSE
    /\ crashes' = crashes + 1
    /\ NoLook
    /\ reload' = FALSE
    /\ UNCHANGED <<used, fileVars, failures>>

(* the authority looks for the token over http, and later makes the chain  *)
AuthorityLooks ==
    /\ authority = "looking"
    /\ authority' = IF Head(queue) \in challenges /\ up THEN "valid" ELSE "invalid"
    /\ UNCHANGED <<up, used, fileVars, lookVars, requestVars, challenges, reload, failures,
                   crashes>>

AuthorityIssues ==
    /\ authority = "processing"
    /\ authority' = "issued"
    /\ UNCHANGED <<up, used, fileVars, lookVars, requestVars, challenges, reload, failures,
                   crashes>>

Ages ==
    \E h \in Hosts :
        /\ cert[h] \notin aged \cup {0}
        /\ Cardinality(aged) < MaxAged
        /\ aged' = aged \cup {cert[h]}
        /\ UNCHANGED <<up, used, key, cert, orders, lookVars, orderVars, reload, failures,
                       crashes>>

Order ==
    \/ Directory \/ Register \/ PlaceOrder \/ SolveAuthorization \/ AnswerChallenge
    \/ SettleAuthorization \/ Finalize \/ SettleOrder \/ Download \/ WriteCertificateFiles

Authority == AuthorityLooks \/ AuthorityIssues

Next ==
    \/ Start \/ Look \/ Order \/ Fails \/ BadNonce \/ Reload \/ Crash \/ Ages \/ Authority

(* The timer fires every hour, every request ends, by its timeout at the   *)
(* latest, and somebody starts the server again.                           *)
Fairness ==
    /\ WF_vars(Start) /\ WF_vars(Look) /\ WF_vars(Order) /\ WF_vars(Reload)
    /\ WF_vars(Authority)

Spec == Init /\ [][Next]_vars /\ Fairness

-----------------------------------------------------------------------------

Renewed == \A h \in Hosts : ~IsDue(h) /\ used[h] = cert[h]

(* In the end every host is served with the certificate that is in its     *)
(* file, which is not about to expire, whatever orders failed, were given  *)
(* up or cut by the end of the process (create-acme-renewer.ts:38-56).     *)
CertificatesAreRenewed ==
    <>[]Renewed
=============================================================================
