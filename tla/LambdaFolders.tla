--------------------------- MODULE LambdaFolders ---------------------------
(***************************************************************************)
(* The folders of the lambda processes in the temporary folder, which all  *)
(* servers of a machine share: each process of a lambda has one, named     *)
(* after its server, that goes when the process or its server ends; a      *)
(* server that was killed leaves them for the next one to sweep.           *)
(***************************************************************************)
EXTENDS Naturals, FiniteSets

CONSTANTS
    Pids,       \* process ids that servers get, the ones of dead servers too
    Folders     \* bound: the random part of the names of the folders

VARIABLES
    running,    \* the servers
    disk,       \* folders that are there, as <<pid, name>>
    lambdas,    \* the folders of the lambda processes that run
    tracked,    \* folders: of each server, what it removes when it exits
    hooked,     \* whether it has an exit listener
    removing,   \* folders whose removal is under way
    left        \* the ones whose server had no time for them

vars == <<running, disk, lambdas, tracked, hooked, removing, left>>

Init ==
    /\ running = {} /\ disk = {} /\ lambdas = {} /\ removing = {} /\ left = {}
    /\ tracked = [p \in Pids |-> {}] /\ hooked = [p \in Pids |-> FALSE]

Of(p, folders) == {f \in folders : f[1] = p}

Boot(p) ==
    /\ p \notin running
    /\ running' = running \cup {p}
    /\ tracked' = [tracked EXCEPT ![p] = {}] /\ hooked' = [hooked EXCEPT ![p] = FALSE]
    /\ UNCHANGED <<disk, lambdas, removing, left>>

(* any server but this one counts as gone                                  *)
SweepUnchecked(p) ==
    /\ p \in running
    /\ disk' = Of(p, disk)
    /\ UNCHANGED <<running, lambdas, tracked, hooked, removing, left>>

(* sweepLambdaFolders, whenever a lambda middleware is made                *)
Sweep(p) ==
    /\ p \in running
    /\ disk' = {f \in disk : f[1] = p \/ f[1] \in running}
    /\ UNCHANGED <<running, lambdas, tracked, hooked, removing, left>>

(* createLambdaFolder and trackLambdaFolder, then the process is spawned   *)
StartLambda(p) ==
    \E name \in Folders :
        /\ p \in running /\ <<p, name>> \notin disk \cup lambdas \cup removing \cup left
        /\ disk' = disk \cup {<<p, name>>} /\ lambdas' = lambdas \cup {<<p, name>>}
        /\ hooked' = [hooked EXCEPT ![p] = @ \/ tracked[p] = {}]
        /\ tracked' = [tracked EXCEPT ![p] = @ \cup {<<p, name>>}]
        /\ UNCHANGED <<running, removing, left>>

(* the close of the process: its folder is removed in the background       *)
CloseLambda(f) ==
    /\ f \in lambdas /\ f[1] \in running /\ f \in tracked[f[1]]
    /\ lambdas' = lambdas \ {f}
    /\ tracked' = [tracked EXCEPT ![f[1]] = @ \ {f}]
    /\ hooked' = [hooked EXCEPT ![f[1]] = @ /\ tracked[f[1]] # {f}]
    /\ removing' = removing \cup {f}
    /\ UNCHANGED <<running, disk, left>>

Removed(f) ==
    /\ f \in removing
    /\ removing' = removing \ {f} /\ disk' = disk \ {f}
    /\ UNCHANGED <<running, lambdas, tracked, hooked, left>>

(* the process of the server exits: its listener removes what is tracked   *)
ExitServer(p) ==
    /\ p \in running
    /\ running' = running \ {p}
    /\ disk' = disk \ (IF hooked[p] THEN tracked[p] ELSE {})
    /\ left' = left \cup (Of(p, removing) \cap disk) /\ removing' = removing \ Of(p, removing)
    /\ tracked' = [tracked EXCEPT ![p] = {}] /\ hooked' = [hooked EXCEPT ![p] = FALSE]
    /\ UNCHANGED lambdas

(* it is killed, or ends by a signal without exit listeners                *)
KillServer(p) ==
    /\ p \in running
    /\ running' = running \ {p}
    /\ left' = left \cup ((tracked[p] \cup Of(p, removing)) \cap disk)
    /\ removing' = removing \ Of(p, removing)
    /\ tracked' = [tracked EXCEPT ![p] = {}] /\ hooked' = [hooked EXCEPT ![p] = FALSE]
    /\ UNCHANGED <<disk, lambdas>>

(* a lambda whose server is gone ends as its channel closed                *)
Orphaned(f) ==
    /\ f \in lambdas /\ (f[1] \notin running \/ f \notin tracked[f[1]])
    /\ lambdas' = lambdas \ {f}
    /\ UNCHANGED <<running, disk, tracked, hooked, removing, left>>

Next ==
    \/ \E p \in Pids : Boot(p) \/ Sweep(p) \/ StartLambda(p) \/ ExitServer(p) \/ KillServer(p)
    \/ \E f \in Pids \X Folders : CloseLambda(f) \/ Removed(f) \/ Orphaned(f)

Spec == Init /\ [][Next]_vars

-----------------------------------------------------------------------------

(* A lambda of a running server has its folder, whatever other servers     *)
(* sweep (sweep-lambda-folders.ts:16 "never the ones of a server that is   *)
(* still running"), although their process ids come again; and what is on  *)
(* the disk is in use, is being removed or was left by a server that had   *)
(* no time to remove it (track-lambda-folder.ts:9).                        *)
FoldersAreKept ==
    /\ \A p \in running : tracked[p] \subseteq lambdas \cap disk
    /\ disk \subseteq (UNION {tracked[p] : p \in running}) \cup removing \cup left
=============================================================================
