------------------------------ MODULE Service ------------------------------
(***************************************************************************)
(* The service of the system that runs the server: it is added and removed *)
(* by commands that write a definition and call the service manager, one   *)
(* step after the other.  Any step may fail, a command may be interrupted  *)
(* between two steps, and the configuration that names the service may be  *)
(* another one the next time.  systemd and launchd are the environment.    *)
(***************************************************************************)
EXTENDS Integers, Sequences

CONSTANTS
    Configurations,  \* [name, serviceUser, logFolder, version] that the file may have
    Platforms,       \* "linux", "darwin" or another
    NoConfiguration, \* there is no file
    MaxCommands, MaxTroubles

VARIABLES
    platform,
    configuration,
    files,     \* the definition of a service, by scope and name
    known,     \* what the manager has loaded of it
    enabled,   \* systemd starts it with the system, or with the session
    runs,      \* what the process was started from
    command,   \* [does, scope, name, file, root] of the command under way
    todo,      \* its steps that are left
    before,    \* what was there when it began: [file, known, runs]
    outcome,   \* [ended, reason] of the last command
    commands,  \* number of commands
    troubles   \* number of failures, interruptions and other changes

vars == <<platform, configuration, files, known, enabled, runs, command, todo, before, outcome,
          commands, troubles>>
services == <<files, known, enabled, runs>>

Scopes == {"system", "user"}
Names == {c.name : c \in Configurations}
None == [version |-> 0, user |-> "", output |-> ""]
Nowhere == [scope \in Scopes |-> [name \in Names |-> None]]
NoCommand == [does |-> "nothing", scope |-> "system", name |-> CHOOSE name \in Names : TRUE,
              file |-> None, root |-> FALSE]

Init ==
    /\ platform \in Platforms
    /\ configuration \in Configurations
    /\ files = Nowhere /\ known = Nowhere /\ runs = Nowhere
    /\ enabled = [scope \in Scopes |-> [name \in Names |-> FALSE]]
    /\ command = NoCommand /\ todo = <<>>
    /\ before = [file |-> None, known |-> None, runs |-> None]
    /\ outcome = [ended |-> "nothing", reason |-> ""]
    /\ commands = 0 /\ troubles = 0

-----------------------------------------------------------------------------
(* What a command does                                                     *)

(* what the two kinds of definitions say                                   *)
SystemdUnit(c) == [version |-> c.version, user |-> c.serviceUser, output |-> "journal"]
LaunchdPlist(c) ==
    [version |-> c.version, user |-> c.serviceUser, output |-> IF c.logFolder THEN "file" ELSE "nowhere"]

(* getServiceFiles: the commands of each manager                           *)
ServiceFiles(does) ==
    CASE platform = "linux" /\ does = "add" -> <<"daemon-reload", "enable">>
      [] platform = "linux" /\ does = "remove" -> <<"disable", "rm", "daemon-reload">>
      [] platform = "darwin" /\ does = "add" -> <<"bootstrap">>
      [] platform = "darwin" /\ does = "remove" -> <<"bootout", "rm">>

InstallSteps(scope) ==
    (IF scope = "user" THEN <<"makeFolder">> ELSE <<>>) \o <<"write">> \o ServiceFiles("add")

(* Mutant: the definition is deleted first.                                *)
RemoveStepsFileFirst == <<"rm">> \o SelectSeq(ServiceFiles("remove"), LAMBDA step : step # "rm")

RemoveSteps == ServiceFiles("remove")

Ends(ended, reason) ==
    /\ outcome' = [ended |-> ended, reason |-> reason]
    /\ todo' = <<>> /\ command' = NoCommand

ResolveConfigurationPath == configuration # NoConfiguration
ValidateServiceName == configuration.name # "-"

(* createDefinition, and the platforms that getServiceFiles knows          *)
CreatesDefinition(scope) ==
    /\ ResolveConfigurationPath /\ ValidateServiceName
    /\ ~(scope = "user" /\ configuration.serviceUser # "")
    /\ platform \in {"linux", "darwin"}

(* manageService: --run is stronger than --add, which is stronger than     *)
(* --remove, and --user goes with one of the last two.                     *)
Manage(add, remove, run, user, root) ==
    LET scope == IF user THEN "user" ELSE "system" IN
    /\ todo = <<>> /\ commands < MaxCommands
    /\ commands' = commands + 1
    /\ IF ~add /\ ~remove /\ ~run
       THEN Ends("usage", "") /\ UNCHANGED before
       ELSE IF (user /\ ~add /\ ~remove) \/ (run /\ ~ResolveConfigurationPath)
       THEN Ends("failed", "arguments") /\ UNCHANGED before
       ELSE IF run THEN Ends("server", "") /\ UNCHANGED before
       ELSE IF ~CreatesDefinition(scope) THEN Ends("failed", "arguments") /\ UNCHANGED before
       ELSE LET name == configuration.name IN
            /\ command' = [does |-> IF add THEN "add" ELSE "remove", scope |-> scope, name |-> name,
                           file |-> IF platform = "linux" THEN SystemdUnit(configuration)
                                    ELSE LaunchdPlist(configuration),
                           root |-> root]
            /\ todo' = IF add THEN InstallSteps(scope) ELSE RemoveSteps
            /\ before' = [file |-> files[scope][name], known |-> known[scope][name],
                          runs |-> runs[scope][name]]
            /\ outcome' = [ended |-> "running", reason |-> ""]
    /\ UNCHANGED <<platform, configuration, services, troubles>>

-----------------------------------------------------------------------------
(* The steps: how the managers and the file system do them                 *)

At(state, value) == [state EXCEPT ![command.scope][command.name] = value]
File == files[command.scope][command.name]
Known == known[command.scope][command.name]
Runs == runs[command.scope][command.name]

(* a step does its thing, or it cannot                                     *)
Possible(step) ==
    CASE step \in {"enable", "disable", "rm"} -> File # None
      [] step = "bootstrap" -> File # None /\ Known = None
      [] step = "bootout" -> Known # None
      [] OTHER -> TRUE

Write == files' = At(files, command.file) /\ UNCHANGED <<known, enabled, runs>>
RemoveFile == files' = At(files, None) /\ UNCHANGED <<known, enabled, runs>>
Reloads == known' = [known EXCEPT ![command.scope] = files[command.scope]]
DaemonReload == Reloads /\ UNCHANGED <<files, enabled, runs>>
Enable ==
    /\ Reloads /\ enabled' = At(enabled, TRUE)
    /\ runs' = At(runs, IF Runs = None THEN File ELSE Runs)
    /\ UNCHANGED files
Disable ==
    /\ Reloads /\ enabled' = At(enabled, FALSE) /\ runs' = At(runs, None)
    /\ UNCHANGED files
Bootstrap == known' = At(known, File) /\ runs' = At(runs, File) /\ UNCHANGED <<files, enabled>>
Bootout == known' = At(known, None) /\ runs' = At(runs, None) /\ UNCHANGED <<files, enabled>>

Goes == Tail(todo) # <<>>

(* installService, removeService: the next step only when this one was     *)
(* done                                                                    *)
Step ==
    /\ todo # <<>>
    /\ command.scope = "system" => command.root
    /\ Possible(Head(todo))
    /\ CASE Head(todo) = "write" -> Write
         [] Head(todo) = "rm" -> RemoveFile
         [] Head(todo) = "daemon-reload" -> DaemonReload
         [] Head(todo) = "enable" -> Enable
         [] Head(todo) = "disable" -> Disable
         [] Head(todo) = "bootstrap" -> Bootstrap
         [] Head(todo) = "bootout" -> Bootout
         [] Head(todo) = "makeFolder" -> UNCHANGED services
    /\ IF Goes
       THEN todo' = Tail(todo) /\ UNCHANGED <<command, outcome>>
       ELSE /\ todo' = <<>> /\ UNCHANGED command
            /\ outcome' = [ended |-> IF command.does = "add" THEN "added" ELSE "removed", reason |-> ""]
    /\ UNCHANGED <<platform, configuration, before, commands, troubles>>

(* runCommand, explainPermissionError: what a step cannot do ends the      *)
(* command                                                                 *)
StepFails ==
    /\ todo # <<>>
    /\ ~Possible(Head(todo)) \/ (command.scope = "system" /\ ~command.root)
    /\ outcome' = [ended |-> "failed",
                   reason |-> IF command.scope = "system" /\ ~command.root THEN "root" ELSE "manager"]
    /\ todo' = <<>>
    /\ UNCHANGED <<platform, configuration, services, command, before, commands, troubles>>

(* any step may fail for a reason of its own, and the command be ended     *)
Trouble == troubles < MaxTroubles /\ troubles' = troubles + 1
Interrupted ==
    /\ todo # <<>> /\ Trouble
    /\ outcome' = [ended |-> "failed", reason |-> "trouble"]
    /\ todo' = <<>>
    /\ UNCHANGED <<platform, configuration, services, command, before, commands>>

-----------------------------------------------------------------------------
(* What happens besides                                                    *)

Edited ==
    /\ todo = <<>> /\ Trouble
    /\ configuration' \in (Configurations \cup {NoConfiguration}) \ {configuration}
    /\ outcome' = [ended |-> "nothing", reason |-> ""]
    /\ UNCHANGED <<platform, services, command, todo, before, commands>>

(* a process that failed is started again from what the manager knows      *)
Restarted(scope, name) ==
    /\ todo = <<>> /\ runs[scope][name] \notin {None, known[scope][name]}
    /\ runs' = [runs EXCEPT ![scope][name] = known[scope][name]]
    /\ UNCHANGED <<platform, configuration, files, known, enabled, command, todo, before, outcome,
                   commands, troubles>>

(* the system is started again, and the user has a session again; launchd  *)
(* loads every definition in its folders                                   *)
Booted ==
    /\ Trouble
    /\ known' = files
    /\ runs' = [scope \in Scopes |-> [name \in Names |->
                  IF platform = "linux" /\ ~enabled[scope][name] THEN None ELSE files[scope][name]]]
    /\ outcome' = [ended |-> "nothing", reason |-> ""] /\ todo' = <<>> /\ command' = NoCommand
    /\ UNCHANGED <<platform, configuration, files, enabled, before, commands>>

Next ==
    \/ \E add, remove, run, user, root \in BOOLEAN : Manage(add, remove, run, user, root)
    \/ Step \/ StepFails \/ Interrupted \/ Edited \/ Booted
    \/ \E scope \in Scopes, name \in Names : Restarted(scope, name)

Spec == Init /\ [][Next]_vars

-----------------------------------------------------------------------------
(* What runs, or will be started, has its definition, so that a remove     *)
(* finds it, whatever failed or was interrupted before.  An add that ended *)
(* well leaves a service that starts and runs; of the definition that was  *)
(* written, unless systemd had it running already ("Installs, enables and  *)
(* starts the service", node-webserver-service/README.md:24): enable does  *)
(* not start it again.  After a remove nothing of it is left.  A command   *)
(* that fails for no reason from outside has found nothing that it could   *)
(* work on: to be removed by systemd a service only needs its definition,  *)
(* but launchd has to have loaded it, and to add it, must not have.        *)
ServiceIsFound ==
    /\ \A scope \in Scopes, name \in Names :
        runs[scope][name] # None \/ enabled[scope][name] => files[scope][name] # None
    /\ outcome.ended = "added" =>
        /\ File = command.file /\ Known = File
        /\ platform = "linux" => enabled[command.scope][command.name]
        /\ Runs = File \/ (platform = "linux" /\ before.runs # None /\ Runs = before.runs)
    /\ outcome.ended = "removed" =>
        File = None /\ Known = None /\ Runs = None /\ ~enabled[command.scope][command.name]
    /\ outcome = [ended |-> "failed", reason |-> "manager"] =>
        IF platform = "linux" THEN command.does = "remove" /\ before.file = None
        ELSE (command.does = "remove") = (before.known = None)
=============================================================================
