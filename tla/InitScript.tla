----------------------------- MODULE InitScript -----------------------------
(***************************************************************************)
(* scripts/rc.target and rc.target.suse: start, stop and restart of the    *)
(* target, which load target_core_mod, run the start scripts saved under   *)
(* /etc/target, and take everything down again.                            *)
(*                                                                         *)
(* A start script may take the machine down.  The fault file under         *)
(* /var/crash is made before they are run and removed after, so that it is *)
(* there after such a crash and the next start stops at it.  What is on    *)
(* disk when the machine dies is what was written back by then: sema is    *)
(* what programs see, semaDisk what survives.                              *)
(*                                                                         *)
(* A step is one command of the script.  ret # 0 of a start script is only *)
(* printed, so a script that fails configures something or nothing.        *)
(***************************************************************************)
EXTENDS FiniteSets

CONSTANTS
    Sh,      \* concurrent invocations of the init script
    Fabric,  \* fabrics with a start script of their own
    Used,    \* the commands that are run
    Suse     \* which of the two scripts: a set of Booleans, one is chosen

Part   == {"tcm", "lio"} \cup Fabric
Script == Part \X {"start", "backup"}

Commands == {"start", "startbak", "stop", "restart"}

ASSUME UsedCommands == Used \subseteq Commands
ASSUME OneVariant == Suse \subseteq BOOLEAN /\ Suse # {}
ASSUME FabricNames == Fabric \cap {"tcm", "lio"} = {}

VARIABLES
    suse,            \* rc.target.suse is installed
    files,           \* start scripts, and the backups of the DATE_TIME given to startbak
    deadly,          \* the scripts that take the machine down
    core,            \* target_core_mod is loaded, its directory there
    conf,            \* what is configured
    lock,            \* /var/lock/subsys/target
    sema, semaDisk,  \* /var/crash/target.fault
    fatal,           \* an observation only: "yes" once a start died in a script, "stopped" if
                     \* stop was called since, "no" again when the file is removed or a
                     \* script is changed
    sh               \* the invocations

fixed   == <<suse, files, deadly>>
machine == <<core, conf, lock, sema, semaDisk, fatal>>
vars    == <<fixed, machine, sh>>

Stages == {"idle", "ok", "err", "checkCore", "checkSema", "writeSema", "sync", "checkLock",
           "load", "abort", "tcm", "lio", "ls", "fabrics", "rmSema",
           "stop", "unloadFabrics", "unloadLio", "unloadCore", "rmLock"}

Idle == [cmd |-> "none", pc |-> "idle", left |-> {}]
ShState == [cmd : Commands \cup {"none"}, pc : Stages, left : SUBSET Fabric]

At(c, pc) == sh[c].pc = pc
Goto(c, pc) == sh' = [sh EXCEPT ![c].pc = pc]

\* The file that is run for a part; the start scripts are looked for in any case.
FileOf(c, part) == <<part, IF sh[c].cmd = "startbak" THEN "backup" ELSE "start">>

-----------------------------------------------------------------------------
(* start *)

StartCommand(c) == \E cmd \in Used :
    /\ At(c, "idle")
    /\ cmd = "startbak" => ~suse
    /\ sh' = [sh EXCEPT ![c] = [cmd |-> cmd, left |-> {},
                pc |-> IF cmd \in {"stop", "restart"} THEN "stop" ELSE "checkCore"]]
    /\ UNCHANGED <<fixed, machine>>

\* Wrong variant: the lsmod test decides, which never finds the module.
CheckNothing(c) ==
    /\ At(c, "checkCore")
    /\ lock' = FALSE
    /\ Goto(c, "checkSema")
    /\ UNCHANGED <<fixed, core, conf, sema, semaDisk, fatal>>

\* The lsmod test below never holds ("x " is never "x"), so a lock file is always removed.
CheckCore(c) ==
    /\ At(c, "checkCore")
    /\ lock' = (lock /\ core)
    /\ Goto(c, IF ~core THEN "checkSema" ELSE IF suse THEN "ok" ELSE "err")
    /\ UNCHANGED <<fixed, core, conf, sema, semaDisk, fatal>>

\* Wrong variant: the fault file of an earlier start is overwritten.
CheckNoSema(c) ==
    /\ At(c, "checkSema")
    /\ Goto(c, "writeSema")
    /\ UNCHANGED <<fixed, machine>>

CheckSema(c) ==
    /\ At(c, "checkSema")
    /\ Goto(c, IF sema THEN "err" ELSE "writeSema")
    /\ UNCHANGED <<fixed, machine>>

\* rc.target.suse does not sync.
WriteSema(c) ==
    /\ At(c, "writeSema")
    /\ sema' = TRUE
    /\ Goto(c, IF suse THEN "checkLock" ELSE "sync")
    /\ UNCHANGED <<fixed, core, conf, lock, semaDisk, fatal>>

\* Wrong variant: the file is not written back before the scripts are run.
NoSync(c) ==
    /\ At(c, "sync")
    /\ Goto(c, "checkLock")
    /\ UNCHANGED <<fixed, machine>>

Sync(c) ==
    /\ At(c, "sync")
    /\ semaDisk' = sema
    /\ Goto(c, "checkLock")
    /\ UNCHANGED <<fixed, core, conf, lock, sema, fatal>>

CheckLock(c) ==
    /\ At(c, "checkLock")
    /\ Goto(c, IF lock THEN "abort" ELSE "load")
    /\ UNCHANGED <<fixed, machine>>

Abort(c) ==
    /\ At(c, "abort")
    /\ sema' = FALSE
    /\ Goto(c, "err")
    /\ UNCHANGED <<fixed, core, conf, lock, semaDisk, fatal>>

LoadCore(c) ==
    /\ At(c, "load")
    /\ core' = TRUE
    /\ Goto(c, "tcm")
    /\ UNCHANGED <<fixed, conf, lock, sema, semaDisk, fatal>>

\* No configfs, or no module.
LoadCoreFails(c) ==
    /\ At(c, "load") /\ ~suse
    /\ Goto(c, "abort")
    /\ UNCHANGED <<fixed, machine>>

\* rc.target.suse ends where configfs cannot be mounted, and does not look at modprobe.
LoadCoreFailsSuse(c) ==
    /\ At(c, "load") /\ suse
    /\ \E next \in {"err", "tcm"} : Goto(c, next)
    /\ UNCHANGED <<fixed, machine>>

-----------------------------------------------------------------------------
(* The start scripts *)

\* What is still to be run.
Pending(c) ==
    CASE At(c, "tcm")     -> Part
      [] At(c, "lio")     -> Part \ {"tcm"}
      [] At(c, "ls")      -> Fabric
      [] At(c, "fabrics") -> sh[c].left
      [] OTHER            -> {}

\* A script configures its part, or fails.
Configure(part) ==
    \/ conf' = conf \cup {part} /\ core' = TRUE
    \/ UNCHANGED <<conf, core>>

RunScript(c, part, next) ==
    /\ FileOf(c, part) \in files \ deadly
    /\ Configure(part)
    /\ sh' = [sh EXCEPT ![c].pc = next, ![c].left = @ \ {part}]
    /\ UNCHANGED <<fixed, lock, sema, semaDisk, fatal>>

RunTcmScript(c) == At(c, "tcm") /\ <<"tcm", "start">> \in files /\ RunScript(c, "tcm", "lio")
RunLioScript(c) == At(c, "lio") /\ <<"lio", "start">> \in files /\ RunScript(c, "lio", "ls")

\* rc.target exits on a script that is not there and leaves the fault file.
ScriptMissing(c) ==
    /\ ~suse
    /\ \E part \in {"tcm", "lio"} :
         At(c, part) /\ ~({<<part, "start">>, FileOf(c, part)} \subseteq files)
    /\ Goto(c, "err")
    /\ UNCHANGED <<fixed, machine>>

\* rc.target.suse skips it.
ScriptMissingSuse(c) ==
    /\ suse
    /\ \/ At(c, "tcm") /\ <<"tcm", "start">> \notin files /\ Goto(c, "lio")
       \/ At(c, "lio") /\ <<"lio", "start">> \notin files /\ Goto(c, "ls")
    /\ UNCHANGED <<fixed, machine>>

\* Wrong variant: tcm_start.sh and lio_start.sh are not left out.
ListAllScripts(c) ==
    /\ At(c, "ls")
    /\ sh' = [sh EXCEPT ![c].pc = "fabrics",
                        ![c].left = {f \in Part : <<f, "start">> \in files}]
    /\ UNCHANGED <<fixed, machine>>

ListScripts(c) ==
    /\ At(c, "ls")
    /\ sh' = [sh EXCEPT ![c].pc = "fabrics",
                        ![c].left = {f \in Fabric : <<f, "start">> \in files}]
    /\ UNCHANGED <<fixed, machine>>

RunFabricScript(c) ==
    At(c, "fabrics") /\ \E f \in sh[c].left : <<f, "start">> \in files /\ RunScript(c, f, "fabrics")

\* startbak exits on a missing backup; a script that is gone is passed over.
FabricScriptMissing(c) ==
    /\ At(c, "fabrics")
    /\ \E f \in sh[c].left :
         /\ ~({<<f, "start">>, FileOf(c, f)} \subseteq files)
         /\ sh' = [sh EXCEPT ![c].pc = IF <<f, "start">> \in files THEN "err" ELSE "fabrics",
                             ![c].left = @ \ {f}]
    /\ UNCHANGED <<fixed, machine>>

Touch(c) ==
    /\ At(c, "fabrics") /\ sh[c].left = {}
    /\ lock' = TRUE
    /\ Goto(c, "rmSema")
    /\ UNCHANGED <<fixed, core, conf, sema, semaDisk, fatal>>

RemoveSema(c) ==
    /\ At(c, "rmSema")
    /\ sema' = FALSE
    /\ Goto(c, "ok")
    /\ UNCHANGED <<fixed, core, conf, lock, semaDisk, fatal>>

-----------------------------------------------------------------------------
(* stop *)

\* restart goes on with start whatever stop returned.
Return(c, pc) == Goto(c, IF sh[c].cmd = "restart" THEN "checkCore" ELSE pc)

Stop(c) ==
    /\ At(c, "stop")
    /\ sema' = FALSE
    /\ fatal' = IF fatal = "yes" THEN "stopped" ELSE fatal
    /\ IF suse /\ ~core THEN Return(c, "ok") ELSE Goto(c, "unloadFabrics")
    /\ UNCHANGED <<fixed, core, conf, lock, semaDisk>>

\* tcm_fabric --unloadall prints what it cannot remove and goes on.
ShutdownFabrics(c) ==
    /\ At(c, "unloadFabrics")
    /\ \E S \in SUBSET (conf \cap Fabric) : conf' = conf \ S
    /\ Goto(c, "unloadLio")
    /\ UNCHANGED <<fixed, core, lock, sema, semaDisk, fatal>>

ShutdownLioMod(c) ==
    /\ At(c, "unloadLio")
    /\ \E S \in SUBSET (conf \cap {"lio"}) : conf' = conf \ S
    /\ Goto(c, "unloadCore")
    /\ UNCHANGED <<fixed, core, lock, sema, semaDisk, fatal>>

\* tcm_node --unload is refused while a fabric links to a storage object.
UnloadTcmMod(c) ==
    /\ At(c, "unloadCore")
    /\ core /\ conf \subseteq {"tcm"}
    /\ core' = FALSE /\ conf' = {}
    /\ Goto(c, "rmLock")
    /\ UNCHANGED <<fixed, lock, sema, semaDisk, fatal>>

\* tcm_node may take the storage objects away and still be left with the module.
CoreStays == UNCHANGED conf \/ (conf \subseteq {"tcm"} /\ conf' = {})

\* Wrong variant: what tcm_node returned is not looked at.
UnloadTcmModIgnored(c) ==
    /\ At(c, "unloadCore")
    /\ CoreStays
    /\ Goto(c, "rmLock")
    /\ UNCHANGED <<fixed, core, lock, sema, semaDisk, fatal>>

UnloadTcmModFails(c) ==
    /\ At(c, "unloadCore")
    /\ CoreStays
    /\ Return(c, "err")
    /\ UNCHANGED <<fixed, core, lock, sema, semaDisk, fatal>>

RemoveLock(c) ==
    /\ At(c, "rmLock")
    /\ lock' = FALSE
    /\ Return(c, "ok")
    /\ UNCHANGED <<fixed, core, conf, sema, semaDisk, fatal>>

-----------------------------------------------------------------------------
(* The end of an invocation, the machine and its operator *)

Exit(c) ==
    /\ sh[c].pc \in {"ok", "err"}
    /\ sh' = [sh EXCEPT ![c] = Idle]
    /\ UNCHANGED <<fixed, machine>>

Killed(c) ==
    /\ sh[c].pc \notin {"idle", "ok", "err"}
    /\ sh' = [sh EXCEPT ![c] = Idle]
    /\ UNCHANGED <<fixed, machine>>

\* /var/lock may or may not survive.
GoDown ==
    /\ core' = FALSE /\ conf' = {}
    /\ lock' \in {lock, FALSE}
    /\ sema' = semaDisk
    /\ sh' = [c \in Sh |-> Idle]
    /\ UNCHANGED <<fixed, semaDisk>>

\* A script takes the machine down, or somebody does.
Panic(c) ==
    /\ \E part \in Pending(c) :
         /\ At(c, part) \/ (part \in Fabric /\ At(c, "fabrics"))
         /\ <<part, "start">> \in files /\ FileOf(c, part) \in files \cap deadly
    /\ fatal' = "yes"
    /\ GoDown

Reboot == GoDown /\ UNCHANGED fatal

\* The file system writes back what is in its caches.
WriteBack ==
    /\ semaDisk' = sema
    /\ UNCHANGED <<fixed, core, conf, lock, sema, fatal, sh>>

\* "You must remove /var/crash/target.fault before attempting to start again."
OperatorRemovesFault ==
    /\ sema /\ \A c \in Sh : At(c, "idle")
    /\ sema' = FALSE /\ semaDisk' = FALSE /\ fatal' = "no"
    /\ UNCHANGED <<fixed, core, conf, lock, sh>>

\* tcm_dump, the package manager or an editor changes a script.
ScriptsChange ==
    /\ \E x \in Script :
         \/ files' = files \ {x} /\ deadly' = deadly \ {x}
         \/ files' = files \cup {x} /\ deadly' = deadly \ {x}
         \/ files' = files \cup {x} /\ deadly' = deadly \cup {x}
    /\ fatal' = "no"
    /\ UNCHANGED <<suse, core, conf, lock, sema, semaDisk, sh>>

StartSteps(c) ==
    \/ CheckCore(c) \/ CheckSema(c) \/ WriteSema(c) \/ Sync(c) \/ CheckLock(c) \/ Abort(c)
    \/ LoadCore(c) \/ LoadCoreFails(c) \/ LoadCoreFailsSuse(c)
    \/ RunTcmScript(c) \/ RunLioScript(c) \/ ScriptMissing(c) \/ ScriptMissingSuse(c)
    \/ ListScripts(c) \/ RunFabricScript(c) \/ FabricScriptMissing(c) \/ Touch(c)
    \/ RemoveSema(c) \/ Panic(c)

StopSteps(c) ==
    \/ Stop(c) \/ ShutdownFabrics(c) \/ ShutdownLioMod(c) \/ UnloadTcmMod(c)
    \/ UnloadTcmModFails(c) \/ RemoveLock(c)

Init ==
    /\ suse \in Suse
    /\ files \in SUBSET Script /\ deadly \in SUBSET files
    /\ core = FALSE /\ conf = {} /\ lock = FALSE
    /\ sema = FALSE /\ semaDisk = FALSE /\ fatal = "no"
    /\ sh = [c \in Sh |-> Idle]

Next ==
    \/ \E c \in Sh : \/ StartCommand(c) \/ StartSteps(c) \/ StopSteps(c)
                     \/ Exit(c) \/ Killed(c)
    \/ Reboot \/ WriteBack \/ OperatorRemovesFault \/ ScriptsChange

Spec == Init /\ [][Next]_vars

-----------------------------------------------------------------------------
(* Types *)

\* Every variable holds the files, modules and stages it is meant to.
TypeOK ==
    /\ suse \in BOOLEAN /\ files \subseteq Script /\ deadly \subseteq files
    /\ core \in BOOLEAN /\ conf \subseteq Part /\ lock \in BOOLEAN
    /\ sema \in BOOLEAN /\ semaDisk \in BOOLEAN /\ fatal \in {"no", "yes", "stopped"}
    /\ sh \in [Sh -> ShState]

(* What the scripts are relied on for, one invocation at a time *)

\* "Put message in semaphore file to aid in troubleshooting should the file still exist
\* during a subsequent boot": whenever a script may take the machine down, the fault file is
\* there, and with rc.target it has reached the disk.
FaultFileGuardsScripts ==
    \A c \in Sh : Pending(c) # {} => sema /\ (suse \/ semaDisk)

\* The start scripts make, they do not update: none is run over what it has configured
\* before, also after stops and starts that failed or died half-way.
ScriptsRunOnce == \A c \in Sh : Pending(c) \cap conf = {}

\* A stop that reports success has taken everything down.
StoppedIsClean ==
    \A c \in Sh : At(c, "ok") /\ sh[c].cmd = "stop" => ~core /\ conf = {} /\ ~sema

\* "Prevent multiple driver panics from hanging system ... You must remove
\* /var/crash/target.fault before attempting to start again": the scripts that took the
\* machine down are not run again before the file was removed or the scripts were changed.
\* stop removes the file, and restart stops first.
FatalNotRepeated == fatal # "no" => \A c \in Sh : Pending(c) = {}

\* The same while nobody calls stop: what died is not started again, by any number of starts,
\* reboots and kills.  rc.target.suse does not write the file back and promises less.
StartIsRefused == fatal = "yes" /\ ~suse => \A c \in Sh : Pending(c) = {}

=============================================================================
