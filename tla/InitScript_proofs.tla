-------------------------- MODULE InitScript_proofs --------------------------
(* Theorems about InitScript.  What the scripts are relied on for holds when they are run one *)
(* at a time: two invocations take the fault file away from each other. *)
EXTENDS InitScript, TLAPS

OneInvocation == \A a, b \in Sh : a = b

\* The stages at which the fault file is there, and those at which it was written back.
Guarded == {"sync", "checkLock", "abort", "load", "tcm", "lio", "ls", "fabrics", "rmSema"}
OnDisk  == Guarded \ {"sync"}

\* The fault file is made before anything is loaded.
FaultFileMade ==
    \A c \in Sh : /\ sh[c].pc \in Guarded => sema
                  /\ sh[c].pc \in OnDisk => suse \/ semaDisk

\* Nothing is configured without the module, and a start begins without it.
StartsFromNothing ==
    /\ ~core => conf = {}
    /\ \A c \in Sh : sh[c].pc \in {"checkSema", "writeSema", "sync", "checkLock", "load"} => ~core

\* After a script took the machine down the file stays, and no start goes past it.
FatalBlocks ==
    fatal = "yes" /\ ~suse =>
        sema /\ semaDisk /\ \A c \in Sh : sh[c].pc \notin Guarded \cup {"writeSema"}

\* A stop is never in a start, and works without the file and towards nothing.
StopMakesClean ==
    \A c \in Sh :
      /\ sh[c].pc \in Guarded \cup {"checkCore", "checkSema", "writeSema"} => sh[c].cmd # "stop"
      /\ sh[c].pc \in {"unloadFabrics", "unloadLio", "unloadCore", "rmLock"} => ~sema
      /\ sh[c].pc = "rmLock" => ~core /\ conf = {}

IInv == /\ TypeOK /\ FaultFileMade /\ StartsFromNothing /\ FatalBlocks /\ StopMakesClean
        /\ ScriptsRunOnce /\ StoppedIsClean

-----------------------------------------------------------------------------
(* Types *)

\* Going on to another stage keeps the processes well-formed.
LEMMA GotoType ==
    ASSUME TypeOK, NEW c \in Sh, NEW pc \in Stages, Goto(c, pc)
    PROVE  /\ sh' \in [Sh -> ShState]
           /\ sh'[c] = [sh[c] EXCEPT !.pc = pc]
BY DEF TypeOK, Goto, ShState

\* So does a script, ...
LEMMA RunScriptType ==
    ASSUME TypeOK, NEW c \in Sh, NEW part \in Part, NEW next \in Stages, RunScript(c, part, next)
    PROVE  TypeOK'
<1> DEFINE left == sh[c].left \ {part}
<1>1. left \subseteq Fabric /\ sh' = [sh EXCEPT ![c].pc = next, ![c].left = left]
  BY DEF TypeOK, ShState, RunScript
<1>2. sh' \in [Sh -> ShState]
  <2>. HIDE DEF left
  <2>. QED BY <1>1 DEF TypeOK, ShState
<1>3. conf' \subseteq Part /\ core' \in BOOLEAN
  BY DEF RunScript, Configure, TypeOK
<1>. QED BY <1>2, <1>3 DEF TypeOK, RunScript, fixed

\* ... the passing over of one, ...
LEMMA FabricScriptMissingType ==
    ASSUME TypeOK, NEW c \in Sh, FabricScriptMissing(c)
    PROVE  TypeOK'
<1>1. PICK f \in sh[c].left :
        sh' = [sh EXCEPT ![c].pc = IF <<f, "start">> \in files THEN "err" ELSE "fabrics",
                         ![c].left = @ \ {f}]
  BY DEF FabricScriptMissing
<1> DEFINE pc   == IF <<f, "start">> \in files THEN "err" ELSE "fabrics"
           left == sh[c].left \ {f}
<1>2. /\ pc \in Stages /\ left \subseteq Fabric
      /\ sh' = [sh EXCEPT ![c].pc = pc, ![c].left = left]
  BY <1>1 DEF TypeOK, ShState, Stages
<1>3. sh' \in [Sh -> ShState]
  <2>. HIDE DEF pc, left
  <2>. QED BY <1>2 DEF TypeOK, ShState
<1>. QED BY <1>3 DEF TypeOK, FabricScriptMissing, fixed, machine

\* ... and every other step of an invocation and of the machine.
LEMMA StepType == TypeOK /\ [Next]_vars => TypeOK'
<1>. SUFFICES ASSUME TypeOK, [Next]_vars PROVE TypeOK'
  OBVIOUS
<1>. USE DEF TypeOK, fixed, machine, Stages
<1>1. ASSUME NEW c \in Sh, StartSteps(c) PROVE TypeOK'
  <2>1. CASE CheckCore(c)
    BY <2>1, GotoType DEF CheckCore
  <2>2. CASE CheckSema(c)
    BY <2>2, GotoType DEF CheckSema
  <2>3. CASE WriteSema(c)
    BY <2>3, GotoType DEF WriteSema
  <2>4. CASE Sync(c)
    BY <2>4, GotoType DEF Sync
  <2>5. CASE CheckLock(c)
    BY <2>5, GotoType DEF CheckLock
  <2>6. CASE Abort(c)
    BY <2>6, GotoType DEF Abort
  <2>7. CASE LoadCore(c)
    BY <2>7, GotoType DEF LoadCore
  <2>8. CASE LoadCoreFails(c)
    BY <2>8, GotoType DEF LoadCoreFails
  <2>9. CASE LoadCoreFailsSuse(c)
    BY <2>9, GotoType DEF LoadCoreFailsSuse
  <2>10. CASE RunTcmScript(c)
    BY <2>10, RunScriptType DEF RunTcmScript, Part
  <2>11. CASE RunLioScript(c)
    BY <2>11, RunScriptType DEF RunLioScript, Part
  <2>12. CASE ScriptMissing(c)
    BY <2>12, GotoType DEF ScriptMissing
  <2>13. CASE ScriptMissingSuse(c)
    BY <2>13, GotoType DEF ScriptMissingSuse
  <2>14. CASE ListScripts(c)
    BY ZenonT(60), <2>14, GotoType DEF ListScripts, ShState
  <2>15. CASE RunFabricScript(c)
    BY <2>15, RunScriptType DEF RunFabricScript, Part, ShState
  <2>16. CASE FabricScriptMissing(c)
    BY <2>16, FabricScriptMissingType
  <2>17. CASE Touch(c)
    BY <2>17, GotoType DEF Touch
  <2>18. CASE RemoveSema(c)
    BY <2>18, GotoType DEF RemoveSema
  <2>19. CASE Panic(c)
    BY <2>19, GotoType DEF Panic, GoDown, Idle, ShState
  <2>. QED BY <1>1, <2>1, <2>2, <2>3, <2>4, <2>5, <2>6, <2>7, <2>8, <2>9, <2>10, <2>11, <2>12,
     <2>13, <2>14, <2>15, <2>16, <2>17, <2>18, <2>19 DEF StartSteps
<1>2. ASSUME NEW c \in Sh, StopSteps(c) PROVE TypeOK'
  <2>1. CASE Stop(c)
    BY <2>1, GotoType DEF Stop, Return
  <2>2. CASE ShutdownFabrics(c)
    BY <2>2, GotoType DEF ShutdownFabrics
  <2>3. CASE ShutdownLioMod(c)
    BY <2>3, GotoType DEF ShutdownLioMod
  <2>4. CASE UnloadTcmMod(c)
    BY <2>4, GotoType DEF UnloadTcmMod
  <2>5. CASE UnloadTcmModFails(c)
    BY <2>5, GotoType DEF UnloadTcmModFails, Return, CoreStays
  <2>6. CASE RemoveLock(c)
    BY <2>6, GotoType DEF RemoveLock, Return
  <2>. QED BY <1>2, <2>1, <2>2, <2>3, <2>4, <2>5, <2>6 DEF StopSteps
<1>3. ASSUME NEW c \in Sh, StartCommand(c) \/ Exit(c) \/ Killed(c) PROVE TypeOK'
  BY <1>3, UsedCommands DEF StartCommand, Exit, Killed, Idle, ShState, Commands
<1>4. CASE Reboot
  BY <1>4 DEF Reboot, GoDown, Idle, ShState
<1>5. CASE WriteBack \/ OperatorRemovesFault
  BY <1>5 DEF WriteBack, OperatorRemovesFault
<1>6. CASE ScriptsChange
  BY <1>6 DEF ScriptsChange
<1>7. CASE UNCHANGED vars
  BY <1>7 DEF vars
<1>. QED BY <1>1, <1>2, <1>3, <1>4, <1>5, <1>6, <1>7 DEF Next

\* The first states are well-formed.
LEMMA InitType == Init => TypeOK
<1>. SUFFICES ASSUME Init PROVE TypeOK
  OBVIOUS
<1>1. suse \in BOOLEAN
  BY OneVariant, Zenon DEF Init
<1>. QED BY <1>1 DEF Init, TypeOK, Idle, ShState, Stages

\* Every variable holds what it is meant to, for any number of invocations.
THEOREM TypeCorrect == Spec => []TypeOK
BY InitType, StepType, PTL DEF Spec

-----------------------------------------------------------------------------
(* One invocation at a time *)

\* Scripts are left to be run at four stages only.
LEMMA PendingGuarded ==
    ASSUME NEW c \in Sh, Pending(c) # {}
    PROVE  sh[c].pc \in {"tcm", "lio", "ls", "fabrics"}
BY DEF Pending, At

\* The fault file is made before and taken away after the scripts.
LEMMA StepFaultFile ==
    ASSUME OneInvocation, TypeOK, FaultFileMade, [Next]_vars
    PROVE  FaultFileMade'
<1>. USE DEF FaultFileMade, Guarded, OnDisk, fixed, machine, At, Goto, Idle, ShState
<1>a. sema \in BOOLEAN /\ semaDisk \in BOOLEAN /\ suse \in BOOLEAN /\ sh \in [Sh -> ShState]
  BY DEF TypeOK
<1>1. ASSUME NEW c \in Sh, StartSteps(c) PROVE FaultFileMade'
  <2>a. \A x \in Sh : x = c
    BY DEF OneInvocation
  <2>1. CASE CheckCore(c) \/ CheckSema(c) \/ WriteSema(c) \/ Sync(c) \/ CheckLock(c)
    BY <1>a, <2>a, <2>1 DEF CheckCore, CheckSema, WriteSema, Sync, CheckLock
  <2>2. CASE Abort(c) \/ LoadCore(c) \/ LoadCoreFails(c) \/ LoadCoreFailsSuse(c)
    BY <1>a, <2>a, <2>2 DEF Abort, LoadCore, LoadCoreFails, LoadCoreFailsSuse
  <2>3. CASE RunTcmScript(c) \/ RunLioScript(c)
    BY <1>a, <2>a, <2>3 DEF RunTcmScript, RunScript, Configure, RunLioScript
  <2>4. CASE ScriptMissing(c) \/ ScriptMissingSuse(c)
    BY <1>a, <2>a, <2>4 DEF ScriptMissing, ScriptMissingSuse
  <2>5. CASE ListScripts(c)
    BY <1>a, <2>a, <2>5 DEF ListScripts
  <2>6. CASE RunFabricScript(c)
    BY <1>a, <2>a, <2>6 DEF RunFabricScript, RunScript, Configure
  <2>7. CASE FabricScriptMissing(c)
    BY <1>a, <2>a, <2>7 DEF FabricScriptMissing
  <2>8. CASE Touch(c) \/ RemoveSema(c)
    BY <1>a, <2>a, <2>8 DEF Touch, RemoveSema
  <2>9. CASE Panic(c)
    BY <1>a, <2>a, <2>9 DEF Panic, GoDown
  <2>. QED BY <1>1, <2>1, <2>2, <2>3, <2>4, <2>5, <2>6, <2>7, <2>8, <2>9 DEF StartSteps
<1>2. ASSUME NEW c \in Sh, StopSteps(c) PROVE FaultFileMade'
  <2>a. \A x \in Sh : x = c
    BY DEF OneInvocation
  <2>1. CASE Stop(c) \/ ShutdownFabrics(c) \/ ShutdownLioMod(c)
    BY <1>a, <2>a, <2>1 DEF Stop, Return, ShutdownFabrics, ShutdownLioMod
  <2>2. CASE UnloadTcmMod(c) \/ UnloadTcmModFails(c) \/ RemoveLock(c)
    BY <1>a, <2>a, <2>2 DEF UnloadTcmMod, UnloadTcmModFails, Return, CoreStays, RemoveLock
  <2>. QED BY <1>2, <2>1, <2>2 DEF StopSteps
<1>3. ASSUME NEW c \in Sh, StartCommand(c) \/ Exit(c) \/ Killed(c) PROVE FaultFileMade'
  <2>a. \A x \in Sh : x = c
    BY DEF OneInvocation
  <2>1. CASE StartCommand(c)
    BY <1>a, <2>a, <2>1 DEF StartCommand
  <2>2. CASE Exit(c) \/ Killed(c)
    BY <1>a, <2>a, <2>2 DEF Exit, Killed
  <2>. QED BY <1>3, <2>1, <2>2
<1>4. CASE Reboot
  BY <1>a, <1>4 DEF Reboot, GoDown
<1>5. CASE WriteBack
  BY <1>a, <1>5 DEF WriteBack
<1>6. CASE OperatorRemovesFault
  BY <1>a, <1>6 DEF OperatorRemovesFault
<1>7. CASE ScriptsChange
  BY <1>a, <1>7 DEF ScriptsChange
<1>8. CASE UNCHANGED vars
  BY <1>8 DEF vars
<1>. QED BY <1>1, <1>2, <1>3, <1>4, <1>5, <1>6, <1>7, <1>8 DEF Next

\* A start begins with nothing, and leaves behind itself what its scripts have configured.
LEMMA StepOnce ==
    ASSUME OneInvocation, TypeOK, StartsFromNothing, ScriptsRunOnce, [Next]_vars
    PROVE  (StartsFromNothing /\ ScriptsRunOnce)'
<1>. USE DEF StartsFromNothing, ScriptsRunOnce, Pending, Part, fixed, machine, At, Goto, Idle, ShState
<1>a. core \in BOOLEAN /\ conf \subseteq Part /\ sh \in [Sh -> ShState]
  BY DEF TypeOK
<1>1. ASSUME NEW c \in Sh, StartSteps(c) PROVE (StartsFromNothing /\ ScriptsRunOnce)'
  <2>a. \A x \in Sh : x = c
    BY DEF OneInvocation
  <2>1. CASE CheckCore(c) \/ CheckSema(c) \/ WriteSema(c) \/ Sync(c) \/ CheckLock(c)
    BY <1>a, <2>a, <2>1 DEF CheckCore, CheckSema, WriteSema, Sync, CheckLock
  <2>2. CASE Abort(c) \/ LoadCore(c) \/ LoadCoreFails(c) \/ LoadCoreFailsSuse(c)
    BY <1>a, <2>a, <2>2 DEF Abort, LoadCore, LoadCoreFails, LoadCoreFailsSuse
  <2>3. CASE RunTcmScript(c) \/ RunLioScript(c)
    BY <1>a, <2>a, <2>3, FabricNames DEF RunTcmScript, RunScript, Configure, RunLioScript
  <2>4. CASE ScriptMissing(c) \/ ScriptMissingSuse(c)
    BY <1>a, <2>a, <2>4, FabricNames DEF ScriptMissing, ScriptMissingSuse
  <2>5. CASE ListScripts(c)
    BY <1>a, <2>a, <2>5 DEF ListScripts
  <2>6. CASE RunFabricScript(c)
    BY <1>a, <2>a, <2>6 DEF RunFabricScript, RunScript, Configure
  <2>7. CASE FabricScriptMissing(c)
    BY <1>a, <2>a, <2>7 DEF FabricScriptMissing
  <2>8. CASE Touch(c) \/ RemoveSema(c)
    BY <1>a, <2>a, <2>8 DEF Touch, RemoveSema
  <2>9. CASE Panic(c)
    BY <1>a, <2>a, <2>9 DEF Panic, GoDown
  <2>. QED BY <1>1, <2>1, <2>2, <2>3, <2>4, <2>5, <2>6, <2>7, <2>8, <2>9 DEF StartSteps
<1>2. ASSUME NEW c \in Sh, StopSteps(c) PROVE (StartsFromNothing /\ ScriptsRunOnce)'
  <2>a. \A x \in Sh : x = c
    BY DEF OneInvocation
  <2>1. CASE Stop(c) \/ ShutdownFabrics(c) \/ ShutdownLioMod(c)
    BY <1>a, <2>a, <2>1 DEF Stop, Return, ShutdownFabrics, ShutdownLioMod
  <2>2. CASE UnloadTcmMod(c) \/ UnloadTcmModFails(c) \/ RemoveLock(c)
    BY <1>a, <2>a, <2>2 DEF UnloadTcmMod, UnloadTcmModFails, Return, CoreStays, RemoveLock
  <2>. QED BY <1>2, <2>1, <2>2 DEF StopSteps
<1>3. ASSUME NEW c \in Sh, StartCommand(c) \/ Exit(c) \/ Killed(c) PROVE (StartsFromNothing
           /\ ScriptsRunOnce)'
  <2>a. \A x \in Sh : x = c
    BY DEF OneInvocation
  <2>1. CASE StartCommand(c)
    BY <1>a, <2>a, <2>1 DEF StartCommand
  <2>2. CASE Exit(c) \/ Killed(c)
    BY <1>a, <2>a, <2>2 DEF Exit, Killed
  <2>. QED BY <1>3, <2>1, <2>2
<1>4. CASE Reboot
  BY <1>a, <1>4 DEF Reboot, GoDown
<1>5. CASE WriteBack
  BY <1>a, <1>5 DEF WriteBack
<1>6. CASE OperatorRemovesFault
  BY <1>a, <1>6 DEF OperatorRemovesFault
<1>7. CASE ScriptsChange
  BY <1>a, <1>7 DEF ScriptsChange
<1>8. CASE UNCHANGED vars
  BY <1>8 DEF vars
<1>. QED BY <1>1, <1>2, <1>3, <1>4, <1>5, <1>6, <1>7, <1>8 DEF Next

\* A crash leaves the fault file, and a start that finds it ends.
LEMMA StepFatal ==
    ASSUME OneInvocation, TypeOK, FaultFileMade, FatalBlocks, [Next]_vars
    PROVE  FatalBlocks'
<1>. USE DEF FaultFileMade, FatalBlocks, Guarded, OnDisk, fixed, machine, At, Goto, Idle, ShState
<1>a. sema \in BOOLEAN /\ semaDisk \in BOOLEAN /\ suse \in BOOLEAN /\ sh \in [Sh -> ShState]
  BY DEF TypeOK
<1>1. ASSUME NEW c \in Sh, StartSteps(c) PROVE FatalBlocks'
  <2>a. \A x \in Sh : x = c
    BY DEF OneInvocation
  <2>1. CASE CheckCore(c) \/ CheckSema(c) \/ WriteSema(c) \/ Sync(c) \/ CheckLock(c)
    BY <1>a, <2>a, <2>1 DEF CheckCore, CheckSema, WriteSema, Sync, CheckLock
  <2>2. CASE Abort(c) \/ LoadCore(c) \/ LoadCoreFails(c) \/ LoadCoreFailsSuse(c)
    BY <1>a, <2>a, <2>2 DEF Abort, LoadCore, LoadCoreFails, LoadCoreFailsSuse
  <2>3. CASE RunTcmScript(c) \/ RunLioScript(c)
    BY <1>a, <2>a, <2>3 DEF RunTcmScript, RunScript, Configure, RunLioScript
  <2>4. CASE ScriptMissing(c) \/ ScriptMissingSuse(c)
    BY <1>a, <2>a, <2>4 DEF ScriptMissing, ScriptMissingSuse
  <2>5. CASE ListScripts(c)
    BY <1>a, <2>a, <2>5 DEF ListScripts
  <2>6. CASE RunFabricScript(c)
    BY <1>a, <2>a, <2>6 DEF RunFabricScript, RunScript, Configure
  <2>7. CASE FabricScriptMissing(c)
    BY <1>a, <2>a, <2>7 DEF FabricScriptMissing
  <2>8. CASE Touch(c) \/ RemoveSema(c)
    BY <1>a, <2>a, <2>8 DEF Touch, RemoveSema
  <2>9. CASE Panic(c)
    <3>1. Pending(c) # {}
      BY <2>9 DEF Panic
    <3>2. sema /\ (suse \/ semaDisk)
      BY <3>1, PendingGuarded DEF FaultFileMade, Guarded, OnDisk
    <3>3. /\ sema' = semaDisk /\ semaDisk' = semaDisk /\ suse' = suse
          /\ sh' = [x \in Sh |-> Idle]
      BY <2>9 DEF Panic, GoDown
    <3>. QED BY <1>a, <3>2, <3>3
  <2>. QED BY <1>1, <2>1, <2>2, <2>3, <2>4, <2>5, <2>6, <2>7, <2>8, <2>9 DEF StartSteps
<1>2. ASSUME NEW c \in Sh, StopSteps(c) PROVE FatalBlocks'
  <2>a. \A x \in Sh : x = c
    BY DEF OneInvocation
  <2>1. CASE Stop(c) \/ ShutdownFabrics(c) \/ ShutdownLioMod(c)
    BY <1>a, <2>a, <2>1 DEF Stop, Return, ShutdownFabrics, ShutdownLioMod
  <2>2. CASE UnloadTcmMod(c) \/ UnloadTcmModFails(c) \/ RemoveLock(c)
    BY <1>a, <2>a, <2>2 DEF UnloadTcmMod, UnloadTcmModFails, Return, CoreStays, RemoveLock
  <2>. QED BY <1>2, <2>1, <2>2 DEF StopSteps
<1>3. ASSUME NEW c \in Sh, StartCommand(c) \/ Exit(c) \/ Killed(c) PROVE FatalBlocks'
  <2>a. \A x \in Sh : x = c
    BY DEF OneInvocation
  <2>1. CASE StartCommand(c)
    BY <1>a, <2>a, <2>1 DEF StartCommand
  <2>2. CASE Exit(c) \/ Killed(c)
    BY <1>a, <2>a, <2>2 DEF Exit, Killed
  <2>. QED BY <1>3, <2>1, <2>2
<1>4. CASE Reboot
  BY <1>a, <1>4 DEF Reboot, GoDown
<1>5. CASE WriteBack
  BY <1>a, <1>5 DEF WriteBack
<1>6. CASE OperatorRemovesFault
  BY <1>a, <1>6 DEF OperatorRemovesFault
<1>7. CASE ScriptsChange
  BY <1>a, <1>7 DEF ScriptsChange
<1>8. CASE UNCHANGED vars
  BY <1>8 DEF vars
<1>. QED BY <1>1, <1>2, <1>3, <1>4, <1>5, <1>6, <1>7, <1>8 DEF Next

\* A stop goes on only from what it took down.
LEMMA StepStop ==
    ASSUME OneInvocation, TypeOK, StartsFromNothing, StopMakesClean, StoppedIsClean, [Next]_vars
    PROVE  (StopMakesClean /\ StoppedIsClean)'
<1>. USE DEF StartsFromNothing, StopMakesClean, StoppedIsClean, Guarded, fixed, machine, At, Goto,
           Idle, ShState
<1>a. core \in BOOLEAN /\ sema \in BOOLEAN /\ sh \in [Sh -> ShState]
  BY DEF TypeOK
<1>1. ASSUME NEW c \in Sh, StartSteps(c) PROVE (StopMakesClean /\ StoppedIsClean)'
  <2>a. \A x \in Sh : x = c
    BY DEF OneInvocation
  <2>1. CASE CheckCore(c) \/ CheckSema(c) \/ WriteSema(c) \/ Sync(c) \/ CheckLock(c)
    BY <1>a, <2>a, <2>1 DEF CheckCore, CheckSema, WriteSema, Sync, CheckLock
  <2>2. CASE Abort(c) \/ LoadCore(c) \/ LoadCoreFails(c) \/ LoadCoreFailsSuse(c)
    BY <1>a, <2>a, <2>2 DEF Abort, LoadCore, LoadCoreFails, LoadCoreFailsSuse
  <2>3. CASE RunTcmScript(c) \/ RunLioScript(c)
    BY <1>a, <2>a, <2>3 DEF RunTcmScript, RunScript, Configure, RunLioScript
  <2>4. CASE ScriptMissing(c) \/ ScriptMissingSuse(c)
    BY <1>a, <2>a, <2>4 DEF ScriptMissing, ScriptMissingSuse
  <2>5. CASE ListScripts(c)
    BY <1>a, <2>a, <2>5 DEF ListScripts
  <2>6. CASE RunFabricScript(c)
    BY <1>a, <2>a, <2>6 DEF RunFabricScript, RunScript, Configure
  <2>7. CASE FabricScriptMissing(c)
    BY <1>a, <2>a, <2>7 DEF FabricScriptMissing
  <2>8. CASE Touch(c) \/ RemoveSema(c)
    BY <1>a, <2>a, <2>8 DEF Touch, RemoveSema
  <2>9. CASE Panic(c)
    BY <1>a, <2>a, <2>9 DEF Panic, GoDown
  <2>. QED BY <1>1, <2>1, <2>2, <2>3, <2>4, <2>5, <2>6, <2>7, <2>8, <2>9 DEF StartSteps
<1>2. ASSUME NEW c \in Sh, StopSteps(c) PROVE (StopMakesClean /\ StoppedIsClean)'
  <2>a. \A x \in Sh : x = c
    BY DEF OneInvocation
  <2>1. CASE Stop(c) \/ ShutdownFabrics(c) \/ ShutdownLioMod(c)
    BY <1>a, <2>a, <2>1 DEF Stop, Return, ShutdownFabrics, ShutdownLioMod
  <2>2. CASE UnloadTcmMod(c) \/ UnloadTcmModFails(c) \/ RemoveLock(c)
    BY <1>a, <2>a, <2>2 DEF UnloadTcmMod, UnloadTcmModFails, Return, CoreStays, RemoveLock
  <2>. QED BY <1>2, <2>1, <2>2 DEF StopSteps
<1>3. ASSUME NEW c \in Sh, StartCommand(c) \/ Exit(c) \/ Killed(c) PROVE (StopMakesClean
           /\ StoppedIsClean)'
  <2>a. \A x \in Sh : x = c
    BY DEF OneInvocation
  <2>1. CASE StartCommand(c)
    BY <1>a, <2>a, <2>1 DEF StartCommand
  <2>2. CASE Exit(c) \/ Killed(c)
    BY <1>a, <2>a, <2>2 DEF Exit, Killed
  <2>. QED BY <1>3, <2>1, <2>2
<1>4. CASE Reboot
  BY <1>a, <1>4 DEF Reboot, GoDown
<1>5. CASE WriteBack
  BY <1>a, <1>5 DEF WriteBack
<1>6. CASE OperatorRemovesFault
  BY <1>a, <1>6 DEF OperatorRemovesFault
<1>7. CASE ScriptsChange
  BY <1>a, <1>7 DEF ScriptsChange
<1>8. CASE UNCHANGED vars
  BY <1>8 DEF vars
<1>. QED BY <1>1, <1>2, <1>3, <1>4, <1>5, <1>6, <1>7, <1>8 DEF Next

\* What the scripts are relied on for, of a machine on which they are run one at a time.
LEMMA OneAtATime == ASSUME OneInvocation PROVE Spec => []IInv
<1>1. Init => IInv
  <2>. SUFFICES ASSUME Init PROVE IInv
    OBVIOUS
  <2>1. TypeOK
    BY InitType
  <2>. QED BY <2>1 DEF Init, IInv, FaultFileMade, Guarded, OnDisk, StartsFromNothing, FatalBlocks,
       StopMakesClean, ScriptsRunOnce, StoppedIsClean, Pending, At, Idle
<1>2. IInv /\ [Next]_vars => IInv'
  BY StepType, StepFaultFile, StepOnce, StepFatal, StepStop DEF IInv
<1>. QED BY <1>1, <1>2, PTL DEF Spec

\* Whatever script takes the machine down, the fault file is there and, with rc.target, on disk:
\* it is made and written back before any script, and nothing of the start itself removes it.
THEOREM ScriptsAreGuarded == ASSUME OneInvocation PROVE Spec => []FaultFileGuardsScripts
<1>1. IInv => FaultFileGuardsScripts
  BY PendingGuarded DEF IInv, FaultFileMade, FaultFileGuardsScripts, Guarded, OnDisk
<1>. QED BY <1>1, OneAtATime, PTL

\* No start script is run over what it has configured, whatever failed or died before: a start
\* goes on only without the module, and without the module nothing is configured.
THEOREM ConfiguredOnce == ASSUME OneInvocation PROVE Spec => []ScriptsRunOnce
<1>1. IInv => ScriptsRunOnce
  BY DEF IInv
<1>. QED BY <1>1, OneAtATime, PTL

\* A stop that reports success has taken everything down.
THEOREM StopIsClean == ASSUME OneInvocation PROVE Spec => []StoppedIsClean
<1>1. IInv => StoppedIsClean
  BY DEF IInv
<1>. QED BY <1>1, OneAtATime, PTL

\* With rc.target, what took the machine down is not started again by any number of starts,
\* kills and reboots, while nobody calls stop, removes the file or changes a script.
THEOREM CrashIsNotRepeated == ASSUME OneInvocation PROVE Spec => []StartIsRefused
<1>1. IInv => StartIsRefused
  <2>. SUFFICES ASSUME IInv, fatal = "yes", ~suse, NEW c \in Sh PROVE Pending(c) = {}
    BY DEF StartIsRefused
  <2>1. sh[c].pc \notin Guarded
    BY DEF IInv, FatalBlocks
  <2>. QED BY <2>1, PendingGuarded DEF Guarded
<1>. QED BY <1>1, OneAtATime, PTL
=============================================================================
