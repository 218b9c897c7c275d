------------------------------ MODULE TcmNode ------------------------------
(***************************************************************************)
(* tcm-py/tcm_node.py: the command line tool that makes and frees storage  *)
(* objects and their ALUA target port groups under                         *)
(* /sys/kernel/config/target/core, and restores what the kernel has saved  *)
(* of them under /var/target.                                              *)
(*                                                                         *)
(* As in LioNode, the invocations in Cli interleave and a step is one      *)
(* system call with the local decisions that follow it.  A command that    *)
(* its own first check refuses has no action.  tcm_write ends the tool     *)
(* only when the file is not there (errno 2); every other refusal of the   *)
(* kernel is swallowed, and may come at any time (Swallowed).              *)
(***************************************************************************)
EXTENDS Naturals, FiniteSets

CONSTANTS
    Cli,        \* concurrent invocations of tcm_node
    Hba, Name,  \* host bus adapters, names of storage objects on them
    Group,      \* names of target port groups
    Default,    \* default_tg_pt_gp, made by the kernel with the storage object
    Id,         \* group identifiers
    DefaultId,  \* that of the default group ("0")
    LuGroup,    \* names of logical unit groups
    Serial,     \* T10 unit serials
    Access,     \* ALUA access states
    Optimized,  \* the access state of a new group
    Status,     \* what a group may say of how its access state came about
    NoStatus,   \* the status of a new group
    Used,       \* the commands that are run and the events that happen around them
    None        \* no serial, no identifier, no file

\* HBA/DEV, and the "DEValua" that --addtgptgp makes next to it.
Device  == Hba \X Name \X {"dev"}
Sibling == Hba \X Name \X {"alua"}
Object  == Device \cup Sibling
Gp      == Device \X Group

\* tpgs_SERIAL and its files; a storage object without serial uses "tpgs_".
Key   == Serial \cup {None}
File  == Key \X Group
Saved == [id : Id \cup {None}, access : Access, status : Status]

Commands == {"createdev", "establishdev", "setunitserial", "setunitserialwithmd", "praptpl",
             "addtgptgp", "addtgptgpwithmd", "deltgptgp", "addlungp", "dellungp",
             "freedev", "delhba", "unload"}
Events == {"access", "link", "register", "deregister", "reboot"}

ASSUME UsedCommands == Used \subseteq Commands \cup Events
ASSUME SomeNames ==
    /\ Hba # {} /\ Name # {} /\ Group # {} /\ Id # {} /\ LuGroup # {}
    /\ DefaultId \in Id /\ Optimized \in Access /\ NoStatus \in Status
ASSUME NoneIsNoValue == None \notin Serial \cup Id \cup Saved

VARIABLES
    hbas, devs, groups, luGps,  \* directories
    active,   \* storage objects the subsystem plugin has enabled
    serial,   \* wwn/vpd_unit_serial
    \* tg_pt_gp_id, alua_access_state, alua_access_status, alua_write_metadata
    gpId, access, status, writeMd,
    linked,   \* storage objects exported by a LUN of some fabric
    reserved, \* storage objects with persistent reservations
    mdDir, mdFile,  \* /var/target/alua/tpgs_SERIAL/ and its files
    aptpl,    \* /var/target/pr/aptpl_SERIAL: none, one without or with reservations
    cli       \* the invocations

dirs  == <<hbas, devs, groups, luGps>>
attrs == <<active, serial, gpId, access, status, writeMd>>
usage == <<linked, reserved>>
saved == <<mdDir, mdFile, aptpl>>
vars  == <<dirs, attrs, usage, saved, cli>>

-----------------------------------------------------------------------------
(* Invocations *)

Stages == {"idle", "ok", "err",
           "mkHba", "mkDev", "plugin", "rollback", "serial", "aptpl", "mdDir",
           "mkSibling", "mkGroup", "id", "process", "restore", "status", "writeMd", "rmMd",
           "mkLuGp", "hbas", "devs", "groups", "rmAptpl", "rmMdDir", "luGps"}

Idle == [cmd |-> "none", pc |-> "idle",
         \* nothing else has run since this invocation started (an observation only)
         alone |-> FALSE,
         \* the kernel has refused it something (an observation only)
         refused |-> FALSE,
         \* arguments, loop variables and what was read
         h |-> CHOOSE h \in Hba : TRUE,
         d |-> CHOOSE d \in Device : TRUE,
         o |-> CHOOSE d \in Device : TRUE,
         g |-> CHOOSE g \in Group : TRUE,
         id |-> CHOOSE id \in Id : TRUE,
         s |-> None,
         file |-> CHOOSE f \in Saved : TRUE,
         \* what the current listdir snapshots still hold
         hbasLeft |-> {}, devsLeft |-> {}, groupsLeft |-> {}, luGpsLeft |-> {}]

CliState ==
    [cmd : Commands \cup {"none"}, pc : Stages, alone : BOOLEAN, refused : BOOLEAN,
     h : Hba, d : Device, o : Object, g : Group, id : Id, s : Key, file : Saved,
     hbasLeft : SUBSET Hba, devsLeft : SUBSET Object,
     groupsLeft : SUBSET Group, luGpsLeft : SUBSET LuGroup]

At(c, pc) == cli[c].pc = pc
Become(c, state) == cli' = [cli EXCEPT ![c] = state]
Goto(c, pc) == Become(c, [cli[c] EXCEPT !.pc = pc])

\* tcm_write returns, with what it wrote taken by the kernel or refused.
Swallowed(c, refused, pc) ==
    Become(c, [cli[c] EXCEPT !.pc = pc, !.refused = @ \/ refused])

\* The HBA and the group an invocation works on.
HbaOf(c) == cli[c].d[1]
GpOf(c) == <<cli[c].d, cli[c].g>>

\* What is saved of it under the present serial of its storage object.
FileOf(c) == mdFile[<<serial[cli[c].d], cli[c].g>>]

Begin(c, state) ==
    /\ At(c, "idle")
    /\ state.cmd \in Used
    /\ cli' = [x \in Cli |->
                 IF x = c
                 THEN [state EXCEPT !.alone = \A y \in Cli \ {c} : At(y, "idle")]
                 ELSE [cli[x] EXCEPT !.alone = FALSE]]
    /\ UNCHANGED <<dirs, attrs, usage, saved>>

\* Something else happens between the steps of the invocations.
Interfere == cli' = [c \in Cli |-> [cli[c] EXCEPT !.alone = FALSE]]

-----------------------------------------------------------------------------
(* The kernel *)

GroupsOf(o)  == {g \in Group : <<o, g>> \in groups}
ObjectsOf(h) == {o \in devs : o[1] = h}

\* rmdir: the default group goes with its storage object, the others hold it.
RemovableDev(o)   == o \in devs /\ o \notin linked /\ GroupsOf(o) \subseteq {Default}
RemovableGroup(x) == x \in groups /\ x[2] # Default

\* A new storage object comes with the default group and nothing else.
NewDev(o) ==
    /\ devs' = devs \cup {o}
    /\ groups' = groups \cup {x \in Gp : x = <<o, Default>>}
    /\ gpId' = [x \in Gp |-> IF x = <<o, Default>> THEN DefaultId ELSE gpId[x]]

\* What goes with the directory of an object.
ForgetDev(o) ==
    /\ devs' = devs \ {o}
    /\ groups' = {x \in groups : x[1] # o}
    /\ active' = active \ {o}
    /\ reserved' = reserved \ {o}
    /\ serial' = [d \in Device |-> IF d = o THEN None ELSE serial[d]]
    /\ gpId' = [x \in Gp |-> IF x[1] = o THEN None ELSE gpId[x]]
    /\ access' = [x \in Gp |-> IF x[1] = o THEN Optimized ELSE access[x]]
    /\ status' = [x \in Gp |-> IF x[1] = o THEN NoStatus ELSE status[x]]
    /\ writeMd' = {x \in writeMd : x[1] # o}

\* The saved files once the kernel has saved the attributes of x, if x writes its metadata.
FilesWith(x, file) ==
    IF x \in writeMd /\ serial[x[1]] \in mdDir
    THEN [mdFile EXCEPT ![<<serial[x[1]], x[2]>>] = file] ELSE mdFile

\* A written access state is saved, with a status of the kernel's choice.
SetAccess(x, state) ==
    \E st \in Status :
      /\ access' = [access EXCEPT ![x] = state]
      /\ status' = [status EXCEPT ![x] = st]
      /\ mdFile' = FilesWith(x, [id |-> gpId[x], access |-> state, status |-> st])

\* A written status may or may not be saved.
SetStatus(x, st) ==
    /\ status' = [status EXCEPT ![x] = st]
    /\ mdFile' \in {mdFile, FilesWith(x, [id |-> gpId[x], access |-> access[x], status |-> st])}

\* What uuid.uuid4() may return: a serial in no use, saved or live.
Fresh == {s \in Serial : /\ \A d \in Device : serial[d] # s
                         /\ s \notin mdDir /\ aptpl[s] = "absent"}

-----------------------------------------------------------------------------
(* Starting a command *)

StartCreate(c) == \E d \in Device \ devs, cmd \in {"createdev", "establishdev"} :
    Begin(c, [Idle EXCEPT !.cmd = cmd, !.d = d,
                          !.pc = IF d[1] \in hbas THEN "mkDev" ELSE "mkHba"])

StartSetSerial(c) ==
    \E d \in Device \cap devs, s \in Serial, cmd \in {"setunitserial", "setunitserialwithmd"} :
      Begin(c, [Idle EXCEPT !.cmd = cmd, !.pc = "serial", !.d = d, !.s = s])

StartProcessAptpl(c) == \E d \in Device \cap devs :
    Begin(c, [Idle EXCEPT !.cmd = "praptpl", !.pc = "aptpl", !.d = d])

StartAddGroup(c) == \E d \in Device \cap devs :
    Begin(c, [Idle EXCEPT !.cmd = "addtgptgp", !.pc = "mkSibling", !.d = d])

\* The default group is there already.
StartAddGroupWithMd(c) == \E d \in Device \cap devs, g \in Group, id \in Id :
    Begin(c, [Idle EXCEPT !.cmd = "addtgptgpwithmd", !.d = d, !.g = g, !.id = id,
                          !.pc = IF g = Default /\ id = DefaultId THEN "process" ELSE "mkGroup"])

StartDelGroup(c) == \E x \in groups :
    Begin(c, [Idle EXCEPT !.cmd = "deltgptgp", !.pc = "groups", !.o = x[1],
                          !.s = serial[x[1]], !.g = x[2], !.groupsLeft = {x[2]}])

StartAddLuGroup(c) == \E l \in LuGroup \ luGps :
    Begin(c, [Idle EXCEPT !.cmd = "addlungp", !.pc = "mkLuGp", !.luGpsLeft = {l}])

StartDelLuGroup(c) == \E l \in luGps :
    Begin(c, [Idle EXCEPT !.cmd = "dellungp", !.pc = "luGps", !.luGpsLeft = {l}])

StartFreeDev(c) == \E d \in Device \cap devs :
    Begin(c, [Idle EXCEPT !.cmd = "freedev", !.pc = "devs", !.s = serial[d],
                          !.devsLeft = {d}])

StartDelHba(c) == \E h \in hbas :
    Begin(c, [Idle EXCEPT !.cmd = "delhba", !.pc = "devs", !.h = h, !.devsLeft = ObjectsOf(h)])

StartUnload(c) ==
    Begin(c, [Idle EXCEPT !.cmd = "unload", !.pc = "hbas", !.hbasLeft = hbas])

-----------------------------------------------------------------------------
(* Creating a storage object *)

\* os.mkdir: somebody else may have been faster.
MkdirHba(c) ==
    /\ At(c, "mkHba")
    /\ hbas' = hbas \cup {HbaOf(c)}
    /\ Goto(c, IF HbaOf(c) \in hbas THEN "err" ELSE "mkDev")
    /\ UNCHANGED <<devs, groups, luGps, attrs, usage, saved>>

MkdirDev(c) ==
    /\ At(c, "mkDev")
    /\ IF HbaOf(c) \in hbas /\ cli[c].d \notin devs
       THEN /\ NewDev(cli[c].d)
            /\ Goto(c, "plugin")
       ELSE /\ Goto(c, "err")
            /\ UNCHANGED <<devs, groups, gpId>>
    /\ UNCHANGED <<hbas, luGps, active, serial, access, status, writeMd, usage, saved>>

\* createvirtdev of the plugin: echo to udev_path, control and enable.  It returns -1 when
\* one of them fails, and tcm_createvirtdev does not look at what it returns.
AfterPlugin(c) == IF cli[c].cmd = "createdev" THEN "serial" ELSE "ok"

PluginEnables(c) ==
    /\ At(c, "plugin")
    /\ cli[c].d \in devs
    /\ active' = active \cup {cli[c].d}
    /\ Goto(c, AfterPlugin(c))
    /\ UNCHANGED <<dirs, serial, gpId, access, status, writeMd, usage, saved>>

\* Reading info ends the tool when the directory is gone.
PluginFails(c) ==
    /\ At(c, "plugin")
    /\ Goto(c, IF cli[c].d \in devs THEN AfterPlugin(c) ELSE "err")
    /\ UNCHANGED <<dirs, attrs, usage, saved>>

\* No such block device, no fd_dev_name=: IndexError, ValueError.
PluginRaises(c) ==
    /\ At(c, "plugin")
    /\ Goto(c, "rollback")
    /\ UNCHANGED <<dirs, attrs, usage, saved>>

\* Wrong variant: the exception leaves the directory.
NoRollback(c) ==
    /\ At(c, "rollback")
    /\ Goto(c, "err")
    /\ UNCHANGED <<dirs, attrs, usage, saved>>

Rollback(c) ==
    /\ At(c, "rollback")
    /\ IF RemovableDev(cli[c].d)
       THEN ForgetDev(cli[c].d)
       ELSE UNCHANGED <<devs, groups, attrs, reserved>>
    /\ Goto(c, "err")
    /\ UNCHANGED <<hbas, luGps, linked, saved>>

-----------------------------------------------------------------------------
(* Unit serial, reservations, metadata directory *)

\* Wrong variant: --setunitserialwithmd does not look for saved reservations.
SetUnitSerialOnly(c) ==
    /\ At(c, "serial")
    /\ \E s \in IF cli[c].cmd = "createdev" THEN Fresh ELSE {cli[c].s} :
         serial' = IF cli[c].d \in devs \ linked
                   THEN [serial EXCEPT ![cli[c].d] = s] ELSE serial
    /\ Goto(c, IF cli[c].d \notin devs THEN "err"
               ELSE IF cli[c].cmd = "setunitserial" THEN "ok" ELSE "mdDir")
    /\ UNCHANGED <<dirs, active, gpId, access, status, writeMd, usage, saved>>

\* tcm_set_wwn_unit_serial.  The serial of an exported object stays.
SetUnitSerial(c) ==
    /\ At(c, "serial")
    /\ \E s \in IF cli[c].cmd = "createdev" THEN Fresh ELSE {cli[c].s} :
         serial' = IF cli[c].d \in devs \ linked
                   THEN [serial EXCEPT ![cli[c].d] = s] ELSE serial
    /\ Goto(c, IF cli[c].d \notin devs THEN "err"
               ELSE CASE cli[c].cmd = "createdev" -> "mdDir"
                      [] cli[c].cmd = "setunitserial" -> "ok"
                      [] OTHER -> "aptpl")
    /\ UNCHANGED <<dirs, active, gpId, access, status, writeMd, usage, saved>>

\* tcm_process_aptpl_metadata: returns when there is no file, or one without PR_REG_START.
ProcessAptpl(c) ==
    /\ At(c, "aptpl")
    /\ IF cli[c].d \notin devs
       THEN Goto(c, "err") /\ UNCHANGED reserved
       ELSE \E refused \in BOOLEAN :
              /\ refused => aptpl[serial[cli[c].d]] = "held"
              /\ reserved' = IF aptpl[serial[cli[c].d]] # "held" \/ refused
                             THEN reserved ELSE reserved \cup {cli[c].d}
              /\ Swallowed(c, refused, IF cli[c].cmd = "praptpl" THEN "ok" ELSE "mdDir")
    /\ UNCHANGED <<dirs, attrs, linked, saved>>

\* Wrong variant: a serial starts anew, without what was saved under it before.
CheckMetadataDirAnew(c) ==
    /\ At(c, "mdDir")
    /\ IF cli[c].d \in devs
       THEN /\ mdDir' = mdDir \cup {serial[cli[c].d]}
            /\ mdFile' = [f \in File |-> IF f[1] = serial[cli[c].d] THEN None ELSE mdFile[f]]
            /\ aptpl' = [aptpl EXCEPT ![serial[cli[c].d]] = "absent"]
            /\ Goto(c, "ok")
       ELSE /\ Goto(c, "err")
            /\ UNCHANGED saved
    /\ UNCHANGED <<dirs, attrs, usage>>

\* tcm_alua_check_metadata_dir
CheckMetadataDir(c) ==
    /\ At(c, "mdDir")
    /\ mdDir' = IF cli[c].d \in devs THEN mdDir \cup {serial[cli[c].d]} ELSE mdDir
    /\ Goto(c, IF cli[c].d \in devs THEN "ok" ELSE "err")
    /\ UNCHANGED <<dirs, attrs, usage, mdFile, aptpl>>

-----------------------------------------------------------------------------
(* ALUA groups *)

\* --addtgptgp: the path lacks its "/", so os.makedirs makes HBA/DEValua, fails below it and
\* the exception ends the tool.
MkdirSibling(c) ==
    /\ At(c, "mkSibling")
    /\ hbas' = hbas \cup {HbaOf(c)}
    /\ devs' = devs \cup {<<HbaOf(c), cli[c].d[2], "alua">>}
    /\ Goto(c, "err")
    /\ UNCHANGED <<groups, luGps, attrs, usage, saved>>

\* --addtgptgpwithmd: os.makedirs makes the missing parents too.
MkdirGroup(c) ==
    /\ At(c, "mkGroup")
    /\ IF GpOf(c) \in groups \/ cli[c].g = Default
       THEN /\ Goto(c, "err")
            /\ UNCHANGED <<hbas, devs, groups, gpId>>
       ELSE /\ hbas' = hbas \cup {HbaOf(c)}
            /\ devs' = devs \cup {cli[c].d}
            /\ groups' = groups \cup {GpOf(c)} \cup {x \in Gp : x = <<cli[c].d, Default>>}
            /\ gpId' = [x \in Gp |-> IF x = <<cli[c].d, Default>> THEN DefaultId ELSE gpId[x]]
            /\ Goto(c, "id")
    /\ UNCHANGED <<luGps, active, serial, access, status, writeMd, usage, saved>>

\* A refused identifier is swallowed.
WriteGroupId(c) ==
    /\ At(c, "id")
    /\ IF GpOf(c) \notin groups
       THEN Goto(c, "err") /\ UNCHANGED gpId
       ELSE \E refused \in BOOLEAN :
              /\ gpId' = IF refused THEN gpId ELSE [gpId EXCEPT ![GpOf(c)] = cli[c].id]
              /\ Swallowed(c, refused, "process")
    /\ UNCHANGED <<dirs, active, serial, access, status, writeMd, usage, saved>>

\* tcm_alua_process_metadata, "If not pre-existing ALUA metadata exists": nothing to restore.
ProcessNoMetadata(c) ==
    /\ At(c, "process")
    /\ cli[c].d \in devs
    /\ FileOf(c) = None
    /\ Goto(c, "writeMd")
    /\ UNCHANGED <<dirs, attrs, usage, saved>>

\* The identifier in the file must be the one that was passed.
ProcessMetadata(c) ==
    /\ At(c, "process")
    /\ cli[c].d \in devs
    /\ FileOf(c) # None
    /\ Become(c, [cli[c] EXCEPT
         !.file = FileOf(c),
         !.pc = IF FileOf(c).id = cli[c].id THEN "restore" ELSE "err"])
    /\ UNCHANGED <<dirs, attrs, usage, saved>>

\* The storage object is gone: tcm_read ends the tool.
ProcessGone(c) ==
    /\ At(c, "process")
    /\ cli[c].d \notin devs
    /\ Goto(c, "err")
    /\ UNCHANGED <<dirs, attrs, usage, saved>>

\* Wrong variant: the status is taken for restored along with the access state.
RestoreAccessOnly(c) ==
    /\ At(c, "restore")
    /\ IF GpOf(c) \notin groups
       THEN Goto(c, "err") /\ UNCHANGED <<access, status, mdFile>>
       ELSE \/ /\ SetAccess(GpOf(c), cli[c].file.access)
               /\ Swallowed(c, FALSE, "writeMd")
            \/ /\ Swallowed(c, TRUE, "writeMd")
               /\ UNCHANGED <<access, status, mdFile>>
    /\ UNCHANGED <<dirs, active, serial, gpId, writeMd, usage, mdDir, aptpl>>

\* A refused access state is swallowed.
RestoreAccess(c) ==
    /\ At(c, "restore")
    /\ IF GpOf(c) \notin groups
       THEN Goto(c, "err") /\ UNCHANGED <<access, status, mdFile>>
       ELSE \/ /\ SetAccess(GpOf(c), cli[c].file.access)
               /\ Swallowed(c, FALSE, "status")
            \/ /\ Swallowed(c, TRUE, "status")
               /\ UNCHANGED <<access, status, mdFile>>
    /\ UNCHANGED <<dirs, active, serial, gpId, writeMd, usage, mdDir, aptpl>>

\* So is a refused access status.
RestoreStatus(c) ==
    /\ At(c, "status")
    /\ IF GpOf(c) \notin groups
       THEN Goto(c, "err") /\ UNCHANGED <<status, mdFile>>
       ELSE \/ /\ SetStatus(GpOf(c), cli[c].file.status)
               /\ Swallowed(c, FALSE, "writeMd")
            \/ /\ Swallowed(c, TRUE, "writeMd")
               /\ UNCHANGED <<status, mdFile>>
    /\ UNCHANGED <<dirs, active, serial, gpId, access, writeMd, usage, mdDir, aptpl>>

\* Neither does a refused alua_write_metadata end the tool.
EnableWriteMd(c) ==
    /\ At(c, "writeMd")
    /\ IF GpOf(c) \notin groups
       THEN Goto(c, "err") /\ UNCHANGED writeMd
       ELSE \E refused \in BOOLEAN :
              /\ writeMd' = IF refused THEN writeMd ELSE writeMd \cup {GpOf(c)}
              /\ Swallowed(c, refused, "ok")
    /\ UNCHANGED <<dirs, active, serial, gpId, access, status, usage, saved>>

\* __tcm_del_alua_tgptgp: the next group of the storage object.
RmdirGroup(c) ==
    /\ At(c, "groups")
    /\ \E g \in cli[c].groupsLeft :
         LET x == <<cli[c].o, g>> IN
         IF RemovableGroup(x)
         THEN /\ groups' = groups \ {x}
              /\ gpId' = [gpId EXCEPT ![x] = None]
              /\ access' = [access EXCEPT ![x] = Optimized]
              /\ status' = [status EXCEPT ![x] = NoStatus]
              /\ writeMd' = writeMd \ {x}
              /\ Become(c, [cli[c] EXCEPT
                   !.groupsLeft = @ \ {g},
                   !.pc = IF cli[c].cmd = "deltgptgp" THEN "rmMd" ELSE "groups"])
         ELSE /\ Goto(c, "err")
              /\ UNCHANGED <<groups, gpId, access, status, writeMd>>
    /\ UNCHANGED <<hbas, devs, luGps, active, serial, usage, saved>>

\* shutil.rmtree of a file raises OSError and removes nothing.
RmMd(c) ==
    /\ At(c, "rmMd")
    /\ Goto(c, IF mdFile[<<cli[c].s, cli[c].g>>] = None THEN "ok" ELSE "err")
    /\ UNCHANGED <<dirs, attrs, usage, saved>>

\* --addlungp: after the mkdir, an undefined name raises NameError, in the handler again.
MkdirLuGroup(c) ==
    /\ At(c, "mkLuGp")
    /\ luGps' = luGps \cup cli[c].luGpsLeft
    /\ Goto(c, "err")
    /\ UNCHANGED <<hbas, devs, groups, attrs, usage, saved>>

-----------------------------------------------------------------------------
(* Freeing *)

\* Wrong variant: the loop takes paths for names.
ListDevPaths(c) ==
    /\ At(c, "hbas")
    /\ \E h \in cli[c].hbasLeft :
         Become(c, [cli[c] EXCEPT
           !.pc = IF h \in hbas THEN "devs" ELSE "err",
           !.h = h,
           !.hbasLeft = @ \ {h},
           !.devsLeft = {<<h, o>> : o \in ObjectsOf(h)}])
    /\ UNCHANGED <<dirs, attrs, usage, saved>>

\* tcm_unload, tcm_delhba: list the storage objects of the next HBA.
ListDevs(c) ==
    /\ At(c, "hbas")
    /\ \E h \in cli[c].hbasLeft :
         Become(c, [cli[c] EXCEPT
           !.pc = IF h \in hbas THEN "devs" ELSE "err",
           !.h = h,
           !.hbasLeft = @ \ {h},
           !.devsLeft = ObjectsOf(h)])
    /\ UNCHANGED <<dirs, attrs, usage, saved>>

\* Wrong variant: the groups made for the storage object are not removed first.
ListNoGroups(c) ==
    /\ At(c, "devs")
    /\ \E o \in cli[c].devsLeft :
         Become(c, [cli[c] EXCEPT
           !.pc = IF o \in devs THEN "groups" ELSE "err",
           !.o = o,
           !.devsLeft = @ \ {o},
           !.groupsLeft = {}])
    /\ UNCHANGED <<dirs, attrs, usage, saved>>

\* __tcm_freevirtdev: list the groups of the next storage object.
ListGroups(c) ==
    /\ At(c, "devs")
    /\ \E o \in cli[c].devsLeft :
         Become(c, [cli[c] EXCEPT
           !.pc = IF o \in devs THEN "groups" ELSE "err",
           !.o = o,
           !.devsLeft = @ \ {o},
           !.groupsLeft = GroupsOf(o) \ {Default}])
    /\ UNCHANGED <<dirs, attrs, usage, saved>>

\* Wrong variant: whoever frees a storage object removes its saved groups.
RmdirDevForgetting(c) ==
    /\ At(c, "groups") /\ cli[c].groupsLeft = {}
    /\ IF RemovableDev(cli[c].o)
       THEN /\ ForgetDev(cli[c].o)
            /\ mdFile' = [f \in File |->
                            IF cli[c].o \in Device /\ f[1] = serial[cli[c].o]
                            THEN None ELSE mdFile[f]]
            /\ Goto(c, IF cli[c].cmd = "freedev" THEN "rmAptpl" ELSE "devs")
       ELSE /\ Goto(c, "err")
            /\ UNCHANGED <<devs, groups, attrs, reserved, mdFile>>
    /\ UNCHANGED <<hbas, luGps, linked, mdDir, aptpl>>

\* Wrong variant: that the kernel refuses the rmdir is swallowed like a refused write.
RmdirDevSwallowed(c) ==
    /\ At(c, "groups") /\ cli[c].groupsLeft = {}
    /\ IF RemovableDev(cli[c].o)
       THEN ForgetDev(cli[c].o)
       ELSE UNCHANGED <<devs, groups, attrs, reserved>>
    /\ Goto(c, IF cli[c].cmd = "freedev" THEN "rmAptpl" ELSE "devs")
    /\ UNCHANGED <<hbas, luGps, linked, saved>>

RmdirDev(c) ==
    /\ At(c, "groups") /\ cli[c].groupsLeft = {}
    /\ IF RemovableDev(cli[c].o)
       THEN /\ ForgetDev(cli[c].o)
            /\ Goto(c, IF cli[c].cmd = "freedev" THEN "rmAptpl" ELSE "devs")
       ELSE /\ Goto(c, "err")
            /\ UNCHANGED <<devs, groups, attrs, reserved>>
    /\ UNCHANGED <<hbas, luGps, linked, saved>>

\* tcm_delete_aptpl_metadata: shutil.rmtree of a file raises OSError and removes nothing.
RmAptpl(c) ==
    /\ At(c, "rmAptpl")
    /\ Goto(c, IF aptpl[cli[c].s] # "absent" THEN "err" ELSE "rmMdDir")
    /\ UNCHANGED <<dirs, attrs, usage, saved>>

\* tcm_alua_delete_metadata_dir: os.rmdir, which refuses a directory with files.
RmMdDir(c) ==
    /\ At(c, "rmMdDir")
    /\ mdDir' = IF \A g \in Group : mdFile[<<cli[c].s, g>>] = None
                THEN mdDir \ {cli[c].s} ELSE mdDir
    /\ Goto(c, "ok")
    /\ UNCHANGED <<dirs, attrs, usage, mdFile, aptpl>>

RmdirHba(c) ==
    /\ At(c, "devs") /\ cli[c].devsLeft = {}
    /\ IF cli[c].h \in hbas /\ ObjectsOf(cli[c].h) = {}
       THEN /\ hbas' = hbas \ {cli[c].h}
            /\ Goto(c, IF cli[c].cmd = "delhba" THEN "ok" ELSE "hbas")
       ELSE /\ Goto(c, "err")
            /\ UNCHANGED hbas
    /\ UNCHANGED <<devs, groups, luGps, attrs, usage, saved>>

ListLuGroups(c) ==
    /\ At(c, "hbas") /\ cli[c].hbasLeft = {}
    /\ Become(c, [cli[c] EXCEPT !.pc = "luGps", !.luGpsLeft = luGps])
    /\ UNCHANGED <<dirs, attrs, usage, saved>>

RmdirLuGroup(c) ==
    /\ At(c, "luGps")
    /\ \E l \in cli[c].luGpsLeft :
         /\ luGps' = luGps \ {l}
         /\ Become(c, [cli[c] EXCEPT
              !.luGpsLeft = @ \ {l},
              !.pc = IF l \notin luGps THEN "err"
                        ELSE IF cli[c].cmd = "dellungp" THEN "ok" ELSE "luGps"])
    /\ UNCHANGED <<hbas, devs, groups, attrs, usage, saved>>

\* tcm_unload_modules: rmmod is refused while something is configured, and may be for the
\* sake of a fabric module that is in use.
UnloadModules(c) ==
    /\ At(c, "luGps") /\ cli[c].luGpsLeft = {}
    /\ \E refused \in BOOLEAN :
         /\ hbas # {} \/ luGps # {} => refused
         /\ Swallowed(c, refused, IF refused THEN "err" ELSE "ok")
    /\ UNCHANGED <<dirs, attrs, usage, saved>>

-----------------------------------------------------------------------------
(* The end of an invocation, and what happens around it *)

Exit(c) ==
    /\ cli[c].pc \in {"ok", "err"}
    /\ Become(c, Idle)
    /\ UNCHANGED <<dirs, attrs, usage, saved>>

\* A signal, or an error the tool has no cleanup for.
Killed(c) ==
    /\ cli[c].pc \notin {"idle", "ok", "err"}
    /\ Become(c, Idle)
    /\ UNCHANGED <<dirs, attrs, usage, saved>>

\* --setaluastate, or an initiator with SET TARGET PORT GROUPS.
ChangeAccess(x, state) ==
    /\ "access" \in Used
    /\ x \in groups
    /\ SetAccess(x, state)
    /\ Interfere
    /\ UNCHANGED <<dirs, active, serial, gpId, writeMd, usage, mdDir, aptpl>>

\* A fabric exports a storage object, or stops to.
Link(d) ==
    /\ "link" \in Used
    /\ d \in active \ linked
    /\ linked' = linked \cup {d}
    /\ Interfere
    /\ UNCHANGED <<dirs, attrs, reserved, saved>>

Unlink(d) ==
    /\ d \in linked
    /\ linked' = linked \ {d}
    /\ Interfere
    /\ UNCHANGED <<dirs, attrs, reserved, saved>>

\* An initiator registers with APTPL: the kernel writes the file.
Register(d) ==
    /\ "register" \in Used
    /\ d \in linked \ reserved
    /\ reserved' = reserved \cup {d}
    /\ aptpl' = [aptpl EXCEPT ![serial[d]] = "held"]
    /\ Interfere
    /\ UNCHANGED <<dirs, attrs, linked, mdDir, mdFile>>

\* The last registration goes: the file stays, with nothing in it to restore.
Deregister(d) ==
    /\ "deregister" \in Used
    /\ d \in linked \cap reserved
    /\ reserved' = reserved \ {d}
    /\ aptpl' = [aptpl EXCEPT ![serial[d]] = "void"]
    /\ Interfere
    /\ UNCHANGED <<dirs, attrs, linked, mdDir, mdFile>>

\* The machine goes down: what is in configfs is lost, what is in /var/target stays.
Reboot ==
    /\ "reboot" \in Used
    /\ hbas' = {} /\ devs' = {} /\ groups' = {} /\ luGps' = {}
    /\ active' = {} /\ serial' = [d \in Device |-> None]
    /\ gpId' = [x \in Gp |-> None] /\ access' = [x \in Gp |-> Optimized]
    /\ status' = [x \in Gp |-> NoStatus]
    /\ writeMd' = {} /\ linked' = {} /\ reserved' = {}
    /\ cli' = [c \in Cli |-> Idle]
    /\ UNCHANGED saved

Start(c) ==
    \/ StartCreate(c) \/ StartSetSerial(c) \/ StartProcessAptpl(c) \/ StartAddGroup(c)
    \/ StartAddGroupWithMd(c) \/ StartDelGroup(c) \/ StartAddLuGroup(c)
    \/ StartDelLuGroup(c) \/ StartFreeDev(c) \/ StartDelHba(c) \/ StartUnload(c)

Build(c) ==
    \/ MkdirHba(c) \/ MkdirDev(c) \/ PluginEnables(c) \/ PluginFails(c) \/ PluginRaises(c)
    \/ Rollback(c) \/ SetUnitSerial(c) \/ ProcessAptpl(c) \/ CheckMetadataDir(c)
    \/ MkdirSibling(c) \/ MkdirGroup(c) \/ WriteGroupId(c) \/ ProcessNoMetadata(c)
    \/ ProcessMetadata(c) \/ ProcessGone(c) \/ RestoreAccess(c) \/ RestoreStatus(c)
    \/ EnableWriteMd(c) \/ MkdirLuGroup(c)

TakeDown(c) ==
    \/ RmdirGroup(c) \/ RmMd(c) \/ ListDevs(c) \/ ListGroups(c) \/ RmdirDev(c) \/ RmAptpl(c)
    \/ RmMdDir(c) \/ RmdirHba(c) \/ ListLuGroups(c) \/ RmdirLuGroup(c) \/ UnloadModules(c)

Around ==
    \/ \E x \in Gp, state \in Access : ChangeAccess(x, state)
    \/ \E d \in Device : Link(d) \/ Unlink(d) \/ Register(d) \/ Deregister(d)
    \/ Reboot

Init ==
    /\ hbas = {} /\ devs = {} /\ groups = {} /\ luGps = {}
    /\ active = {} /\ serial = [d \in Device |-> None]
    /\ gpId = [x \in Gp |-> None] /\ access = [x \in Gp |-> Optimized]
    /\ status = [x \in Gp |-> NoStatus]
    /\ writeMd = {} /\ linked = {} /\ reserved = {}
    /\ mdDir = {} /\ mdFile = [f \in File |-> None]
    /\ aptpl = [k \in Key |-> "absent"]
    /\ cli = [c \in Cli |-> Idle]

Next ==
    \/ \E c \in Cli : Start(c) \/ Build(c) \/ TakeDown(c) \/ Exit(c) \/ Killed(c)
    \/ Around

Spec == Init /\ [][Next]_vars

-----------------------------------------------------------------------------
(* Types *)

\* Every variable holds the directories, attributes and process states it is meant to.
TypeOK ==
    /\ hbas \subseteq Hba /\ devs \subseteq Object /\ groups \subseteq Gp
    /\ luGps \subseteq LuGroup
    /\ active \subseteq Device /\ serial \in [Device -> Key]
    /\ gpId \in [Gp -> Id \cup {None}] /\ access \in [Gp -> Access]
    /\ status \in [Gp -> Status] /\ writeMd \subseteq Gp
    /\ linked \subseteq Device /\ reserved \subseteq Device
    /\ mdDir \subseteq Key /\ mdFile \in [File -> Saved \cup {None}]
    /\ aptpl \in [Key -> {"absent", "void", "held"}]
    /\ cli \in [Cli -> CliState]

(* What the tool is relied on for *)

\* Whatever failed, killed or racing invocations left behind (objects the plugin never
\* enabled, groups without identifier, the directory of a failed --addtgptgp), an undisturbed
\* --delhba or --unload gets through unless a fabric exports a storage object.  Only the
\* modules may still refuse to go, and then --unload has left nothing configured.
TeardownAloneSucceeds ==
    \A c \in Cli : cli[c].alone /\ cli[c].cmd \in {"delhba", "unload"} /\ At(c, "err") =>
      \/ linked # {}
      \/ cli[c].refused /\ hbas = {} /\ luGps = {}

\* What an undisturbed removal reports as done is done, over all its loops, whatever the
\* kernel refused on the way: no object, group or HBA it was to remove is left.
RemovedIsGone ==
    \A c \in Cli : cli[c].alone /\ At(c, "ok") =>
      CASE cli[c].cmd = "deltgptgp" -> <<cli[c].o, cli[c].g>> \notin groups
        [] cli[c].cmd = "freedev"   -> cli[c].o \notin devs
        [] cli[c].cmd = "delhba"    -> cli[c].h \notin hbas
        [] cli[c].cmd = "unload"    -> hbas = {} /\ luGps = {}
        [] OTHER                    -> TRUE

\* A storage object whose plugin raises is taken back: its name can be used again.
FailedCreateLeavesNoDev ==
    \A c \in Cli :
      cli[c].alone /\ cli[c].cmd \in {"createdev", "establishdev"} /\ At(c, "err")
      => cli[c].d \notin devs

\* "Now allow changes to ALUA target port group update the struct file metadata": a group
\* begins to write only when what it will overwrite is its own identifier and the access
\* state and status it has, as long as nobody interferes and the kernel refuses nothing of
\* what this invocation writes.
WriterStartsFromSaved ==
    [][\A c \in Cli : cli[c].alone /\ ~cli[c].refused /\ At(c, "writeMd") =>
         \A x \in writeMd' \ writeMd :
           mdFile[<<serial[x[1]], x[2]>>] \in
             {None, [id |-> gpId[x], access |-> access[x], status |-> status[x]]}]_vars

\* A storage object that gets its serial back gets the persistent reservations saved under it
\* back, over reboots and whatever else had the serial; an object that reports so and has
\* none was refused them by the kernel, which the tool swallows.
RestoresReservations ==
    \A c \in Cli :
      /\ cli[c].alone /\ cli[c].cmd = "setunitserialwithmd" /\ At(c, "ok")
      /\ serial[cli[c].d] = cli[c].s /\ aptpl[cli[c].s] = "held"
      => cli[c].d \in reserved \/ cli[c].refused

\* What is saved under /var/target outlives --delhba, --unload and a reboot: only the
\* explicit deletions may forget it, with any number of invocations at work.
OnlyDeletesForget ==
    [][\/ \E f \in File : mdFile[f] # None /\ mdFile'[f] = None
       \/ ~(mdDir \subseteq mdDir') \/ \E k \in Key : aptpl[k] # "absent" /\ aptpl'[k] = "absent"
       => \E c \in Cli : cli[c].cmd \in {"freedev", "deltgptgp"} /\ cli'[c] # cli[c]]_vars

\* The saved access states keep the promise of SavedState: only a group that is there writes
\* them, and none is forgotten under a group that is there.
Kept == INSTANCE SavedState
          WITH Port <- File, Value <- Saved, state <- mdFile,
               exists <- {<<serial[x[1]], x[2]>> : x \in groups}
ImplementsSavedState == Kept!Spec

\* "For explict tcm_node --freedev, delete any remaining PR APTPL and ALUA metadata" (the
\* comment in tcm_freevirtdev).
FreedIsForgotten ==
    \A c \in Cli : cli[c].alone /\ cli[c].cmd = "freedev" /\ cli[c].pc \in {"ok", "err"}
                   /\ cli[c].o \notin devs
                   => cli[c].s \notin mdDir /\ aptpl[cli[c].s] = "absent"

=============================================================================
