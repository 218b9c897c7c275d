--------------------------- MODULE TcmNode_proofs ---------------------------
(* Theorems about TcmNode, for every value of its constants. *)
EXTENDS TcmNode, TLAPS

-----------------------------------------------------------------------------
(* Process states *)

\* An idle process is a well-formed one.
LEMMA IdleType == Idle \in CliState
<1>1. /\ (CHOOSE h \in Hba : TRUE) \in Hba
      /\ (CHOOSE d \in Device : TRUE) \in Device
      /\ (CHOOSE f \in Saved : TRUE) \in Saved
      /\ (CHOOSE g \in Group : TRUE) \in Group
      /\ (CHOOSE id \in Id : TRUE) \in Id
  <2>1. Device # {}
    <3>1. PICK h \in Hba, n \in Name : TRUE
      BY SomeNames
    <3>2. <<h, n, "dev">> \in Device
      BY <3>1 DEF Device
    <3>. QED BY <3>2
  <2>2. Saved # {}
    <3>1. [id |-> None, access |-> Optimized, status |-> NoStatus] \in Saved
      BY SomeNames DEF Saved
    <3>. QED BY <3>1
  <2>. QED BY <2>1, <2>2, SomeNames
<1>. QED BY <1>1 DEF Idle, CliState, Stages, Key, Object

\* Starting an invocation only changes the processes.
LEMMA BeginType ==
    ASSUME TypeOK, NEW c \in Cli, NEW s \in CliState, Begin(c, s)
    PROVE  TypeOK'
<1> DEFINE alone == \A y \in Cli \ {c} : At(y, "idle")
<1>1. cli' \in [Cli -> CliState]
  <2>1. alone \in BOOLEAN
    OBVIOUS
  <2>2. [s EXCEPT !.alone = alone] \in CliState
    <3> HIDE DEF alone
    <3>. QED BY <2>1 DEF CliState
  <2>3. ASSUME NEW x \in Cli PROVE [cli[x] EXCEPT !.alone = FALSE] \in CliState
    BY DEF TypeOK, CliState
  <2>. QED BY <2>2, <2>3 DEF Begin
<1>. QED BY <1>1 DEF TypeOK, Begin, dirs, attrs, usage, saved

\* So does going on to another stage, ...
LEMMA GotoType ==
    ASSUME TypeOK, NEW c \in Cli, NEW pc \in Stages, Goto(c, pc)
    PROVE  cli' \in [Cli -> CliState]
BY DEF TypeOK, Goto, Become, CliState

\* ... with what the kernel made of a write or not, ...
LEMMA SwallowedType ==
    ASSUME TypeOK, NEW c \in Cli, NEW refused \in BOOLEAN, NEW pc \in Stages,
           Swallowed(c, refused, pc)
    PROVE  cli' \in [Cli -> CliState]
<1> DEFINE any == cli[c].refused \/ refused
<1>1. cli[c] \in CliState /\ any \in BOOLEAN
  BY DEF TypeOK
<1>2. cli' = [cli EXCEPT ![c] = [cli[c] EXCEPT !.pc = pc, !.refused = any]]
  BY DEF Swallowed, Become
<1> HIDE DEF any
<1>3. [cli[c] EXCEPT !.pc = pc, !.refused = any] \in CliState
  BY <1>1 DEF CliState
<1>. QED BY <1>2, <1>3 DEF TypeOK

\* ... the end of everybody's solitude, ...
LEMMA InterfereType ==
    ASSUME TypeOK, Interfere
    PROVE  cli' \in [Cli -> CliState]
<1>1. ASSUME NEW x \in Cli PROVE [cli[x] EXCEPT !.alone = FALSE] \in CliState
  <2>1. cli[x] \in CliState
    BY DEF TypeOK
  <2>. QED BY <2>1 DEF CliState
<1>. QED BY <1>1 DEF Interfere

\* ... and any step to a well-formed process.
LEMMA UpdateType ==
    ASSUME TypeOK, NEW c \in Cli, NEW s \in CliState, Become(c, s)
    PROVE  cli' \in [Cli -> CliState]
BY DEF TypeOK, Become

-----------------------------------------------------------------------------
(* Types *)

LEMMA StartType ==
    ASSUME TypeOK, NEW c \in Cli, Start(c)
    PROVE  TypeOK'
<1>a. /\ devs \subseteq Object /\ hbas \subseteq Hba /\ luGps \subseteq LuGroup
      /\ serial \in [Device -> Key] /\ groups \subseteq Gp
  BY DEF TypeOK
<1>b. /\ \A d \in Device : d \in Object /\ d[1] \in Hba
      /\ \A x \in Gp : x[1] \in Device /\ x[2] \in Group
  BY DEF Device, Object, Gp
<1>. USE IdleType
<1>1. CASE StartCreate(c)
  <2>1. PICK d \in Device \ devs, cmd \in {"createdev", "establishdev"} : Begin(c,
             [Idle EXCEPT !.cmd = cmd, !.d = d, !.pc = IF d[1] \in hbas THEN "mkDev" ELSE "mkHba"])
    BY <1>1 DEF StartCreate
  <2> DEFINE stage == IF d[1] \in hbas THEN "mkDev" ELSE "mkHba"
  <2>2. cmd \in Commands /\ d \in Device /\ stage \in Stages
    BY <1>a, <1>b, <2>1 DEF Stages, Commands
  <2>3. [Idle EXCEPT !.cmd = cmd, !.d = d, !.pc = stage] \in CliState
    <3> HIDE DEF stage
    <3>. QED BY <2>2 DEF CliState
  <2>. QED BY <2>1, <2>3, BeginType
<1>2. CASE StartSetSerial(c)
  <2>1. PICK d \in Device \cap devs, s \in Serial, cmd \in {"setunitserial",
             "setunitserialwithmd"} : Begin(c, [Idle EXCEPT !.cmd = cmd, !.pc = "serial", !.d = d,
             !.s = s])
    BY <1>2 DEF StartSetSerial
  <2>2. cmd \in Commands /\ "serial" \in Stages /\ d \in Device /\ s \in Key
    BY <1>a, <1>b, <2>1 DEF Stages, Commands, Key
  <2>3. [Idle EXCEPT !.cmd = cmd, !.pc = "serial", !.d = d, !.s = s] \in CliState
    BY <2>2 DEF CliState
  <2>. QED BY <2>1, <2>3, BeginType
<1>3. CASE StartProcessAptpl(c)
  <2>1. PICK d \in Device \cap devs : Begin(c, [Idle EXCEPT !.cmd = "praptpl", !.pc = "aptpl", !.d = d])
    BY <1>3 DEF StartProcessAptpl
  <2>2. "praptpl" \in Commands /\ "aptpl" \in Stages /\ d \in Device
    BY <1>a, <1>b, <2>1 DEF Stages, Commands
  <2>3. [Idle EXCEPT !.cmd = "praptpl", !.pc = "aptpl", !.d = d] \in CliState
    BY <2>2 DEF CliState
  <2>. QED BY <2>1, <2>3, BeginType
<1>4. CASE StartAddGroup(c)
  <2>1. PICK d \in Device \cap devs : Begin(c, [Idle EXCEPT !.cmd = "addtgptgp",
             !.pc = "mkSibling", !.d = d])
    BY <1>4 DEF StartAddGroup
  <2>2. "addtgptgp" \in Commands /\ "mkSibling" \in Stages /\ d \in Device
    BY <1>a, <1>b, <2>1 DEF Stages, Commands
  <2>3. [Idle EXCEPT !.cmd = "addtgptgp", !.pc = "mkSibling", !.d = d] \in CliState
    BY <2>2 DEF CliState
  <2>. QED BY <2>1, <2>3, BeginType
<1>5. CASE StartAddGroupWithMd(c)
  <2>1. PICK d \in Device \cap devs, g \in Group, id \in Id : Begin(c,
             [Idle EXCEPT !.cmd = "addtgptgpwithmd", !.d = d, !.g = g, !.id = id, !.pc =
             IF g = Default /\ id = DefaultId THEN "process" ELSE "mkGroup"])
    BY <1>5 DEF StartAddGroupWithMd
  <2> DEFINE stage == IF g = Default /\ id = DefaultId THEN "process" ELSE "mkGroup"
  <2>2. "addtgptgpwithmd" \in Commands /\ d \in Device /\ g \in Group /\ id \in Id /\ stage \in Stages
    BY <1>a, <1>b, <2>1 DEF Stages, Commands
  <2>3. [Idle EXCEPT !.cmd = "addtgptgpwithmd", !.d = d, !.g = g, !.id = id, !.pc = stage] \in CliState
    <3> HIDE DEF stage
    <3>. QED BY <2>2 DEF CliState
  <2>. QED BY <2>1, <2>3, BeginType
<1>6. CASE StartDelGroup(c)
  <2>1. PICK x \in groups : Begin(c, [Idle EXCEPT !.cmd = "deltgptgp", !.pc = "groups", !.o = x[1],
             !.s = serial[x[1]], !.g = x[2], !.groupsLeft = {x[2]}])
    BY <1>6 DEF StartDelGroup
  <2> DEFINE key == serial[x[1]]
  <2> DEFINE left == {x[2]}
  <2>2. "deltgptgp" \in Commands /\ "groups" \in Stages /\ x[1] \in Object /\ key \in Key
             /\ x[2] \in Group /\ left \in SUBSET Group
    BY <1>a, <1>b, <2>1 DEF Stages, Commands
  <2>3. [Idle EXCEPT !.cmd = "deltgptgp", !.pc = "groups", !.o = x[1], !.s = key, !.g = x[2],
             !.groupsLeft = left] \in CliState
    <3> HIDE DEF key, left
    <3>. QED BY <2>2 DEF CliState
  <2>. QED BY <2>1, <2>3, BeginType
<1>7. CASE StartAddLuGroup(c)
  <2>1. PICK l \in LuGroup \ luGps : Begin(c, [Idle EXCEPT !.cmd = "addlungp", !.pc = "mkLuGp",
             !.luGpsLeft = {l}])
    BY <1>7 DEF StartAddLuGroup
  <2> DEFINE left == {l}
  <2>2. "addlungp" \in Commands /\ "mkLuGp" \in Stages /\ left \in SUBSET LuGroup
    BY <1>a, <1>b, <2>1 DEF Stages, Commands
  <2>3. [Idle EXCEPT !.cmd = "addlungp", !.pc = "mkLuGp", !.luGpsLeft = left] \in CliState
    <3> HIDE DEF left
    <3>. QED BY <2>2 DEF CliState
  <2>. QED BY <2>1, <2>3, BeginType
<1>8. CASE StartDelLuGroup(c)
  <2>1. PICK l \in luGps : Begin(c, [Idle EXCEPT !.cmd = "dellungp", !.pc = "luGps", !.luGpsLeft = {l}])
    BY <1>8 DEF StartDelLuGroup
  <2> DEFINE left == {l}
  <2>2. "dellungp" \in Commands /\ "luGps" \in Stages /\ left \in SUBSET LuGroup
    BY <1>a, <1>b, <2>1 DEF Stages, Commands
  <2>3. [Idle EXCEPT !.cmd = "dellungp", !.pc = "luGps", !.luGpsLeft = left] \in CliState
    <3> HIDE DEF left
    <3>. QED BY <2>2 DEF CliState
  <2>. QED BY <2>1, <2>3, BeginType
<1>9. CASE StartFreeDev(c)
  <2>1. PICK d \in Device \cap devs : Begin(c, [Idle EXCEPT !.cmd = "freedev", !.pc = "devs",
             !.s = serial[d], !.devsLeft = {d}])
    BY <1>9 DEF StartFreeDev
  <2> DEFINE key == serial[d]
  <2> DEFINE left == {d}
  <2>2. "freedev" \in Commands /\ "devs" \in Stages /\ key \in Key /\ left \in SUBSET Object
    BY <1>a, <1>b, <2>1 DEF Stages, Commands
  <2>3. [Idle EXCEPT !.cmd = "freedev", !.pc = "devs", !.s = key, !.devsLeft = left] \in CliState
    <3> HIDE DEF key, left
    <3>. QED BY <2>2 DEF CliState
  <2>. QED BY <2>1, <2>3, BeginType
<1>10. CASE StartDelHba(c)
  <2>1. PICK h \in hbas : Begin(c, [Idle EXCEPT !.cmd = "delhba", !.pc = "devs", !.h = h,
             !.devsLeft = ObjectsOf(h)])
    BY <1>10 DEF StartDelHba
  <2> DEFINE left == ObjectsOf(h)
  <2>2. "delhba" \in Commands /\ "devs" \in Stages /\ h \in Hba /\ left \in SUBSET Object
    BY <1>a, <1>b, <2>1 DEF Stages, Commands, ObjectsOf
  <2>3. [Idle EXCEPT !.cmd = "delhba", !.pc = "devs", !.h = h, !.devsLeft = left] \in CliState
    <3> HIDE DEF left
    <3>. QED BY <2>2 DEF CliState
  <2>. QED BY <2>1, <2>3, BeginType
<1>11. CASE StartUnload(c)
  <2>1. Begin(c, [Idle EXCEPT !.cmd = "unload", !.pc = "hbas", !.hbasLeft = hbas])
    BY <1>11 DEF StartUnload
  <2>2. "unload" \in Commands /\ "hbas" \in Stages /\ hbas \in SUBSET Hba
    BY <1>a, <1>b, <2>1 DEF Stages, Commands
  <2>3. [Idle EXCEPT !.cmd = "unload", !.pc = "hbas", !.hbasLeft = hbas] \in CliState
    BY <2>2 DEF CliState
  <2>. QED BY <2>1, <2>3, BeginType
<1>. QED BY <1>1, <1>2, <1>3, <1>4, <1>5, <1>6, <1>7, <1>8, <1>9, <1>10, <1>11 DEF Start

\* Making or forgetting an object keeps the types of what it touches.
LEMMA NewDevType ==
    ASSUME TypeOK, NEW o \in Object, NewDev(o)
    PROVE  devs' \subseteq Object /\ groups' \subseteq Gp /\ gpId' \in [Gp -> Id \cup {None}]
BY SomeNames DEF TypeOK, NewDev

LEMMA ForgetDevType ==
    ASSUME TypeOK, NEW o \in Object, ForgetDev(o)
    PROVE  /\ devs' \subseteq Object /\ groups' \subseteq Gp /\ active' \subseteq Device
           /\ reserved' \subseteq Device /\ serial' \in [Device -> Key]
           /\ gpId' \in [Gp -> Id \cup {None}] /\ access' \in [Gp -> Access]
           /\ status' \in [Gp -> Status] /\ writeMd' \subseteq Gp
BY SomeNames DEF TypeOK, ForgetDev, Key

\* The kernel saves what a group has, if that group writes its metadata.
Saves(x) ==
    \/ mdFile' = mdFile
    \/ /\ x \in writeMd /\ serial[x[1]] \in mdDir
       /\ \E value \in Saved : mdFile' = [mdFile EXCEPT ![<<serial[x[1]], x[2]>>] = value]

\* That is what comes of a written access state ...
LEMMA SetAccessSaves ==
    ASSUME TypeOK, NEW x \in Gp, NEW state \in Access, SetAccess(x, state)
    PROVE  /\ access' = [access EXCEPT ![x] = state] /\ access' \in [Gp -> Access]
           /\ status' \in [Gp -> Status] /\ Saves(x)
<1>1. PICK st \in Status :
        /\ access' = [access EXCEPT ![x] = state]
        /\ status' = [status EXCEPT ![x] = st]
        /\ mdFile' = FilesWith(x, [id |-> gpId[x], access |-> state, status |-> st])
  BY DEF SetAccess
<1> DEFINE value == [id |-> gpId[x], access |-> state, status |-> st]
<1>2. value \in Saved
  BY DEF TypeOK, Saved
<1>3. mdFile' = FilesWith(x, value)
  BY <1>1
<1> HIDE DEF value
<1>4. Saves(x)
  BY <1>2, <1>3 DEF Saves, FilesWith
<1>. QED BY <1>1, <1>4 DEF TypeOK

\* ... and of a written status.
LEMMA SetStatusSaves ==
    ASSUME TypeOK, NEW x \in Gp, NEW st \in Status, SetStatus(x, st)
    PROVE  /\ status' = [status EXCEPT ![x] = st] /\ status' \in [Gp -> Status] /\ Saves(x)
<1> DEFINE value == [id |-> gpId[x], access |-> access[x], status |-> st]
<1>1. value \in Saved
  BY DEF TypeOK, Saved
<1>2. mdFile' = mdFile \/ mdFile' = FilesWith(x, value)
  BY DEF SetStatus
<1> HIDE DEF value
<1>3. Saves(x)
  BY <1>1, <1>2 DEF Saves, FilesWith
<1>. QED BY <1>3 DEF SetStatus, TypeOK

\* What is saved is never nothing.
LEMMA SavesType ==
    ASSUME TypeOK, NEW x \in Gp, Saves(x)
    PROVE  /\ mdFile' \in [File -> Saved \cup {None}]
           /\ \A f \in File : mdFile[f] # None => mdFile'[f] # None
<1>1. mdFile \in [File -> Saved \cup {None}] /\ None \notin Saved
  BY NoneIsNoValue DEF TypeOK
<1>. QED BY <1>1 DEF Saves

LEMMA BuildType ==
    ASSUME TypeOK, NEW c \in Cli, Build(c)
    PROVE  TypeOK'
<1>a. /\ cli[c] \in CliState
      /\ HbaOf(c) \in Hba /\ cli[c].d \in Device /\ cli[c].d \in Object
      /\ cli[c].g \in Group /\ cli[c].id \in Id
      /\ cli[c].s \in Key /\ cli[c].file \in Saved /\ cli[c].luGpsLeft \subseteq LuGroup
      /\ GpOf(c) \in Gp
  BY DEF TypeOK, CliState, Object, Device, HbaOf, GpOf, Gp
<1>b. ASSUME NEW pc \in Stages, Goto(c, pc) PROVE cli' \in [Cli -> CliState]
  BY <1>b, GotoType
<1>c. ASSUME NEW refused \in BOOLEAN, NEW pc \in Stages, Swallowed(c, refused, pc)
      PROVE  cli' \in [Cli -> CliState]
  BY <1>c, SwallowedType
<1>. USE DEF dirs, attrs, usage, saved
<1>1. CASE MkdirHba(c)
  BY <1>1, <1>a, <1>b DEF MkdirHba, TypeOK, Stages
<1>2. CASE MkdirDev(c)
  <2>1. cli' \in [Cli -> CliState]
    BY <1>2, <1>b DEF MkdirDev, Stages
  <2>2. devs' \subseteq Object /\ groups' \subseteq Gp /\ gpId' \in [Gp -> Id \cup {None}]
    BY <1>2, <1>a, NewDevType DEF MkdirDev, TypeOK
  <2>. QED BY <1>2, <2>1, <2>2 DEF MkdirDev, TypeOK
<1>3. CASE PluginEnables(c)
  BY <1>3, <1>a, <1>b DEF PluginEnables, AfterPlugin, TypeOK, Stages
<1>4. CASE PluginFails(c)
  BY <1>4, <1>a, <1>b DEF PluginFails, AfterPlugin, TypeOK, Stages
<1>5. CASE PluginRaises(c)
  BY <1>5, <1>a, <1>b DEF PluginRaises, TypeOK, Stages
<1>6. CASE Rollback(c)
  <2>1. cli' \in [Cli -> CliState]
    BY <1>6, <1>b DEF Rollback, Stages
  <2>2. CASE RemovableDev(cli[c].d)
    BY <1>6, <1>a, <2>1, <2>2, ForgetDevType DEF Rollback, TypeOK
  <2>3. CASE ~RemovableDev(cli[c].d)
    BY <1>6, <2>1, <2>3 DEF Rollback, TypeOK
  <2>. QED BY <2>2, <2>3
<1>7. CASE SetUnitSerial(c)
  <2>1. cli' \in [Cli -> CliState]
    BY <1>7, <1>b DEF SetUnitSerial, Stages
  <2>2. serial' \in [Device -> Key]
    BY <1>7, <1>a DEF SetUnitSerial, TypeOK, Fresh, Key
  <2>. QED BY <1>7, <2>1, <2>2 DEF SetUnitSerial, TypeOK
<1>8. CASE ProcessAptpl(c)
  <2>1. cli' \in [Cli -> CliState]
    BY <1>8, <1>b, <1>c DEF ProcessAptpl, Stages
  <2>2. reserved' \subseteq Device
    BY <1>8, <1>a DEF ProcessAptpl, TypeOK
  <2>. QED BY <1>8, <2>1, <2>2 DEF ProcessAptpl, TypeOK
<1>9. CASE CheckMetadataDir(c)
  BY <1>9, <1>a, <1>b DEF CheckMetadataDir, TypeOK, Stages
<1>10. CASE MkdirSibling(c)
  BY <1>10, <1>a, <1>b DEF MkdirSibling, TypeOK, Stages, Object, Sibling, Device
<1>11. CASE MkdirGroup(c)
  <2>1. cli' \in [Cli -> CliState]
    BY <1>11, <1>b DEF MkdirGroup, Stages
  <2>2. gpId' \in [Gp -> Id \cup {None}]
    BY <1>11, SomeNames DEF MkdirGroup, TypeOK
  <2>3. hbas' \subseteq Hba /\ devs' \subseteq Object /\ groups' \subseteq Gp
    BY <1>11, <1>a DEF MkdirGroup, TypeOK
  <2>. QED BY <1>11, <2>1, <2>2, <2>3 DEF MkdirGroup, TypeOK
<1>12. CASE WriteGroupId(c)
  <2>1. cli' \in [Cli -> CliState]
    BY <1>12, <1>b, <1>c DEF WriteGroupId, Stages
  <2>2. gpId' \in [Gp -> Id \cup {None}]
    BY <1>12, <1>a DEF WriteGroupId, TypeOK
  <2>. QED BY <1>12, <2>1, <2>2 DEF WriteGroupId, TypeOK
<1>13. CASE ProcessNoMetadata(c)
  BY <1>13, <1>b DEF ProcessNoMetadata, TypeOK, Stages
<1>14. CASE ProcessMetadata(c)
  <2> DEFINE stage == IF FileOf(c).id = cli[c].id THEN "restore" ELSE "err"
  <2>1. FileOf(c) \in Saved /\ stage \in Stages
    BY <1>14, <1>a DEF ProcessMetadata, FileOf, TypeOK, File, Stages
  <2>2. [cli[c] EXCEPT !.file = FileOf(c), !.pc = stage] \in CliState
    <3> HIDE DEF stage
    <3>. QED BY <1>a, <2>1 DEF CliState
  <2>3. cli' \in [Cli -> CliState]
    BY <1>14, <2>2, UpdateType DEF ProcessMetadata
  <2>. QED BY <1>14, <2>3 DEF ProcessMetadata, TypeOK
<1>15. CASE ProcessGone(c)
  BY <1>15, <1>a, <1>b DEF ProcessGone, TypeOK, Stages
<1>16. CASE RestoreAccess(c)
  <2>1. cli' \in [Cli -> CliState]
    BY <1>16, <1>b, <1>c DEF RestoreAccess, Stages
  <2>2. cli[c].file.access \in Access
    BY <1>a DEF Saved
  <2>3. /\ access' \in [Gp -> Access] /\ status' \in [Gp -> Status]
        /\ mdFile' \in [File -> Saved \cup {None}]
    BY <1>16, <1>a, <2>2, SetAccessSaves, SavesType DEF RestoreAccess, TypeOK
  <2>. QED BY <1>16, <2>1, <2>3 DEF RestoreAccess, TypeOK
<1>17. CASE RestoreStatus(c)
  <2>1. cli' \in [Cli -> CliState]
    BY <1>17, <1>b, <1>c DEF RestoreStatus, Stages
  <2>2. cli[c].file.status \in Status
    BY <1>a DEF Saved
  <2>3. status' \in [Gp -> Status] /\ mdFile' \in [File -> Saved \cup {None}]
    BY <1>17, <1>a, <2>2, SetStatusSaves, SavesType DEF RestoreStatus, TypeOK
  <2>. QED BY <1>17, <2>1, <2>3 DEF RestoreStatus, TypeOK
<1>18. CASE EnableWriteMd(c)
  <2>1. cli' \in [Cli -> CliState]
    BY <1>18, <1>b, <1>c DEF EnableWriteMd, Stages
  <2>2. writeMd' \subseteq Gp
    BY <1>18, <1>a DEF EnableWriteMd, TypeOK
  <2>. QED BY <1>18, <2>1, <2>2 DEF EnableWriteMd, TypeOK
<1>19. CASE MkdirLuGroup(c)
  BY <1>19, <1>a, <1>b DEF MkdirLuGroup, TypeOK, Stages
<1>. QED BY <1>1, <1>2, <1>3, <1>4, <1>5, <1>6, <1>7, <1>8, <1>9, <1>10, <1>11, <1>12, <1>13,
            <1>14, <1>15, <1>16, <1>17, <1>18, <1>19 DEF Build

LEMMA TakeDownType ==
    ASSUME TypeOK, NEW c \in Cli, TakeDown(c)
    PROVE  TypeOK'
<1>a. /\ cli[c] \in CliState
      /\ cli[c].h \in Hba /\ cli[c].o \in Object
      /\ cli[c].hbasLeft \subseteq Hba /\ cli[c].devsLeft \subseteq Object
      /\ cli[c].groupsLeft \subseteq Group /\ cli[c].luGpsLeft \subseteq LuGroup
  BY DEF TypeOK, CliState
<1>b. ASSUME NEW pc \in Stages, Goto(c, pc) PROVE cli' \in [Cli -> CliState]
  BY <1>b, GotoType
<1>. USE DEF dirs, attrs, usage, saved
<1>1. CASE RmdirGroup(c)
  <2>1. PICK g \in cli[c].groupsLeft :
          LET x == <<cli[c].o, g>> IN
          IF RemovableGroup(x)
          THEN /\ groups' = groups \ {x}
               /\ gpId' = [gpId EXCEPT ![x] = None]
               /\ access' = [access EXCEPT ![x] = Optimized]
               /\ status' = [status EXCEPT ![x] = NoStatus]
               /\ writeMd' = writeMd \ {x}
               /\ Become(c, [cli[c] EXCEPT
                    !.groupsLeft = cli[c].groupsLeft \ {g},
                    !.pc = IF cli[c].cmd = "deltgptgp" THEN "rmMd" ELSE "groups"])
          ELSE /\ Goto(c, "err")
               /\ UNCHANGED <<groups, gpId, access, status, writeMd>>
    BY <1>1 DEF RmdirGroup
  <2>2. CASE RemovableGroup(<<cli[c].o, g>>)
    <3> DEFINE left == cli[c].groupsLeft \ {g}
    <3> DEFINE stage == IF cli[c].cmd = "deltgptgp" THEN "rmMd" ELSE "groups"
    <3>1. left \in SUBSET Group /\ stage \in Stages
      BY <1>a DEF Stages
    <3>2. [cli[c] EXCEPT !.groupsLeft = left, !.pc = stage] \in CliState
      <4> HIDE DEF left, stage
      <4>. QED BY <1>a, <3>1 DEF CliState
    <3>3. cli' \in [Cli -> CliState]
      BY <2>1, <2>2, <3>2, UpdateType
    <3>. QED BY <1>1, <2>1, <2>2, <3>3, SomeNames DEF RmdirGroup, TypeOK
  <2>3. CASE ~RemovableGroup(<<cli[c].o, g>>)
    <3>1. cli' \in [Cli -> CliState]
      BY <2>1, <2>3, <1>b DEF Stages
    <3>. QED BY <1>1, <2>1, <2>3, <3>1 DEF RmdirGroup, TypeOK
  <2>. QED BY <2>2, <2>3
<1>2. CASE RmMd(c)
  BY <1>2, <1>b DEF RmMd, TypeOK, Stages
<1>3. CASE ListDevs(c)
  <2>1. PICK h \in cli[c].hbasLeft :
          Become(c, [cli[c] EXCEPT
            !.pc = IF h \in hbas THEN "devs" ELSE "err",
            !.h = h,
            !.hbasLeft = cli[c].hbasLeft \ {h},
            !.devsLeft = ObjectsOf(h)])
    BY <1>3 DEF ListDevs
  <2> DEFINE stage == IF h \in hbas THEN "devs" ELSE "err"
  <2> DEFINE left == cli[c].hbasLeft \ {h}
  <2>2. stage \in Stages /\ h \in Hba /\ left \in SUBSET Hba /\ ObjectsOf(h) \in SUBSET Object
    BY <1>a, <2>1 DEF Stages, ObjectsOf, TypeOK
  <2>3. [cli[c] EXCEPT !.pc = stage, !.h = h, !.hbasLeft = left, !.devsLeft = ObjectsOf(h)] \in CliState
    <3> HIDE DEF stage, left
    <3>. QED BY <1>a, <2>2 DEF CliState
  <2>4. cli' \in [Cli -> CliState]
    BY <2>1, <2>3, UpdateType
  <2>. QED BY <1>3, <2>4 DEF ListDevs, TypeOK
<1>4. CASE ListGroups(c)
  <2>1. PICK o \in cli[c].devsLeft :
          Become(c, [cli[c] EXCEPT
            !.pc = IF o \in devs THEN "groups" ELSE "err",
            !.o = o,
            !.devsLeft = cli[c].devsLeft \ {o},
            !.groupsLeft = GroupsOf(o) \ {Default}])
    BY <1>4 DEF ListGroups
  <2> DEFINE stage == IF o \in devs THEN "groups" ELSE "err"
  <2> DEFINE left == cli[c].devsLeft \ {o}
  <2> DEFINE gps == GroupsOf(o) \ {Default}
  <2>2. stage \in Stages /\ o \in Object /\ left \in SUBSET Object /\ gps \in SUBSET Group
    BY <1>a, <2>1 DEF Stages, GroupsOf
  <2>3. [cli[c] EXCEPT !.pc = stage, !.o = o, !.devsLeft = left, !.groupsLeft = gps] \in CliState
    <3> HIDE DEF stage, left, gps
    <3>. QED BY <1>a, <2>2 DEF CliState
  <2>4. cli' \in [Cli -> CliState]
    BY <2>1, <2>3, UpdateType
  <2>. QED BY <1>4, <2>4 DEF ListGroups, TypeOK
<1>5. CASE RmdirDev(c)
  <2>1. cli' \in [Cli -> CliState]
    BY <1>5, <1>b DEF RmdirDev, Stages
  <2>2. CASE RemovableDev(cli[c].o)
    BY <1>5, <1>a, <2>1, <2>2, ForgetDevType DEF RmdirDev, TypeOK
  <2>3. CASE ~RemovableDev(cli[c].o)
    BY <1>5, <2>1, <2>3 DEF RmdirDev, TypeOK
  <2>. QED BY <2>2, <2>3
<1>6. CASE RmAptpl(c)
  BY <1>6, <1>b DEF RmAptpl, TypeOK, Stages
<1>7. CASE RmMdDir(c)
  BY <1>7, <1>b DEF RmMdDir, TypeOK, Stages
<1>8. CASE RmdirHba(c)
  BY <1>8, <1>b DEF RmdirHba, TypeOK, Stages
<1>9. CASE ListLuGroups(c)
  <2>1. [cli[c] EXCEPT !.pc = "luGps", !.luGpsLeft = luGps] \in CliState
    BY <1>a DEF CliState, Stages, TypeOK
  <2>2. cli' \in [Cli -> CliState]
    BY <1>9, <2>1, UpdateType DEF ListLuGroups
  <2>. QED BY <1>9, <2>2 DEF ListLuGroups, TypeOK
<1>10. CASE RmdirLuGroup(c)
  <2>1. PICK l \in cli[c].luGpsLeft :
          Become(c, [cli[c] EXCEPT
            !.luGpsLeft = cli[c].luGpsLeft \ {l},
            !.pc = IF l \notin luGps THEN "err"
                      ELSE IF cli[c].cmd = "dellungp" THEN "ok" ELSE "luGps"])
    BY <1>10 DEF RmdirLuGroup
  <2> DEFINE left == cli[c].luGpsLeft \ {l}
  <2> DEFINE stage == IF l \notin luGps THEN "err"
                      ELSE IF cli[c].cmd = "dellungp" THEN "ok" ELSE "luGps"
  <2>2. left \in SUBSET LuGroup /\ stage \in Stages
    BY <1>a DEF Stages
  <2>3. [cli[c] EXCEPT !.luGpsLeft = left, !.pc = stage] \in CliState
    <3> HIDE DEF left, stage
    <3>. QED BY <1>a, <2>2 DEF CliState
  <2>4. cli' \in [Cli -> CliState]
    BY <2>1, <2>3, UpdateType
  <2>. QED BY <1>10, <2>4 DEF RmdirLuGroup, TypeOK
<1>11. CASE UnloadModules(c)
  <2>1. cli' \in [Cli -> CliState]
    BY <1>11, SwallowedType DEF UnloadModules, Stages
  <2>. QED BY <1>11, <2>1 DEF UnloadModules, TypeOK
<1>. QED BY <1>1, <1>2, <1>3, <1>4, <1>5, <1>6, <1>7, <1>8, <1>9, <1>10, <1>11 DEF TakeDown

\* Every step keeps the types.
LEMMA StepType == TypeOK /\ [Next]_vars => TypeOK'
<1>. SUFFICES ASSUME TypeOK, [Next]_vars PROVE TypeOK'
  OBVIOUS
<1>1. ASSUME NEW c \in Cli, Start(c) PROVE TypeOK'
  BY <1>1, StartType
<1>2. ASSUME NEW c \in Cli, Build(c) PROVE TypeOK'
  BY <1>2, BuildType
<1>3. ASSUME NEW c \in Cli, TakeDown(c) PROVE TypeOK'
  BY <1>3, TakeDownType
<1>4. ASSUME NEW c \in Cli, Exit(c) \/ Killed(c) PROVE TypeOK'
  BY <1>4, IdleType, UpdateType DEF Exit, Killed, TypeOK, dirs, attrs, usage, saved
<1>5. ASSUME Around PROVE TypeOK'
  <2>1. ASSUME Interfere PROVE cli' \in [Cli -> CliState]
    BY <2>1, InterfereType
  <2>. USE DEF dirs, attrs, usage, saved
  <2>2. ASSUME NEW x \in Gp, NEW state \in Access, ChangeAccess(x, state) PROVE TypeOK'
    BY <2>1, <2>2, SetAccessSaves, SavesType DEF ChangeAccess, TypeOK
  <2>3. ASSUME NEW d \in Device, Link(d) \/ Unlink(d) \/ Register(d) \/ Deregister(d)
        PROVE  TypeOK'
    BY <2>1, <2>3 DEF Link, Unlink, Register, Deregister, TypeOK
  <2>4. CASE Reboot
    BY <2>4, IdleType, SomeNames DEF Reboot, TypeOK, Key
  <2>. QED BY <1>5, <2>2, <2>3, <2>4 DEF Around
<1>6. CASE UNCHANGED vars
  BY <1>6 DEF vars, dirs, attrs, usage, saved, TypeOK
<1>. QED BY <1>1, <1>2, <1>3, <1>4, <1>5, <1>6 DEF Next

\* The variables of tcm_node keep their types.
THEOREM TypeCorrect == Spec => []TypeOK
<1>1. Init => TypeOK
  BY IdleType, SomeNames DEF Init, TypeOK, Key
<1>. QED BY <1>1, StepType, PTL DEF Spec

-----------------------------------------------------------------------------
(* The tree *)

\* What is needed of the tree: directories and their parents, ...
ParentsOK ==
    /\ \A o \in devs : o[1] \in hbas
    /\ \A x \in groups : x[1] \in devs

\* ... attributes and users and the object they belong to, ...
OwnersOK ==
    /\ linked \subseteq active /\ active \subseteq devs /\ reserved \subseteq devs
    /\ writeMd \subseteq groups
    /\ \A d \in Device : serial[d] # None => d \in devs
    /\ \A x \in Gp : gpId[x] # None => x \in groups

\* ... saved files and their directory.
FilesOK == \A f \in File : mdFile[f] # None => f[1] \in mdDir

TreeOK == ParentsOK /\ OwnersOK /\ FilesOK

\* Only the directories, attributes, users and files matter to TreeOK.
LEMMA TreeStutter ==
    ASSUME TreeOK, UNCHANGED <<dirs, attrs, usage, saved>>
    PROVE  TreeOK'
BY DEF TreeOK, ParentsOK, OwnersOK, FilesOK, dirs, attrs, usage, saved

\* Forgetting an unused object takes everything below it along.
LEMMA ForgetDevTree ==
    ASSUME TypeOK, TreeOK, NEW o \in Object, RemovableDev(o), ForgetDev(o),
           UNCHANGED <<hbas, linked, saved>>
    PROVE  TreeOK'
<1>. USE DEF TreeOK, RemovableDev, ForgetDev, TypeOK, saved
<1>1. ParentsOK'
  BY DEF ParentsOK
<1>2. OwnersOK'
  BY DEF OwnersOK
<1>3. FilesOK'
  BY DEF FilesOK
<1>. QED BY <1>1, <1>2, <1>3

\* What is saved has a directory to be saved in.
LEMMA SavesTree ==
    ASSUME TypeOK, TreeOK, NEW x \in Gp, Saves(x),
           UNCHANGED <<dirs, active, serial, gpId, writeMd, usage, mdDir>>
    PROVE  TreeOK'
<1>1. ParentsOK' /\ OwnersOK'
  BY DEF TreeOK, ParentsOK, OwnersOK, dirs, usage
<1>2. FilesOK'
  <2> DEFINE key == <<serial[x[1]], x[2]>>
  <2>1. \A f \in File : f # key => mdFile'[f] = mdFile[f]
    BY DEF Saves, TypeOK
  <2>2. key[1] \in mdDir \/ mdFile' = mdFile
    BY DEF Saves
  <2>3. \A f \in File : f = key => f[1] = key[1]
    OBVIOUS
  <2> HIDE DEF key
  <2>. QED BY <2>1, <2>2, <2>3 DEF TreeOK, FilesOK
<1>. QED BY <1>1, <1>2 DEF TreeOK

\* Building: whatever is made, enabled or set belongs to an object that is there.
LEMMA BuildTree ==
    ASSUME TypeOK, TreeOK, NEW c \in Cli, Build(c)
    PROVE  TreeOK'
<1>. USE DEF TreeOK, ParentsOK, OwnersOK, FilesOK, dirs, attrs, usage, saved
<1>a. /\ cli[c].d \in Device /\ cli[c].d \in Object /\ HbaOf(c) = cli[c].d[1]
      /\ GpOf(c) \in Gp /\ GpOf(c)[1] = cli[c].d /\ cli[c].file \in Saved
  BY DEF TypeOK, CliState, Object, HbaOf, GpOf, Gp
<1>1. CASE MkdirHba(c)
  BY <1>1 DEF MkdirHba
<1>2. CASE MkdirDev(c)
  BY <1>a, <1>2 DEF MkdirDev, NewDev, TypeOK
<1>3. CASE PluginEnables(c)
  BY <1>3 DEF PluginEnables
<1>4. CASE \/ PluginFails(c) \/ PluginRaises(c) \/ ProcessNoMetadata(c) \/ ProcessMetadata(c)
           \/ ProcessGone(c)
  BY <1>4, TreeStutter DEF PluginFails, PluginRaises, ProcessNoMetadata, ProcessMetadata,
     ProcessGone
<1>5. CASE Rollback(c)
  <2>1. CASE RemovableDev(cli[c].d)
    BY <1>a, <1>5, <2>1, ForgetDevTree DEF Rollback
  <2>2. CASE ~RemovableDev(cli[c].d)
    BY <1>5, <2>2 DEF Rollback
  <2>. QED BY <2>1, <2>2
<1>6. CASE SetUnitSerial(c)
  BY <1>a, <1>6 DEF SetUnitSerial, TypeOK
<1>7. CASE ProcessAptpl(c)
  BY <1>7 DEF ProcessAptpl
<1>8. CASE CheckMetadataDir(c)
  BY <1>8 DEF CheckMetadataDir
<1>9. CASE MkdirSibling(c)
  BY <1>9 DEF MkdirSibling
<1>10. CASE MkdirGroup(c)
  <2>1. /\ hbas \subseteq hbas' /\ devs \subseteq devs' /\ groups \subseteq groups'
        /\ UNCHANGED <<active, serial, writeMd, usage, saved>>
    BY <1>10 DEF MkdirGroup
  <2>2. \A o \in devs' : o \in devs \/ (o = cli[c].d /\ HbaOf(c) \in hbas')
    BY <1>10 DEF MkdirGroup
  <2>. QED BY <1>a, <1>10, <2>1, <2>2 DEF MkdirGroup, TypeOK
<1>11. CASE WriteGroupId(c)
  BY <1>a, <1>11 DEF WriteGroupId, TypeOK
<1>12. CASE RestoreAccess(c)
  <2>1. cli[c].file.access \in Access
    BY <1>a DEF Saved
  <2>2. Saves(GpOf(c))
    BY <1>a, <1>12, <2>1, SetAccessSaves DEF RestoreAccess, Saves
  <2>. QED BY <1>a, <1>12, <2>2, SavesTree DEF RestoreAccess
<1>13. CASE RestoreStatus(c)
  <2>1. cli[c].file.status \in Status
    BY <1>a DEF Saved
  <2>2. Saves(GpOf(c))
    BY <1>a, <1>13, <2>1, SetStatusSaves DEF RestoreStatus, Saves
  <2>. QED BY <1>a, <1>13, <2>2, SavesTree DEF RestoreStatus
<1>14. CASE EnableWriteMd(c)
  BY <1>14 DEF EnableWriteMd
<1>15. CASE MkdirLuGroup(c)
  BY <1>15 DEF MkdirLuGroup
<1>. QED BY <1>1, <1>2, <1>3, <1>4, <1>5, <1>6, <1>7, <1>8, <1>9, <1>10, <1>11, <1>12, <1>13,
            <1>14, <1>15 DEF Build

\* Taking down: a directory goes only when nothing holds it.
LEMMA TakeDownTree ==
    ASSUME TypeOK, TreeOK, NEW c \in Cli, TakeDown(c)
    PROVE  TreeOK'
<1>. USE DEF TreeOK, ParentsOK, OwnersOK, FilesOK, dirs, attrs, usage, saved
<1>a. cli[c].o \in Object
  BY DEF TypeOK, CliState
<1>1. CASE RmdirGroup(c)
  <2>1. PICK g \in cli[c].groupsLeft :
          LET x == <<cli[c].o, g>> IN
          IF RemovableGroup(x)
          THEN /\ groups' = groups \ {x}
               /\ gpId' = [gpId EXCEPT ![x] = None]
               /\ access' = [access EXCEPT ![x] = Optimized]
               /\ status' = [status EXCEPT ![x] = NoStatus]
               /\ writeMd' = writeMd \ {x}
               /\ Become(c, [cli[c] EXCEPT
                    !.groupsLeft = cli[c].groupsLeft \ {g},
                    !.pc = IF cli[c].cmd = "deltgptgp" THEN "rmMd" ELSE "groups"])
          ELSE /\ Goto(c, "err")
               /\ UNCHANGED <<groups, gpId, access, status, writeMd>>
    BY <1>1 DEF RmdirGroup
  <2>2. UNCHANGED <<hbas, devs, active, serial, usage, saved>>
    BY <1>1 DEF RmdirGroup
  <2> DEFINE x == <<cli[c].o, g>>
  <2>3. CASE RemovableGroup(x)
    <3>1. /\ groups' = groups \ {x} /\ writeMd' = writeMd \ {x}
          /\ gpId' = [gpId EXCEPT ![x] = None]
      BY <2>1, <2>3
    <3> HIDE DEF x
    <3>. QED BY <2>2, <3>1 DEF TypeOK
  <2>4. CASE ~RemovableGroup(x)
    BY <2>1, <2>2, <2>4
  <2>. QED BY <2>3, <2>4
<1>2. CASE \/ RmMd(c) \/ ListDevs(c) \/ ListGroups(c) \/ RmAptpl(c) \/ ListLuGroups(c)
           \/ UnloadModules(c)
  BY <1>2, TreeStutter DEF RmMd, ListDevs, ListGroups, RmAptpl, ListLuGroups, UnloadModules
<1>3. CASE RmdirDev(c)
  <2>1. CASE RemovableDev(cli[c].o)
    BY <1>a, <1>3, <2>1, ForgetDevTree DEF RmdirDev
  <2>2. CASE ~RemovableDev(cli[c].o)
    BY <1>3, <2>2 DEF RmdirDev
  <2>. QED BY <2>1, <2>2
<1>4. CASE RmMdDir(c)
  BY <1>4 DEF RmMdDir, TypeOK, File
<1>5. CASE RmdirHba(c)
  BY <1>5 DEF RmdirHba, ObjectsOf
<1>6. CASE RmdirLuGroup(c)
  BY <1>6 DEF RmdirLuGroup
<1>. QED BY <1>1, <1>2, <1>3, <1>4, <1>5, <1>6 DEF TakeDown

\* Every step keeps the tree whole.
LEMMA StepTree == TypeOK /\ TreeOK /\ [Next]_vars => TreeOK'
<1>. SUFFICES ASSUME TypeOK, TreeOK, [Next]_vars PROVE TreeOK'
  OBVIOUS
<1>1. ASSUME NEW c \in Cli, Start(c) \/ Exit(c) \/ Killed(c) PROVE TreeOK'
  BY <1>1, TreeStutter DEF Start, Begin, Exit, Killed, StartCreate, StartSetSerial,
     StartProcessAptpl, StartAddGroup, StartAddGroupWithMd, StartDelGroup, StartAddLuGroup,
     StartDelLuGroup, StartFreeDev, StartDelHba, StartUnload
<1>2. ASSUME NEW c \in Cli, Build(c) PROVE TreeOK'
  BY <1>2, BuildTree
<1>3. ASSUME NEW c \in Cli, TakeDown(c) PROVE TreeOK'
  BY <1>3, TakeDownTree
<1>4. ASSUME Around PROVE TreeOK'
  <2>1. ASSUME NEW x \in Gp, NEW state \in Access, ChangeAccess(x, state) PROVE TreeOK'
    BY <2>1, SetAccessSaves, SavesTree DEF ChangeAccess
  <2>. USE DEF TypeOK, TreeOK, ParentsOK, OwnersOK, FilesOK, dirs, attrs, usage, saved
  <2>2. ASSUME NEW d \in Device, Link(d) \/ Unlink(d) \/ Register(d) \/ Deregister(d)
        PROVE  TreeOK'
    BY <2>2 DEF Link, Unlink, Register, Deregister
  <2>3. CASE Reboot
    BY <2>3 DEF Reboot
  <2>. QED BY <1>4, <2>1, <2>2, <2>3 DEF Around
<1>5. CASE UNCHANGED vars
  BY <1>5, TreeStutter DEF vars
<1>. QED BY <1>1, <1>2, <1>3, <1>4, <1>5 DEF Next

\* The kernel keeps the tree whole: no directory without parent, nothing enabled, exported,
\* set or writing without its object, no file without directory.
LEMMA TreeStaysWhole == Spec => []TreeOK
<1>1. Init => TypeOK /\ TreeOK
  BY IdleType, SomeNames
     DEF Init, TypeOK, Key, TreeOK, ParentsOK, OwnersOK, FilesOK
<1>2. TypeOK /\ TreeOK /\ [Next]_vars => (TypeOK /\ TreeOK)'
  BY StepType, StepTree
<1>. QED BY <1>1, <1>2, PTL DEF Spec

-----------------------------------------------------------------------------
(* What one invocation of tcm_node does by itself: which commands go through which stages,  *)
(* and what the tree looks like at each stage of an invocation that nothing else disturbs.  *)

\* The commands that make a storage object, that take all objects of an HBA away, that take
\* one away, and those that set its serial.
Making  == {"createdev", "establishdev"}
Loops   == {"delhba", "unload"}
Freeing == Loops \cup {"freedev"}
Serials == {"createdev", "setunitserial", "setunitserialwithmd"}

\* The stages of each command, and the one name a single removal still has to take.
Staged(s) ==
    /\ s.pc = "idle" => ~s.alone
    /\ s.pc \in {"mkHba", "mkDev", "plugin", "rollback"} => s.cmd \in Making
    /\ s.pc = "serial" => s.cmd \in Serials
    /\ s.pc = "aptpl" => s.cmd \in {"setunitserialwithmd", "praptpl"}
    /\ s.pc = "mdDir" => s.cmd \in Serials \ {"setunitserial"}
    /\ s.pc = "mkSibling" => s.cmd = "addtgptgp"
    /\ s.pc \in {"mkGroup", "id", "process", "restore", "status", "writeMd"} =>
         s.cmd = "addtgptgpwithmd"
    /\ s.pc = "id" => s.g # Default
    /\ s.pc = "mkLuGp" => s.cmd = "addlungp"
    /\ s.pc = "hbas" => s.cmd = "unload"
    /\ s.pc = "devs" => \/ s.cmd \in Loops
                        \/ s.cmd = "freedev" /\ s.devsLeft # {}
    /\ s.pc = "groups" => \/ s.cmd \in Freeing
                          \/ s.cmd = "deltgptgp" /\ s.groupsLeft # {}
    /\ s.pc = "luGps" => \/ s.cmd = "unload"
                         \/ s.cmd = "dellungp" /\ s.luGpsLeft # {}
    /\ s.pc = "rmMd" => s.cmd = "deltgptgp"
    /\ s.pc \in {"rmAptpl", "rmMdDir"} => s.cmd = "freedev"

\* However the invocations interleave, each keeps to the stages of its command.
StagesOK == \A c \in Cli : Staged(cli[c])

\* An invocation that has been alone since it started still is.
SolitudeOK == \A c \in Cli : cli[c].alone => \A x \in Cli \ {c} : At(x, "idle")

\* The default group of a storage object stays with it, and so does its identifier.
DefaultsOK ==
    \A x \in Gp : x[1] \in devs /\ x[2] = Default => x \in groups /\ gpId[x] = DefaultId

\* Undisturbed, ... the loop over the HBAs: what is left of the snapshot is all there is, ...
HbaLevel(s) ==
    /\ s.pc \in {"devs", "groups"} /\ s.cmd \in Loops => s.h \in hbas
    /\ s.cmd = "unload" =>
         /\ s.pc = "hbas" => hbas = s.hbasLeft
         /\ s.pc \in {"devs", "groups"} => hbas = s.hbasLeft \cup {s.h} /\ s.h \notin s.hbasLeft
         /\ s.pc = "luGps" => hbas = {} /\ luGps = s.luGpsLeft

\* ... that over the storage objects of an HBA, with the groups of one of them, ...
DevLevel(s) ==
    s.cmd \in Loops =>
      /\ s.pc = "devs" => \A o \in Object : o \in devs /\ o[1] = s.h <=> o \in s.devsLeft
      /\ s.pc = "groups" =>
           /\ \A o \in Object : o \in devs /\ o[1] = s.h <=> o \in s.devsLeft \cup {s.o}
           /\ s.o \notin s.devsLeft
           /\ \A g \in Group : <<s.o, g>> \in groups /\ g # Default <=> g \in s.groupsLeft

\* ... refused only a storage object that a fabric exports, or at the very end the modules.
NotRefused(s) ==
    s.cmd \in Loops /\ s.pc = "err" =>
      linked # {} \/ (s.refused /\ hbas = {} /\ luGps = {})

\* What was to be removed is gone as soon as only the saved files of it are left to look at.
DoneLevel(s) ==
    /\ s.cmd = "deltgptgp" =>
         /\ s.pc = "groups" => s.groupsLeft = {s.g}
         /\ s.pc \in {"rmMd", "ok"} => <<s.o, s.g>> \notin groups
    /\ s.cmd = "freedev" /\ s.pc \in {"rmAptpl", "rmMdDir", "ok"} => s.o \notin devs
    /\ s.cmd = "delhba" /\ s.pc = "ok" => s.h \notin hbas
    /\ s.cmd = "unload" /\ s.pc = "ok" => hbas = {} /\ luGps = {}

\* A storage object that is being made can be taken back until the plugin is through.
MakeLevel(s) ==
    s.cmd \in Making =>
      /\ s.pc \in {"mkHba", "mkDev", "err"} => s.d \notin devs
      /\ s.pc \in {"plugin", "rollback"} => RemovableDev(s.d)
      /\ s.pc \in {"serial", "mdDir"} => s.d \in devs

\* Reservations saved under the serial are those of the object, or were refused.
PrLevel(s) ==
    s.cmd = "setunitserialwithmd" /\ s.pc \in {"mdDir", "ok"} =>
      (aptpl[serial[s.d]] = "held" => s.d \in reserved \/ s.refused)

\* As long as the kernel refuses nothing, a group has the identifier of its file, then its
\* state and then its status, and as it does not write yet its file stays what it was.
GroupLevel(s) ==
    s.cmd = "addtgptgpwithmd" /\ ~s.refused =>
      LET x == <<s.d, s.g>>
          f == mdFile[<<serial[s.d], s.g>>]
      IN  /\ s.pc \in {"process", "restore", "status", "writeMd"} =>
               x \in groups /\ gpId[x] = s.id
          /\ s.pc \in {"restore", "status"} => s.file.id = s.id
          /\ s.pc = "restore" => f = s.file
          /\ s.pc = "status" => /\ access[x] = s.file.access
                                /\ x \notin writeMd => f = s.file
          /\ s.pc = "writeMd" /\ x \notin writeMd =>
               f \in {None, [id |-> gpId[x], access |-> access[x], status |-> status[x]]}

Undisturbed(s) ==
    /\ NotRefused(s) /\ DoneLevel(s)
    /\ HbaLevel(s) /\ DevLevel(s) /\ MakeLevel(s) /\ PrLevel(s) /\ GroupLevel(s)

AloneOK == \A c \in Cli : cli[c].alone => Undisturbed(cli[c])

Solo == SolitudeOK /\ AloneOK

-----------------------------------------------------------------------------
(* The steps of one process *)

\* r is s with the same command and the same variables, at whatever stage.
Same(s, r) ==
    /\ r.cmd = s.cmd
    /\ r.h = s.h /\ r.d = s.d /\ r.o = s.o /\ r.g = s.g /\ r.id = s.id /\ r.s = s.s
    /\ r.file = s.file /\ r.hbasLeft = s.hbasLeft /\ r.devsLeft = s.devsLeft
    /\ r.groupsLeft = s.groupsLeft /\ r.luGpsLeft = s.luGpsLeft

Moved(s, r, pc) == Same(s, r) /\ r.pc = pc /\ r.alone = s.alone /\ r.refused = s.refused

\* Going to another stage changes nothing else.
LEMMA GotoMoves ==
    ASSUME TypeOK, NEW c \in Cli, NEW pc, Goto(c, pc)
    PROVE  Moved(cli[c], cli'[c], pc)
BY DEF TypeOK, Goto, Become, CliState, Same, Moved

\* Nor does a swallowed refusal, except that it has happened.
LEMMA SwallowedMoves ==
    ASSUME TypeOK, NEW c \in Cli, NEW refused, NEW pc, Swallowed(c, refused, pc)
    PROVE  /\ Same(cli[c], cli'[c]) /\ cli'[c].pc = pc /\ cli'[c].alone = cli[c].alone
           /\ cli'[c].refused = (cli[c].refused \/ refused)
<1> DEFINE any == cli[c].refused \/ refused
<1>1. cli[c] \in CliState /\ cli'[c] = [cli[c] EXCEPT !.pc = pc, !.refused = any]
  BY DEF TypeOK, Swallowed, Become
<1>2. Same(cli[c], cli'[c]) /\ cli'[c].pc = pc /\ cli'[c].alone = cli[c].alone
      /\ cli'[c].refused = any
  <2> HIDE DEF any
  <2>. QED BY <1>1 DEF CliState, Same
<1>. QED BY <1>2

\* A restored attribute is taken or refused, unless its group is gone.
LEMMA RestoreMoves ==
    ASSUME TypeOK, NEW c \in Cli, NEW pc,
           Goto(c, "err") \/ Swallowed(c, FALSE, pc) \/ Swallowed(c, TRUE, pc)
    PROVE  /\ Same(cli[c], cli'[c]) /\ cli'[c].alone = cli[c].alone
           /\ cli'[c].pc \in {"err", pc} /\ (cli[c].refused => cli'[c].refused)
           /\ Swallowed(c, TRUE, pc) => cli'[c].refused
           /\ Swallowed(c, FALSE, pc) => cli'[c].pc = pc
<1>1. CASE Goto(c, "err")
  <2>1. Moved(cli[c], cli'[c], "err")
    BY <1>1, GotoMoves
  <2>2. ASSUME NEW refused, Swallowed(c, refused, pc)
        PROVE  cli'[c].pc = pc /\ cli'[c].refused = (cli[c].refused \/ refused)
    BY <2>2, SwallowedMoves
  <2>. QED BY <2>1, <2>2 DEF Moved
<1>2. ASSUME NEW refused, Swallowed(c, refused, pc)
      PROVE  /\ Same(cli[c], cli'[c]) /\ cli'[c].alone = cli[c].alone /\ cli'[c].pc = pc
             /\ cli'[c].refused = (cli[c].refused \/ refused)
  BY <1>2, SwallowedMoves
<1>. QED BY <1>1, <1>2

\* A new invocation has the variables its command gives it.
LEMMA BeginSame ==
    ASSUME NEW c \in Cli, NEW s, DOMAIN s = DOMAIN Idle, Begin(c, s)
    PROVE  /\ Same(s, cli'[c]) /\ cli'[c].pc = s.pc
           /\ cli'[c].alone => \A y \in Cli \ {c} : At(y, "idle")
<1> DEFINE alone == \A y \in Cli \ {c} : At(y, "idle")
<1>1. cli'[c] = [s EXCEPT !.alone = alone]
  BY DEF Begin
<1>2. Same(s, cli'[c]) /\ cli'[c].pc = s.pc /\ cli'[c].alone = alone
  <2> HIDE DEF alone
  <2>. QED BY <1>1 DEF Idle, Same
<1>. QED BY <1>2

\* The next group of the list goes, and with it what it had been given.
LEMMA RmdirGroupStep ==
    ASSUME TypeOK, NEW c \in Cli, RmdirGroup(c)
    PROVE  /\ At(c, "groups") /\ UNCHANGED <<hbas, devs, luGps, active, serial, usage, saved>>
           /\ \E g \in cli[c].groupsLeft :
                \/ /\ RemovableGroup(<<cli[c].o, g>>)
                   /\ groups' = groups \ {<<cli[c].o, g>>}
                   /\ gpId' = [gpId EXCEPT ![<<cli[c].o, g>>] = None]
                   /\ writeMd' = writeMd \ {<<cli[c].o, g>>}
                   /\ Become(c, [cli[c] EXCEPT
                        !.groupsLeft = cli[c].groupsLeft \ {g},
                        !.pc = IF cli[c].cmd = "deltgptgp" THEN "rmMd" ELSE "groups"])
                \/ /\ ~RemovableGroup(<<cli[c].o, g>>)
                   /\ Goto(c, "err") /\ UNCHANGED <<groups, gpId, writeMd>>
BY DEF RmdirGroup

\* The process keeps its other variables.
LEMMA RmdirGroupMoves ==
    ASSUME TypeOK, NEW c \in Cli, NEW g, NEW pc,
           Become(c, [cli[c] EXCEPT !.groupsLeft = cli[c].groupsLeft \ {g}, !.pc = pc])
    PROVE  /\ cli'[c].pc = pc /\ cli'[c].alone = cli[c].alone
           /\ cli'[c].groupsLeft = cli[c].groupsLeft \ {g}
           /\ cli'[c].cmd = cli[c].cmd /\ cli'[c].h = cli[c].h /\ cli'[c].d = cli[c].d
           /\ cli'[c].o = cli[c].o /\ cli'[c].g = cli[c].g /\ cli'[c].id = cli[c].id
           /\ cli'[c].s = cli[c].s /\ cli'[c].file = cli[c].file
           /\ cli'[c].hbasLeft = cli[c].hbasLeft /\ cli'[c].devsLeft = cli[c].devsLeft
           /\ cli'[c].luGpsLeft = cli[c].luGpsLeft /\ cli'[c].refused = cli[c].refused
BY DEF Become, TypeOK, CliState

\* Each building step goes from a stage of its command to another one.
LEMMA BuildStaged ==
    ASSUME TypeOK, NEW c \in Cli, Staged(cli[c]), Build(c)
    PROVE  Staged(cli'[c])
<1>. USE GotoMoves DEF Moved, Same, At, Making, Loops, Freeing, Serials
<1>1. CASE MkdirHba(c)
  BY <1>1 DEF MkdirHba, Staged
<1>2. CASE MkdirDev(c)
  BY <1>2 DEF MkdirDev, Staged
<1>3. CASE PluginEnables(c)
  BY <1>3 DEF PluginEnables, Staged, AfterPlugin
<1>4. CASE PluginFails(c)
  BY <1>4 DEF PluginFails, Staged, AfterPlugin
<1>5. CASE PluginRaises(c)
  BY <1>5 DEF PluginRaises, Staged, AfterPlugin
<1>6. CASE Rollback(c)
  BY <1>6 DEF Rollback, Staged
<1>7. CASE SetUnitSerial(c)
  BY <1>7 DEF SetUnitSerial, Staged
<1>8. CASE ProcessAptpl(c)
  BY <1>8, SwallowedMoves DEF ProcessAptpl, Staged
<1>9. CASE CheckMetadataDir(c)
  BY <1>9 DEF CheckMetadataDir, Staged
<1>10. CASE MkdirSibling(c)
  BY <1>10 DEF MkdirSibling, Staged
<1>11. CASE MkdirGroup(c)
  BY <1>11 DEF MkdirGroup, Staged
<1>12. CASE WriteGroupId(c)
  BY <1>12, SwallowedMoves DEF WriteGroupId, Staged
<1>13. CASE ProcessNoMetadata(c)
  BY <1>13 DEF ProcessNoMetadata, Staged
<1>14. CASE ProcessMetadata(c)
  BY <1>14 DEF ProcessMetadata, Staged, Become, TypeOK, CliState
<1>15. CASE ProcessGone(c)
  BY <1>15 DEF ProcessGone, Staged
<1>16. CASE RestoreAccess(c)
  <2>1. At(c, "restore") /\ cli'[c].pc \in {"err", "status"} /\ Same(cli[c], cli'[c])
    BY <1>16, RestoreMoves DEF RestoreAccess
  <2>. QED BY <2>1 DEF Staged
<1>17. CASE RestoreStatus(c)
  <2>1. At(c, "status") /\ cli'[c].pc \in {"err", "writeMd"} /\ Same(cli[c], cli'[c])
    BY <1>17, RestoreMoves DEF RestoreStatus
  <2>. QED BY <2>1 DEF Staged
<1>18. CASE EnableWriteMd(c)
  BY <1>18, SwallowedMoves DEF EnableWriteMd, Staged
<1>19. CASE MkdirLuGroup(c)
  BY <1>19 DEF MkdirLuGroup, Staged
<1>. QED BY <1>1, <1>2, <1>3, <1>4, <1>5, <1>6, <1>7, <1>8, <1>9, <1>10, <1>11, <1>12,
   <1>13, <1>14, <1>15, <1>16, <1>17, <1>18, <1>19 DEF Build

\* So does each removing step.
LEMMA TakeDownStaged ==
    ASSUME TypeOK, NEW c \in Cli, Staged(cli[c]), TakeDown(c)
    PROVE  Staged(cli'[c])
<1>. USE GotoMoves DEF Moved, Same, At, Making, Loops, Freeing, Serials
<1>1. CASE RmdirGroup(c)
  <2> DEFINE stage == IF cli[c].cmd = "deltgptgp" THEN "rmMd" ELSE "groups"
  <2>1. PICK g \in cli[c].groupsLeft :
          \/ Become(c, [cli[c] EXCEPT !.groupsLeft = cli[c].groupsLeft \ {g}, !.pc = stage])
          \/ Goto(c, "err")
    BY <1>1, RmdirGroupStep
  <2>2. At(c, "groups")
    BY <1>1, RmdirGroupStep
  <2>3. CASE Become(c, [cli[c] EXCEPT !.groupsLeft = cli[c].groupsLeft \ {g}, !.pc = stage])
    <3>1. /\ cli'[c].pc = stage /\ cli'[c].cmd = cli[c].cmd
          /\ cli'[c].alone = cli[c].alone
      <4> HIDE DEF stage
      <4>. QED BY <2>3, RmdirGroupMoves
    <3>. QED BY <2>2, <3>1 DEF Staged
  <2>4. CASE Goto(c, "err")
    BY <2>2, <2>4 DEF Staged
  <2>. QED BY <2>1, <2>3, <2>4
<1>2. CASE RmMd(c)
  BY <1>2 DEF RmMd, Staged
<1>3. CASE ListDevs(c)
  BY <1>3 DEF ListDevs, Staged, Become, TypeOK, CliState
<1>4. CASE ListGroups(c)
  BY <1>4 DEF ListGroups, Staged, Become, TypeOK, CliState
<1>5. CASE RmdirDev(c)
  BY <1>5 DEF RmdirDev, Staged
<1>6. CASE RmAptpl(c)
  BY <1>6 DEF RmAptpl, Staged
<1>7. CASE RmMdDir(c)
  BY <1>7 DEF RmMdDir, Staged
<1>8. CASE RmdirHba(c)
  BY <1>8 DEF RmdirHba, Staged
<1>9. CASE ListLuGroups(c)
  BY <1>9 DEF ListLuGroups, Staged, Become, TypeOK, CliState
<1>10. CASE RmdirLuGroup(c)
  BY <1>10 DEF RmdirLuGroup, Staged, Become, TypeOK, CliState
<1>11. CASE UnloadModules(c)
  BY <1>11, SwallowedMoves DEF UnloadModules, Staged
<1>. QED BY <1>1, <1>2, <1>3, <1>4, <1>5, <1>6, <1>7, <1>8, <1>9, <1>10, <1>11 DEF
   TakeDown

\* What a new invocation works on, by command.
Begun(s) ==
    \/ s.cmd \in Making /\ s.pc \in {"mkHba", "mkDev"} /\ s.d \notin devs
    \/ s.cmd \in {"setunitserial", "setunitserialwithmd"} /\ s.pc = "serial"
    \/ s.cmd = "praptpl" /\ s.pc = "aptpl"
    \/ s.cmd = "addtgptgp" /\ s.pc = "mkSibling"
    \/ s.cmd = "addtgptgpwithmd" /\ s.pc = "mkGroup"
    \/ /\ s.cmd = "addtgptgpwithmd" /\ s.pc = "process"
       /\ s.d \in devs /\ s.g = Default /\ s.id = DefaultId
    \/ s.cmd = "deltgptgp" /\ s.pc = "groups" /\ s.groupsLeft = {s.g}
    \/ s.cmd = "addlungp" /\ s.pc = "mkLuGp"
    \/ s.cmd = "dellungp" /\ s.pc = "luGps" /\ s.luGpsLeft # {}
    \/ s.cmd = "freedev" /\ s.pc = "devs" /\ s.devsLeft # {}
    \/ s.cmd = "delhba" /\ s.pc = "devs" /\ s.h \in hbas /\ s.devsLeft = ObjectsOf(s.h)
    \/ s.cmd = "unload" /\ s.pc = "hbas" /\ s.hbasLeft = hbas

\* The tree is as it was, so what a new invocation works on is still there.
LEMMA BeginBegun ==
    ASSUME NEW c \in Cli, NEW s, DOMAIN s = DOMAIN Idle, Begun(s), Begin(c, s)
    PROVE  /\ Begun(cli'[c])
           /\ cli'[c].alone => \A y \in Cli \ {c} : At(y, "idle")
<1>1. Same(s, cli'[c]) /\ cli'[c].pc = s.pc
  BY BeginSame
<1>2. ASSUME NEW r, Same(s, r), r.pc = s.pc PROVE Begun(r)
  BY <1>2, SMTT(60) DEF Same, Begun
<1>. QED BY <1>1, <1>2, BeginSame

\* Every command starts so.
LEMMA StartBegun ==
    ASSUME TypeOK, NEW c \in Cli, Start(c)
    PROVE  /\ Begun(cli'[c])
           /\ cli'[c].alone => \A y \in Cli \ {c} : At(y, "idle")
<1>. USE DEF Idle
<1>1. CASE StartCreate(c)
  <2> DEFINE init(d, cmd) ==
          [Idle EXCEPT !.cmd = cmd, !.d = d,
                        !.pc = IF d[1] \in hbas THEN "mkDev" ELSE "mkHba"]
  <2>1. PICK d \in Device \ devs, cmd \in {"createdev", "establishdev"} : Begin(c, init(d, cmd))
    BY <1>1 DEF StartCreate
  <2>2. DOMAIN init(d, cmd) = DOMAIN Idle /\ Begun(init(d, cmd))
    BY <2>1 DEF Begun, Making
  <2> HIDE DEF init
  <2>. QED BY <2>1, <2>2, BeginBegun
<1>2. CASE StartSetSerial(c)
  <2> DEFINE init(d, s, cmd) ==
          [Idle EXCEPT !.cmd = cmd, !.pc = "serial", !.d = d, !.s = s]
  <2>1. PICK d \in Device \cap devs, s \in Serial,
            cmd \in {"setunitserial", "setunitserialwithmd"} : Begin(c, init(d, s, cmd))
    BY <1>2 DEF StartSetSerial
  <2>2. DOMAIN init(d, s, cmd) = DOMAIN Idle /\ Begun(init(d, s, cmd))
    BY <2>1 DEF Begun, Making
  <2> HIDE DEF init
  <2>. QED BY <2>1, <2>2, BeginBegun
<1>3. CASE StartProcessAptpl(c)
  <2> DEFINE init(d) ==
          [Idle EXCEPT !.cmd = "praptpl", !.pc = "aptpl", !.d = d]
  <2>1. PICK d \in Device \cap devs : Begin(c, init(d))
    BY <1>3 DEF StartProcessAptpl
  <2>2. DOMAIN init(d) = DOMAIN Idle /\ Begun(init(d))
    BY <2>1 DEF Begun, Making
  <2> HIDE DEF init
  <2>. QED BY <2>1, <2>2, BeginBegun
<1>4. CASE StartAddGroup(c)
  <2> DEFINE init(d) ==
          [Idle EXCEPT !.cmd = "addtgptgp", !.pc = "mkSibling", !.d = d]
  <2>1. PICK d \in Device \cap devs : Begin(c, init(d))
    BY <1>4 DEF StartAddGroup
  <2>2. DOMAIN init(d) = DOMAIN Idle /\ Begun(init(d))
    BY <2>1 DEF Begun, Making
  <2> HIDE DEF init
  <2>. QED BY <2>1, <2>2, BeginBegun
<1>5. CASE StartAddGroupWithMd(c)
  <2> DEFINE init(d, g, id) ==
          [Idle EXCEPT !.cmd = "addtgptgpwithmd", !.d = d, !.g = g, !.id = id,
                        !.pc = IF g = Default /\ id = DefaultId THEN "process" ELSE "mkGroup"]
  <2>1. PICK d \in Device \cap devs, g \in Group, id \in Id : Begin(c, init(d, g, id))
    BY <1>5 DEF StartAddGroupWithMd
  <2>2. DOMAIN init(d, g, id) = DOMAIN Idle /\ Begun(init(d, g, id))
    BY <2>1 DEF Begun, Making
  <2> HIDE DEF init
  <2>. QED BY <2>1, <2>2, BeginBegun
<1>6. CASE StartDelGroup(c)
  <2> DEFINE init(x) ==
          [Idle EXCEPT !.cmd = "deltgptgp", !.pc = "groups", !.o = x[1],
                        !.s = serial[x[1]], !.g = x[2], !.groupsLeft = {x[2]}]
  <2>1. PICK x \in groups : Begin(c, init(x))
    BY <1>6 DEF StartDelGroup
  <2>2. DOMAIN init(x) = DOMAIN Idle /\ Begun(init(x))
    BY <2>1 DEF Begun, Making
  <2> HIDE DEF init
  <2>. QED BY <2>1, <2>2, BeginBegun
<1>7. CASE StartAddLuGroup(c)
  <2> DEFINE init(l) ==
          [Idle EXCEPT !.cmd = "addlungp", !.pc = "mkLuGp", !.luGpsLeft = {l}]
  <2>1. PICK l \in LuGroup \ luGps : Begin(c, init(l))
    BY <1>7 DEF StartAddLuGroup
  <2>2. DOMAIN init(l) = DOMAIN Idle /\ Begun(init(l))
    BY <2>1 DEF Begun, Making
  <2> HIDE DEF init
  <2>. QED BY <2>1, <2>2, BeginBegun
<1>8. CASE StartDelLuGroup(c)
  <2> DEFINE init(l) ==
          [Idle EXCEPT !.cmd = "dellungp", !.pc = "luGps", !.luGpsLeft = {l}]
  <2>1. PICK l \in luGps : Begin(c, init(l))
    BY <1>8 DEF StartDelLuGroup
  <2>2. DOMAIN init(l) = DOMAIN Idle /\ Begun(init(l))
    BY <2>1 DEF Begun, Making
  <2> HIDE DEF init
  <2>. QED BY <2>1, <2>2, BeginBegun
<1>9. CASE StartFreeDev(c)
  <2> DEFINE init(d) ==
          [Idle EXCEPT !.cmd = "freedev", !.pc = "devs", !.s = serial[d],
                        !.devsLeft = {d}]
  <2>1. PICK d \in Device \cap devs : Begin(c, init(d))
    BY <1>9 DEF StartFreeDev
  <2>2. DOMAIN init(d) = DOMAIN Idle /\ Begun(init(d))
    BY <2>1 DEF Begun, Making
  <2> HIDE DEF init
  <2>. QED BY <2>1, <2>2, BeginBegun
<1>10. CASE StartDelHba(c)
  <2> DEFINE init(h) ==
          [Idle EXCEPT !.cmd = "delhba", !.pc = "devs", !.h = h,
                        !.devsLeft = ObjectsOf(h)]
  <2>1. PICK h \in hbas : Begin(c, init(h))
    BY <1>10 DEF StartDelHba
  <2>2. DOMAIN init(h) = DOMAIN Idle /\ Begun(init(h))
    BY <2>1 DEF Begun, Making
  <2> HIDE DEF init
  <2>. QED BY <2>1, <2>2, BeginBegun
<1>11. CASE StartUnload(c)
  <2> DEFINE init ==
          [Idle EXCEPT !.cmd = "unload", !.pc = "hbas", !.hbasLeft = hbas]
  <2>1. Begin(c, init)
    BY <1>11 DEF StartUnload
  <2>2. DOMAIN init = DOMAIN Idle /\ Begun(init)
    BY <2>1 DEF Begun, Making
  <2> HIDE DEF init
  <2>. QED BY <2>1, <2>2, BeginBegun
<1>. QED BY <1>1, <1>2, <1>3, <1>4, <1>5, <1>6, <1>7, <1>8, <1>9, <1>10, <1>11 DEF Start

\* So it starts at a stage of its command.
LEMMA StartStaged ==
    ASSUME TypeOK, NEW c \in Cli, Start(c)
    PROVE  Staged(cli'[c])
<1>1. Begun(cli'[c])
  BY StartBegun
<1>. QED BY <1>1 DEF Begun, Staged, Making, Loops, Freeing, Serials

\* It changes nothing but the processes.
LEMMA StartOutside ==
    ASSUME NEW c \in Cli, Start(c)
    PROVE  /\ UNCHANGED <<dirs, attrs, usage, saved>>
           /\ \A x \in Cli \ {c} : cli'[x] = [cli[x] EXCEPT !.alone = FALSE]
BY DEF Start, Begin, StartCreate, StartSetSerial, StartProcessAptpl, StartAddGroup,
   StartAddGroupWithMd, StartDelGroup, StartAddLuGroup, StartDelLuGroup, StartFreeDev,
   StartDelHba, StartUnload

-----------------------------------------------------------------------------
(* One step, whoever takes it *)

\* A step of an invocation is no other's, and does not make it alone.
Own(c) ==
    /\ cli[c].pc # "idle"
    /\ cli'[c].alone => cli[c].alone
    /\ \A x \in Cli \ {c} : cli'[x] = cli[x]

LEMMA SwallowedOwn ==
    ASSUME TypeOK, NEW c \in Cli, NEW refused, NEW pc,
           Swallowed(c, refused, pc), cli[c].pc # "idle"
    PROVE  Own(c)
<1>1. cli'[c].alone = cli[c].alone
  BY SwallowedMoves
<1>2. \A x \in Cli \ {c} : cli'[x] = cli[x]
  BY DEF Swallowed, Become, TypeOK
<1>. QED BY <1>1, <1>2 DEF Own

\* So it is when something is built, ...
LEMMA BuildOwn ==
    ASSUME TypeOK, NEW c \in Cli, Build(c)
    PROVE  Own(c)
<1>. USE DEF TypeOK, CliState, At, Become, Goto, Own
<1>1. CASE MkdirHba(c)
  BY <1>1 DEF MkdirHba
<1>2. CASE MkdirDev(c)
  BY <1>2 DEF MkdirDev
<1>3. CASE PluginEnables(c)
  BY <1>3 DEF PluginEnables
<1>4. CASE PluginFails(c)
  BY <1>4 DEF PluginFails
<1>5. CASE PluginRaises(c)
  BY <1>5 DEF PluginRaises
<1>6. CASE Rollback(c)
  BY <1>6 DEF Rollback
<1>7. CASE SetUnitSerial(c)
  BY <1>7 DEF SetUnitSerial
<1>8. CASE ProcessAptpl(c)
  <2>1. cli[c].pc # "idle"
    BY <1>8 DEF ProcessAptpl
  <2>2. Goto(c, "err") \/ \E refused, pc : Swallowed(c, refused, pc)
    BY <1>8 DEF ProcessAptpl
  <2>. QED BY <2>1, <2>2, SwallowedOwn
<1>9. CASE CheckMetadataDir(c)
  BY <1>9 DEF CheckMetadataDir
<1>10. CASE MkdirSibling(c)
  BY <1>10 DEF MkdirSibling
<1>11. CASE MkdirGroup(c)
  BY <1>11 DEF MkdirGroup
<1>12. CASE WriteGroupId(c)
  <2>1. cli[c].pc # "idle"
    BY <1>12 DEF WriteGroupId
  <2>2. Goto(c, "err") \/ \E refused, pc : Swallowed(c, refused, pc)
    BY <1>12 DEF WriteGroupId
  <2>. QED BY <2>1, <2>2, SwallowedOwn
<1>13. CASE ProcessNoMetadata(c)
  BY <1>13 DEF ProcessNoMetadata
<1>14. CASE ProcessMetadata(c)
  BY <1>14 DEF ProcessMetadata
<1>15. CASE ProcessGone(c)
  BY <1>15 DEF ProcessGone
<1>16. CASE RestoreAccess(c)
  <2>1. cli[c].pc # "idle"
    BY <1>16 DEF RestoreAccess
  <2>2. Goto(c, "err") \/ \E refused, pc : Swallowed(c, refused, pc)
    BY <1>16 DEF RestoreAccess
  <2>. QED BY <2>1, <2>2, SwallowedOwn
<1>17. CASE RestoreStatus(c)
  <2>1. cli[c].pc # "idle"
    BY <1>17 DEF RestoreStatus
  <2>2. Goto(c, "err") \/ \E refused, pc : Swallowed(c, refused, pc)
    BY <1>17 DEF RestoreStatus
  <2>. QED BY <2>1, <2>2, SwallowedOwn
<1>18. CASE EnableWriteMd(c)
  <2>1. cli[c].pc # "idle"
    BY <1>18 DEF EnableWriteMd
  <2>2. Goto(c, "err") \/ \E refused, pc : Swallowed(c, refused, pc)
    BY <1>18 DEF EnableWriteMd
  <2>. QED BY <2>1, <2>2, SwallowedOwn
<1>19. CASE MkdirLuGroup(c)
  BY <1>19 DEF MkdirLuGroup
<1>. QED BY <1>1, <1>2, <1>3, <1>4, <1>5, <1>6, <1>7, <1>8, <1>9, <1>10, <1>11, <1>12,
   <1>13, <1>14, <1>15, <1>16, <1>17, <1>18, <1>19 DEF Build

\* ... when something is removed, ...
LEMMA TakeDownOwn ==
    ASSUME TypeOK, NEW c \in Cli, TakeDown(c)
    PROVE  Own(c)
<1>. USE DEF TypeOK, CliState, At, Become, Goto, Own
<1>1. CASE RmdirGroup(c)
  <2>1. PICK g \in cli[c].groupsLeft :
          \/ Become(c, [cli[c] EXCEPT
               !.groupsLeft = cli[c].groupsLeft \ {g},
               !.pc = IF cli[c].cmd = "deltgptgp" THEN "rmMd" ELSE "groups"])
          \/ Goto(c, "err")
    BY <1>1, RmdirGroupStep
  <2>2. At(c, "groups")
    BY <1>1, RmdirGroupStep
  <2>. QED BY ZenonT(60), <2>1, <2>2
<1>2. CASE RmMd(c)
  BY <1>2 DEF RmMd
<1>3. CASE ListDevs(c)
  BY <1>3 DEF ListDevs
<1>4. CASE ListGroups(c)
  BY <1>4 DEF ListGroups
<1>5. CASE RmdirDev(c)
  BY <1>5 DEF RmdirDev
<1>6. CASE RmAptpl(c)
  BY <1>6 DEF RmAptpl
<1>7. CASE RmMdDir(c)
  BY <1>7 DEF RmMdDir
<1>8. CASE RmdirHba(c)
  BY <1>8 DEF RmdirHba
<1>9. CASE ListLuGroups(c)
  BY <1>9 DEF ListLuGroups
<1>10. CASE RmdirLuGroup(c)
  BY <1>10 DEF RmdirLuGroup
<1>11. CASE UnloadModules(c)
  <2>1. cli[c].pc # "idle" /\ \E refused, pc : Swallowed(c, refused, pc)
    BY <1>11 DEF UnloadModules
  <2>. QED BY <2>1, SwallowedOwn
<1>. QED BY <1>1, <1>2, <1>3, <1>4, <1>5, <1>6, <1>7, <1>8, <1>9, <1>10, <1>11 DEF
   TakeDown

\* ... and when the process ends.
LEMMA EndOwn ==
    ASSUME TypeOK, NEW c \in Cli, Exit(c) \/ Killed(c)
    PROVE  Own(c) /\ cli'[c] = Idle /\ ~cli'[c].alone
<1>1. ~Idle.alone
  BY DEF Idle
<1>. QED BY <1>1 DEF TypeOK, Exit, Killed, Own, Become

\* Interference takes only the solitude from an invocation.
LEMMA SolitudeOff ==
    ASSUME NEW s \in CliState
    PROVE  LET r == [s EXCEPT !.alone = FALSE]
           IN  Same(s, r) /\ r.pc = s.pc /\ r.alone = FALSE /\ (Staged(s) => Staged(r))
<1> DEFINE r == [s EXCEPT !.alone = FALSE]
<1>1. Same(s, r) /\ r.pc = s.pc /\ r.alone = FALSE
  BY DEF CliState, Same
<1> HIDE DEF r
<1>2. Staged(s) => Staged(r)
  BY <1>1 DEF Same, Staged
<1>. QED BY <1>1, <1>2 DEF r

\* The idle process is at no stage of a command.
LEMMA IdleStaged == Staged(Idle) /\ Idle.pc = "idle" /\ ~Idle.alone
BY DEF Idle, Staged

\* Every step keeps every invocation in the stages of its command.
LEMMA StepStaged == TypeOK /\ StagesOK /\ [Next]_vars => StagesOK'
<1>. SUFFICES ASSUME TypeOK, StagesOK, [Next]_vars PROVE StagesOK'
  OBVIOUS
<1>1. ASSUME NEW c \in Cli, Start(c) PROVE StagesOK'
  <2>1. Staged(cli'[c])
    BY <1>1, StartStaged
  <2>2. ASSUME NEW x \in Cli \ {c} PROVE Staged(cli'[x])
    BY ZenonT(60), <1>1, <2>2, StartOutside, SolitudeOff DEF StagesOK, TypeOK
  <2>. QED BY <2>1, <2>2 DEF StagesOK
<1>2. ASSUME NEW c \in Cli, Build(c) PROVE StagesOK'
  BY <1>2, BuildStaged, BuildOwn DEF StagesOK, Own
<1>3. ASSUME NEW c \in Cli, TakeDown(c) PROVE StagesOK'
  BY <1>3, TakeDownStaged, TakeDownOwn DEF StagesOK, Own
<1>4. ASSUME NEW c \in Cli, Exit(c) \/ Killed(c) PROVE StagesOK'
  BY <1>4, IdleStaged, EndOwn DEF StagesOK, Own
<1>5. ASSUME Around PROVE StagesOK'
  <2>1. CASE Interfere
    BY <2>1, SolitudeOff DEF Interfere, StagesOK, TypeOK
  <2>2. CASE Reboot
    BY <2>2, IdleStaged DEF Reboot, StagesOK
  <2>. QED BY <1>5, <2>1, <2>2 DEF Around, ChangeAccess, Link, Unlink, Register, Deregister
<1>6. CASE UNCHANGED vars
  BY <1>6 DEF vars, StagesOK
<1>. QED BY <1>1, <1>2, <1>3, <1>4, <1>5, <1>6 DEF Next

\* However the invocations interleave, fail or are killed, each keeps to the stages of its
\* command: --delhba and --unload never reach the stages that forget.
THEOREM StagesKept == Spec => []StagesOK
<1>1. Init => StagesOK
  BY IdleStaged DEF Init, StagesOK
<1>2. Init => TypeOK
  BY IdleType, SomeNames DEF Init, TypeOK, Key
<1>. QED BY <1>1, <1>2, StepType, StepStaged, PTL DEF Spec

-----------------------------------------------------------------------------
(* Forgetting *)

\* Something saved disappears.
Forgets ==
    \/ \E f \in File : mdFile[f] # None /\ mdFile'[f] = None
    \/ ~(mdDir \subseteq mdDir') \/ \E k \in Key : aptpl[k] # "absent" /\ aptpl'[k] = "absent"

\* Only the last stage of a --freedev makes any of it disappear.
LEMMA StepForgets ==
    ASSUME TypeOK, StagesOK, [Next]_vars, Forgets
    PROVE  \E c \in Cli : cli[c].cmd \in {"freedev", "deltgptgp"} /\ cli'[c] # cli[c]
<1>. USE DEF Forgets
<1>1. CASE UNCHANGED saved
  BY <1>1 DEF saved
<1>2. ASSUME NEW c \in Cli, Build(c)
      PROVE  UNCHANGED saved \/ ~Forgets
  <2>1. CASE CheckMetadataDir(c)
    BY <2>1 DEF CheckMetadataDir
  <2>2. CASE RestoreAccess(c) \/ RestoreStatus(c)
    <3>1. GpOf(c) \in Gp /\ cli[c].file.access \in Access /\ cli[c].file.status \in Status
      BY DEF TypeOK, CliState, GpOf, Gp, Saved
    <3>2. Saves(GpOf(c))
      BY <2>2, <3>1, SetAccessSaves, SetStatusSaves DEF RestoreAccess, RestoreStatus, Saves
    <3>3. \A f \in File : mdFile[f] # None => mdFile'[f] # None
      BY <3>1, <3>2, SavesType
    <3>. QED BY <2>2, <3>3 DEF RestoreAccess, RestoreStatus
  <2>. QED BY <1>2, <2>1, <2>2 DEF Build, MkdirHba, MkdirDev, PluginEnables, PluginFails,
       PluginRaises, Rollback, SetUnitSerial, ProcessAptpl, MkdirSibling, MkdirGroup,
       WriteGroupId, ProcessNoMetadata, ProcessMetadata, ProcessGone, EnableWriteMd,
       MkdirLuGroup
<1>3. ASSUME NEW c \in Cli, TakeDown(c)
      PROVE  UNCHANGED saved \/ (cli[c].cmd = "freedev" /\ cli'[c] # cli[c])
  <2>1. CASE RmMdDir(c)
    <3>1. cli[c].cmd = "freedev"
      BY <2>1 DEF RmMdDir, At, StagesOK, Staged
    <3>2. cli'[c].pc # cli[c].pc
      BY <2>1, GotoMoves DEF RmMdDir, At, Moved
    <3>. QED BY <3>1, <3>2
  <2>. QED BY <1>3, <2>1 DEF TakeDown, RmdirGroup, RmMd, ListDevs, ListGroups, RmdirDev,
       RmAptpl, RmdirHba, ListLuGroups, RmdirLuGroup, UnloadModules
<1>4. ASSUME NEW c \in Cli, Start(c) \/ Exit(c) \/ Killed(c)
      PROVE  UNCHANGED saved
  BY <1>4, StartOutside DEF Exit, Killed
<1>5. ASSUME Around
      PROVE  UNCHANGED saved \/ ~Forgets
  <2>1. ASSUME NEW x \in Gp, NEW state \in Access, ChangeAccess(x, state) PROVE ~Forgets
    BY <2>1, SetAccessSaves, SavesType DEF ChangeAccess
  <2>2. ASSUME NEW d \in Device, Register(d) \/ Deregister(d) PROVE ~Forgets
    BY <2>2 DEF Register, Deregister, TypeOK
  <2>. QED BY <1>5, <2>1, <2>2 DEF Around, Link, Unlink, Reboot
<1>6. CASE UNCHANGED vars
  BY <1>1, <1>6 DEF vars
<1>. QED BY <1>1, <1>2, <1>3, <1>4, <1>5, <1>6 DEF Next

\* With any number of invocations at work, --delhba, --unload and a reboot keep everything
\* that is saved under /var/target.
THEOREM OnlyDeletesForgetAlways == Spec => OnlyDeletesForget
<1>1. TypeOK /\ StagesOK /\ [Next]_vars =>
        [\/ \E f \in File : mdFile[f] # None /\ mdFile'[f] = None
         \/ ~(mdDir \subseteq mdDir')
         \/ \E k \in Key : aptpl[k] # "absent" /\ aptpl'[k] = "absent"
         => \E c \in Cli : cli[c].cmd \in {"freedev", "deltgptgp"} /\ cli'[c] # cli[c]]_vars
  BY StepForgets DEF Forgets
<1>. QED BY <1>1, TypeCorrect, StagesKept, PTL DEF Spec, OnlyDeletesForget

-----------------------------------------------------------------------------
(* What is saved of the groups *)

\* The file of a group is that of a live group.
LiveFiles == {<<serial[x[1]], x[2]>> : x \in groups}

\* A step saves the state of a group that exists, or leaves the files as they are.
LEMMA StepSaved ==
    ASSUME TypeOK, TreeOK, [Next]_vars
    PROVE  [Kept!Next]_<<LiveFiles, mdFile>>
<1>a. LiveFiles \in SUBSET File /\ LiveFiles' \in SUBSET File
  <2>1. TypeOK'
    BY StepType
  <2>2. ASSUME NEW x \in groups PROVE <<serial[x[1]], x[2]>> \in File
    BY DEF TypeOK, Gp, File
  <2>3. ASSUME NEW x \in groups' PROVE <<serial'[x[1]], x[2]>> \in File
    BY <2>1 DEF TypeOK, Gp, File
  <2>. QED BY <2>2, <2>3 DEF LiveFiles
<1>1. ASSUME mdFile' = mdFile PROVE Kept!Next
  BY <1>1, <1>a DEF Kept!Next, Kept!Reconfigure, LiveFiles
<1>2. ASSUME NEW x \in Gp, Saves(x), UNCHANGED <<groups, serial>>
      PROVE  Kept!Next
  <2> DEFINE file == <<serial[x[1]], x[2]>>
  <2>1. \/ mdFile' = mdFile
        \/ x \in writeMd /\ \E value \in Saved : mdFile' = [mdFile EXCEPT ![file] = value]
    BY <1>2 DEF Saves
  <2>2. x \in writeMd => file \in LiveFiles
    BY DEF TreeOK, OwnersOK, LiveFiles
  <2>3. LiveFiles' = LiveFiles
    BY <1>2 DEF LiveFiles
  <2> HIDE DEF file
  <2>4. mdFile' = mdFile \/ Kept!Save(file)
    BY <2>1, <2>2, <2>3 DEF Kept!Save, LiveFiles
  <2>5. file \in File \/ mdFile' = mdFile
    BY <1>a, <2>1, <2>2
  <2>. QED BY <1>1, <2>4, <2>5 DEF Kept!Next
<1>3. ASSUME NEW c \in Cli, Build(c) PROVE Kept!Next
  <2>1. CASE RestoreAccess(c) \/ RestoreStatus(c)
    <3>1. GpOf(c) \in Gp /\ cli[c].file.access \in Access /\ cli[c].file.status \in Status
      BY DEF TypeOK, CliState, GpOf, Gp, Saved
    <3>2. Saves(GpOf(c))
      BY <2>1, <3>1, SetAccessSaves, SetStatusSaves DEF RestoreAccess, RestoreStatus, Saves
    <3>. QED BY <1>2, <2>1, <3>1, <3>2 DEF RestoreAccess, RestoreStatus, dirs
  <2>. QED BY <1>1, <1>3, <2>1 DEF Build, MkdirHba, MkdirDev, PluginEnables, PluginFails,
       PluginRaises, Rollback, SetUnitSerial, ProcessAptpl, CheckMetadataDir, MkdirSibling,
       MkdirGroup, WriteGroupId, ProcessNoMetadata, ProcessMetadata, ProcessGone,
       EnableWriteMd, MkdirLuGroup, saved
<1>4. ASSUME NEW c \in Cli, TakeDown(c) PROVE Kept!Next
  BY <1>1, <1>4 DEF TakeDown, RmdirGroup, RmMd, ListDevs, ListGroups, RmdirDev, RmMdDir,
     RmAptpl, RmdirHba, ListLuGroups, RmdirLuGroup, UnloadModules, saved
<1>5. ASSUME NEW c \in Cli, Start(c) \/ Exit(c) \/ Killed(c) PROVE Kept!Next
  BY <1>1, <1>5, StartOutside DEF Exit, Killed, saved
<1>6. ASSUME Around PROVE Kept!Next
  BY <1>1, <1>2, <1>6, SetAccessSaves DEF Around, ChangeAccess, Link, Unlink, Register,
     Deregister, Reboot, dirs, saved
<1>7. CASE UNCHANGED vars
  BY <1>1, <1>7 DEF vars, saved
<1>. QED BY <1>3, <1>4, <1>5, <1>6, <1>7 DEF Next

\* With any number of invocations at work the saved access states keep the promise of
\* SavedState: a group that exists writes them and nothing forgets them.
THEOREM KeepsSavedState == Spec => ImplementsSavedState
<1>1. Init => Kept!Init
  BY DEF Init, Kept!Init
<1>2. TypeOK /\ TreeOK /\ [Next]_vars =>
        [Kept!Next]_<<{<<serial[x[1]], x[2]>> : x \in groups}, mdFile>>
  BY StepSaved DEF LiveFiles
<1>. QED BY <1>1, <1>2, TypeCorrect, TreeStaysWhole, PTL
     DEF Spec, ImplementsSavedState, Kept!Spec

-----------------------------------------------------------------------------
(* The default groups *)

\* The group an invocation works on.
LEMMA Names ==
    ASSUME TypeOK, NEW c \in Cli
    PROVE  /\ cli[c].d \in Device /\ cli[c].d \in Object /\ cli[c].d[1] \in Hba
           /\ cli[c].h \in Hba /\ cli[c].o \in Object
           /\ cli[c].g \in Group /\ cli[c].id \in Id /\ cli[c].file \in Saved
           /\ HbaOf(c) = cli[c].d[1]
           /\ GpOf(c) \in Gp /\ GpOf(c) = <<cli[c].d, cli[c].g>>
           /\ FileOf(c) = mdFile[<<serial[cli[c].d], cli[c].g>>]
           /\ <<serial[cli[c].d], cli[c].g>> \in File
BY DEF TypeOK, CliState, Device, Object, HbaOf, GpOf, Gp, FileOf, File

\* A group is named by its storage object and its own name; a storage object and what
\* --addtgptgp makes next to it have different names.
LEMMA Paths ==
    /\ \A x \in Gp : x[1] \in Device /\ x[2] \in Group /\ x = <<x[1], x[2]>>
    /\ \A d \in Device : d \in Object /\ d \notin Sibling
BY DEF Gp, Device, Sibling, Object

\* Forgetting an object forgets its default group with it.
LEMMA ForgetDevDefaults ==
    ASSUME TypeOK, DefaultsOK, NEW o \in Object, ForgetDev(o)
    PROVE  DefaultsOK'
BY DEF TypeOK, DefaultsOK, ForgetDev

\* Every step leaves the default groups with their objects.
LEMMA StepDefaults ==
    ASSUME TypeOK, StagesOK, DefaultsOK, [Next]_vars
    PROVE  DefaultsOK'
<1>. USE DEF DefaultsOK
<1>1. CASE UNCHANGED <<devs, groups, gpId>>
  BY <1>1
<1>2. ASSUME NEW c \in Cli, Build(c) PROVE DefaultsOK'
  <2>1. CASE MkdirDev(c)
    BY <1>1, <2>1, Names, Paths DEF MkdirDev, NewDev, TypeOK
  <2>2. CASE Rollback(c)
    BY <1>1, <2>2, Names, ForgetDevDefaults DEF Rollback, attrs
  <2>3. CASE MkdirSibling(c)
    <3>1. <<HbaOf(c), cli[c].d[2], "alua">> \in Sibling
      BY Names DEF Sibling, Device
    <3>. QED BY <2>3, <3>1, Paths DEF MkdirSibling, attrs
  <2>4. CASE MkdirGroup(c)
    BY <1>1, <2>4, Names, Paths DEF MkdirGroup, TypeOK
  <2>5. CASE WriteGroupId(c)
    <3>1. cli[c].g # Default
      BY <2>5 DEF WriteGroupId, StagesOK, Staged, At
    <3>2. \A x \in Gp : x # GpOf(c) => gpId'[x] = gpId[x]
      BY <2>5 DEF WriteGroupId, TypeOK
    <3>3. UNCHANGED <<devs, groups>>
      BY <2>5 DEF WriteGroupId, dirs
    <3>4. GpOf(c)[2] # Default
      BY <3>1 DEF GpOf
    <3>. QED BY <3>2, <3>3, <3>4
  <2>. QED BY <1>1, <1>2, <2>1, <2>2, <2>3, <2>4, <2>5 DEF Build, MkdirHba, PluginEnables,
       PluginFails, PluginRaises, SetUnitSerial, ProcessAptpl, CheckMetadataDir,
       ProcessNoMetadata, ProcessMetadata, ProcessGone, RestoreAccess, RestoreStatus,
       EnableWriteMd, MkdirLuGroup, dirs, attrs
<1>3. ASSUME NEW c \in Cli, TakeDown(c) PROVE DefaultsOK'
  <2>1. CASE RmdirGroup(c)
    <3>1. PICK g \in cli[c].groupsLeft :
            \/ /\ RemovableGroup(<<cli[c].o, g>>)
               /\ groups' = groups \ {<<cli[c].o, g>>}
               /\ gpId' = [gpId EXCEPT ![<<cli[c].o, g>>] = None]
            \/ UNCHANGED <<groups, gpId>>
      BY <2>1, RmdirGroupStep
    <3>2. UNCHANGED devs
      BY <2>1, RmdirGroupStep
    <3> DEFINE y == <<cli[c].o, g>>
    <3>3. y[2] # Default \/ UNCHANGED <<groups, gpId>>
      BY <3>1 DEF RemovableGroup
    <3>4. \/ groups' = groups \ {y} /\ gpId' = [gpId EXCEPT ![y] = None]
          \/ UNCHANGED <<groups, gpId>>
      BY <3>1
    <3> HIDE DEF y
    <3>. QED BY <3>2, <3>3, <3>4 DEF TypeOK
  <2>2. CASE RmdirDev(c)
    BY <1>1, <2>2, Names, ForgetDevDefaults DEF RmdirDev, attrs
  <2>. QED BY <1>1, <1>3, <2>1, <2>2 DEF TakeDown, RmMd, ListDevs, ListGroups, RmAptpl,
       RmMdDir, RmdirHba, ListLuGroups, RmdirLuGroup, UnloadModules, dirs, attrs
<1>4. ASSUME NEW c \in Cli, Start(c) \/ Exit(c) \/ Killed(c) PROVE DefaultsOK'
  BY <1>1, <1>4, StartOutside DEF Exit, Killed, dirs, attrs
<1>5. ASSUME Around PROVE DefaultsOK'
  BY <1>1, <1>5 DEF Around, ChangeAccess, Link, Unlink, Register, Deregister, Reboot, dirs, attrs
<1>6. CASE UNCHANGED vars
  BY <1>1, <1>6 DEF vars, dirs, attrs
<1>. QED BY <1>2, <1>3, <1>4, <1>5, <1>6 DEF Next

\* However the invocations interleave, a storage object has its default group under the
\* identifier the kernel gave it.
THEOREM DefaultsKept == Spec => []DefaultsOK
<1>1. Init => DefaultsOK
  BY DEF Init, DefaultsOK
<1>. QED BY <1>1, TypeCorrect, StagesKept, StepDefaults, PTL DEF Spec

-----------------------------------------------------------------------------
(* An invocation that nothing disturbs *)

\* What a command starts with is what the tree holds.
LEMMA StartUndisturbed ==
    ASSUME TypeOK, TreeOK, DefaultsOK, NEW c \in Cli, Start(c)
    PROVE  Undisturbed(cli[c])'
<1>1. Begun(cli'[c])
  BY StartBegun
<1>2. UNCHANGED <<dirs, attrs, usage, saved>>
  BY StartOutside
<1>3. /\ cli'[c].d \in Device /\ cli'[c].g \in Group /\ cli'[c].id \in Id
      /\ cli'[c].h \in Hba /\ cli'[c].devsLeft \subseteq Object
  BY StartType DEF TypeOK, CliState
<1>. USE <1>1, <1>2, <1>3 DEF Begun, Making, Loops, dirs, attrs, usage, saved
<1>4. NotRefused(cli[c])'
  BY DEF NotRefused
<1>5. HbaLevel(cli[c])'
  BY DEF HbaLevel
<1>6. DevLevel(cli[c])'
  BY DEF DevLevel, ObjectsOf, TypeOK
<1>7. MakeLevel(cli[c])'
  BY DEF MakeLevel
<1>8. PrLevel(cli[c])'
  BY DEF PrLevel
<1>9. GroupLevel(cli[c])'
  BY DEF GroupLevel, DefaultsOK, Gp
<1>10. DoneLevel(cli[c])'
  BY DEF DoneLevel
<1>. QED BY <1>4, <1>5, <1>6, <1>7, <1>8, <1>9, <1>10 DEF Undisturbed

\* A command that makes something leaves its object where it can be taken back, and its group
\* with what is saved of it.
LEMMA BuildUndisturbed ==
    ASSUME TypeOK, TreeOK, NEW c \in Cli, Staged(cli[c]), Undisturbed(cli[c]), Build(c)
    PROVE  Undisturbed(cli[c])'
<1>. USE GotoMoves, Names DEF Moved, Same, At, Staged, Undisturbed, NotRefused, DoneLevel, Making,
       Loops, Freeing, Serials, dirs, attrs, usage, saved
<1>1. CASE MkdirHba(c)
  BY <1>1 DEF MkdirHba, HbaLevel, DevLevel, MakeLevel, PrLevel, GroupLevel
<1>2. CASE MkdirDev(c)
  <2>1. MakeLevel(cli[c])'
    <3>1. CASE HbaOf(c) \in hbas /\ cli[c].d \notin devs
      <4>1. cli[c].d \notin linked /\ \A g \in Group : <<cli[c].d, g>> \notin groups
        BY <3>1 DEF TreeOK, ParentsOK, OwnersOK
      <4>2. RemovableDev(cli[c].d)'
        BY <1>2, <3>1, <4>1 DEF MkdirDev, NewDev, RemovableDev, GroupsOf
      <4>. QED BY <1>2, <3>1, <4>2 DEF MkdirDev, MakeLevel
    <3>2. CASE ~(HbaOf(c) \in hbas /\ cli[c].d \notin devs)
      BY <1>2, <3>2 DEF MkdirDev, MakeLevel
    <3>. QED BY <3>1, <3>2
  <2>2. /\ NotRefused(cli[c])' /\ DoneLevel(cli[c])' /\ HbaLevel(cli[c])' /\ DevLevel(cli[c])'
        /\ PrLevel(cli[c])' /\ GroupLevel(cli[c])'
    BY <1>2 DEF MkdirDev, HbaLevel, DevLevel, PrLevel, GroupLevel
  <2>. QED BY <2>1, <2>2
<1>3. CASE PluginEnables(c)
  BY <1>3 DEF PluginEnables, HbaLevel, DevLevel, MakeLevel, PrLevel, GroupLevel, AfterPlugin
<1>4. CASE PluginFails(c)
  BY <1>4 DEF PluginFails, HbaLevel, DevLevel, MakeLevel, PrLevel, GroupLevel, AfterPlugin
<1>5. CASE PluginRaises(c)
  <2>1. MakeLevel(cli[c])'
    BY <1>5 DEF PluginRaises, MakeLevel, RemovableDev, GroupsOf
  <2>2. /\ NotRefused(cli[c])' /\ DoneLevel(cli[c])' /\ HbaLevel(cli[c])' /\ DevLevel(cli[c])'
        /\ PrLevel(cli[c])' /\ GroupLevel(cli[c])'
    BY <1>5 DEF PluginRaises, HbaLevel, DevLevel, PrLevel, GroupLevel
  <2>. QED BY <2>1, <2>2
<1>6. CASE Rollback(c)
  <2>1. MakeLevel(cli[c])'
    BY <1>6 DEF Rollback, MakeLevel, ForgetDev
  <2>2. /\ NotRefused(cli[c])' /\ DoneLevel(cli[c])' /\ HbaLevel(cli[c])' /\ DevLevel(cli[c])'
        /\ PrLevel(cli[c])' /\ GroupLevel(cli[c])'
    BY <1>6 DEF Rollback, HbaLevel, DevLevel, PrLevel, GroupLevel
  <2>. QED BY <2>1, <2>2
<1>7. CASE SetUnitSerial(c)
  BY <1>7 DEF SetUnitSerial, HbaLevel, DevLevel, MakeLevel, PrLevel, GroupLevel
<1>8. CASE ProcessAptpl(c)
  <2>1. /\ Same(cli[c], cli'[c]) /\ cli[c].cmd \in {"setunitserialwithmd", "praptpl"}
        /\ cli'[c].pc \in {"ok", "mdDir", "err"} /\ UNCHANGED <<dirs, attrs, linked, saved>>
    BY <1>8, SwallowedMoves DEF ProcessAptpl
  <2>2. PrLevel(cli[c])'
    <3>1. CASE cli[c].d \notin devs
      BY <1>8, <2>1, <3>1 DEF ProcessAptpl, PrLevel
    <3>2. CASE cli[c].d \in devs
      <4>1. PICK refused \in BOOLEAN :
              /\ reserved' = IF aptpl[serial[cli[c].d]] # "held" \/ refused
                             THEN reserved ELSE reserved \cup {cli[c].d}
              /\ Swallowed(c, refused, IF cli[c].cmd = "praptpl" THEN "ok" ELSE "mdDir")
        BY <1>8, <3>2 DEF ProcessAptpl
      <4>2. cli'[c].refused = (cli[c].refused \/ refused)
        BY <4>1, SwallowedMoves
      <4>. QED BY <2>1, <4>1, <4>2 DEF PrLevel
    <3>. QED BY <3>1, <3>2
  <2>. QED BY <2>1, <2>2 DEF HbaLevel, DevLevel, MakeLevel, GroupLevel
<1>9. CASE CheckMetadataDir(c)
  BY <1>9 DEF CheckMetadataDir, HbaLevel, DevLevel, MakeLevel, PrLevel, GroupLevel
<1>10. CASE MkdirSibling(c)
  BY <1>10 DEF MkdirSibling, HbaLevel, DevLevel, MakeLevel, PrLevel, GroupLevel
<1>11. CASE MkdirGroup(c)
  BY <1>11 DEF MkdirGroup, HbaLevel, DevLevel, MakeLevel, PrLevel, GroupLevel
<1>12. CASE WriteGroupId(c)
  <2>1. GroupLevel(cli[c])'
    <3>1. CASE GpOf(c) \in groups
      <4>1. PICK refused \in BOOLEAN :
              /\ gpId' = IF refused THEN gpId ELSE [gpId EXCEPT ![GpOf(c)] = cli[c].id]
              /\ Swallowed(c, refused, "process")
        BY <1>12, <3>1 DEF WriteGroupId
      <4>2. /\ Same(cli[c], cli'[c]) /\ cli'[c].pc = "process"
            /\ cli'[c].refused = (cli[c].refused \/ refused)
        BY <4>1, SwallowedMoves
      <4>3. ~refused => gpId'[GpOf(c)] = cli[c].id
        BY <4>1 DEF TypeOK
      <4>4. cli'[c].refused \/ gpId'[GpOf(c)] = cli[c].id
        BY <4>2, <4>3
      <4>5. UNCHANGED groups
        BY <1>12 DEF WriteGroupId
      <4>. QED BY <3>1, <4>2, <4>4, <4>5 DEF GroupLevel
    <3>2. CASE GpOf(c) \notin groups
      BY <1>12, <3>2 DEF WriteGroupId, GroupLevel
    <3>. QED BY <3>1, <3>2
  <2>2. /\ NotRefused(cli[c])' /\ DoneLevel(cli[c])' /\ HbaLevel(cli[c])' /\ DevLevel(cli[c])'
        /\ MakeLevel(cli[c])' /\ PrLevel(cli[c])'
    BY <1>12, SwallowedMoves DEF WriteGroupId, HbaLevel, DevLevel, MakeLevel, PrLevel
  <2>. QED BY <2>1, <2>2
<1>13. CASE ProcessNoMetadata(c)
  BY <1>13 DEF ProcessNoMetadata, HbaLevel, DevLevel, MakeLevel, PrLevel, GroupLevel
<1>14. CASE ProcessMetadata(c)
  <2>1. GroupLevel(cli[c])'
    <3>1. /\ cli'[c].pc = IF FileOf(c).id = cli[c].id THEN "restore" ELSE "err"
          /\ cli'[c].file = FileOf(c) /\ cli'[c].cmd = cli[c].cmd /\ cli'[c].d = cli[c].d
          /\ cli'[c].g = cli[c].g /\ cli'[c].id = cli[c].id /\ cli'[c].refused = cli[c].refused
      BY <1>14 DEF ProcessMetadata, Become, TypeOK, CliState
    <3>2. UNCHANGED <<dirs, attrs, usage, saved>>
      BY <1>14 DEF ProcessMetadata
    <3>3. cli[c].pc = "process"
      BY <1>14 DEF ProcessMetadata
    <3>4. FileOf(c).id = cli[c].id => cli'[c].file.id = cli'[c].id
      BY <3>1
    <3>. QED BY <3>1, <3>2, <3>3, <3>4 DEF GroupLevel
  <2>2. /\ NotRefused(cli[c])' /\ DoneLevel(cli[c])' /\ HbaLevel(cli[c])' /\ DevLevel(cli[c])'
        /\ MakeLevel(cli[c])' /\ PrLevel(cli[c])'
    BY <1>14 DEF ProcessMetadata, HbaLevel, DevLevel, MakeLevel, PrLevel, Become, TypeOK,
       CliState
  <2>. QED BY <2>1, <2>2
<1>15. CASE ProcessGone(c)
  BY <1>15 DEF ProcessGone, HbaLevel, DevLevel, MakeLevel, PrLevel, GroupLevel
<1>16. CASE RestoreAccess(c)
  <2>1. GroupLevel(cli[c])'
    <3> DEFINE x == GpOf(c)
               f == <<serial[cli[c].d], cli[c].g>>
    <3>1. CASE x \in groups /\ ~cli'[c].refused
      <4>1. /\ Same(cli[c], cli'[c]) /\ cli'[c].pc = "status" /\ ~cli[c].refused
            /\ SetAccess(x, cli[c].file.access)
            /\ cli[c].pc = "restore" /\ cli[c].cmd = "addtgptgpwithmd"
            /\ UNCHANGED <<groups, serial, gpId, writeMd>>
        <5>1. At(c, "restore") /\ UNCHANGED <<groups, serial, gpId, writeMd>>
          BY <1>16 DEF RestoreAccess
        <5>2. \/ SetAccess(x, cli[c].file.access) /\ Swallowed(c, FALSE, "status")
              \/ Swallowed(c, TRUE, "status")
          BY <1>16, <3>1 DEF RestoreAccess
        <5>. QED BY <3>1, <5>1, <5>2, RestoreMoves
      <4>2. mdFile[f] = cli[c].file /\ cli[c].file.id = cli[c].id /\ gpId[x] = cli[c].id
        BY <4>1 DEF GroupLevel
      <4>3. access'[x] = cli[c].file.access
        BY <4>1 DEF SetAccess, TypeOK
      <4>4. x \notin writeMd' => mdFile'[f] = cli[c].file
        BY <4>1, <4>2 DEF SetAccess, FilesWith
      <4>5. <<cli'[c].d, cli'[c].g>> = x /\ <<serial'[cli'[c].d], cli'[c].g>> = f
        BY <4>1
      <4> HIDE DEF x, f
      <4>. QED BY <3>1, <4>1, <4>2, <4>3, <4>4, <4>5 DEF GroupLevel
    <3>2. CASE cli'[c].refused
      BY <3>2 DEF GroupLevel
    <3>3. CASE x \notin groups
      BY <1>16, <3>3 DEF RestoreAccess, GroupLevel
    <3>. QED BY <3>1, <3>2, <3>3
  <2>2. /\ NotRefused(cli[c])' /\ DoneLevel(cli[c])' /\ HbaLevel(cli[c])' /\ DevLevel(cli[c])'
        /\ MakeLevel(cli[c])' /\ PrLevel(cli[c])'
    BY <1>16, SwallowedMoves DEF RestoreAccess, HbaLevel, DevLevel, MakeLevel, PrLevel
  <2>. QED BY <2>1, <2>2
<1>17. CASE RestoreStatus(c)
  <2>1. GroupLevel(cli[c])'
    <3> DEFINE x == GpOf(c)
               f == <<serial[cli[c].d], cli[c].g>>
    <3>1. CASE x \in groups /\ ~cli'[c].refused
      <4>1. /\ Same(cli[c], cli'[c]) /\ cli'[c].pc = "writeMd" /\ ~cli[c].refused
            /\ SetStatus(x, cli[c].file.status)
            /\ cli[c].pc = "status" /\ cli[c].cmd = "addtgptgpwithmd"
            /\ UNCHANGED <<groups, serial, gpId, access, writeMd>>
        <5>1. At(c, "status") /\ UNCHANGED <<groups, serial, gpId, access, writeMd>>
          BY <1>17 DEF RestoreStatus
        <5>2. \/ SetStatus(x, cli[c].file.status) /\ Swallowed(c, FALSE, "writeMd")
              \/ Swallowed(c, TRUE, "writeMd")
          BY <1>17, <3>1 DEF RestoreStatus
        <5>. QED BY <3>1, <5>1, <5>2, RestoreMoves
      <4>2. /\ cli[c].file.id = cli[c].id /\ gpId[x] = cli[c].id
            /\ access[x] = cli[c].file.access /\ (x \notin writeMd => mdFile[f] = cli[c].file)
        BY <4>1 DEF GroupLevel
      <4>3. status'[x] = cli[c].file.status
        BY <4>1 DEF SetStatus, TypeOK
      <4>4. x \notin writeMd' => mdFile'[f] = cli[c].file
        BY <4>1, <4>2 DEF SetStatus, FilesWith
      <4>5. cli[c].file = [id |-> gpId'[x], access |-> access'[x], status |-> status'[x]]
        BY <4>1, <4>2, <4>3 DEF Saved
      <4>6. <<cli'[c].d, cli'[c].g>> = x /\ <<serial'[cli'[c].d], cli'[c].g>> = f
        BY <4>1
      <4> HIDE DEF x, f
      <4>. QED BY <3>1, <4>1, <4>2, <4>4, <4>5, <4>6 DEF GroupLevel
    <3>2. CASE cli'[c].refused
      BY <3>2 DEF GroupLevel
    <3>3. CASE x \notin groups
      BY <1>17, <3>3 DEF RestoreStatus, GroupLevel
    <3>. QED BY <3>1, <3>2, <3>3
  <2>2. /\ NotRefused(cli[c])' /\ DoneLevel(cli[c])' /\ HbaLevel(cli[c])' /\ DevLevel(cli[c])'
        /\ MakeLevel(cli[c])' /\ PrLevel(cli[c])'
    BY <1>17, SwallowedMoves DEF RestoreStatus, HbaLevel, DevLevel, MakeLevel, PrLevel
  <2>. QED BY <2>1, <2>2
<1>18. CASE EnableWriteMd(c)
  BY <1>18, SwallowedMoves DEF EnableWriteMd, HbaLevel, DevLevel, MakeLevel, PrLevel, GroupLevel
<1>19. CASE MkdirLuGroup(c)
  BY <1>19 DEF MkdirLuGroup, HbaLevel, DevLevel, MakeLevel, PrLevel, GroupLevel
<1>. QED BY <1>1, <1>2, <1>3, <1>4, <1>5, <1>6, <1>7, <1>8, <1>9, <1>10, <1>11, <1>12,
   <1>13, <1>14, <1>15, <1>16, <1>17, <1>18, <1>19 DEF Build

\* The order of tcm_unload: what each stage removes is empty by then, so that the kernel
\* refuses nothing but what is exported, and what the snapshots still hold is still there.
LEMMA TakeDownUndisturbed ==
    ASSUME TypeOK, TreeOK, NEW c \in Cli, Staged(cli[c]), Undisturbed(cli[c]), TakeDown(c)
    PROVE  Undisturbed(cli[c])'
<1>. USE GotoMoves, Names DEF Moved, Same, At, Staged, Undisturbed, NotRefused, DoneLevel, Making,
       Loops, Freeing, Serials, dirs, attrs, usage, saved
<1>1. CASE RmdirGroup(c)
  <2> DEFINE stage == IF cli[c].cmd = "deltgptgp" THEN "rmMd" ELSE "groups"
  <2>1. PICK g \in cli[c].groupsLeft :
          \/ /\ groups' = groups \ {<<cli[c].o, g>>}
             /\ Become(c, [cli[c] EXCEPT !.groupsLeft = cli[c].groupsLeft \ {g}, !.pc = stage])
          \/ /\ ~RemovableGroup(<<cli[c].o, g>>)
             /\ Goto(c, "err") /\ UNCHANGED groups
    BY <1>1, RmdirGroupStep
  <2>2. cli[c].pc = "groups" /\ UNCHANGED <<hbas, devs, luGps, usage, saved>>
    BY <1>1, RmdirGroupStep
  <2>3. g \in Group /\ cli[c].groupsLeft \subseteq Group
    BY DEF TypeOK, CliState
  <2>4. cli[c].cmd \in Loops => RemovableGroup(<<cli[c].o, g>>)
    BY <2>2, <2>3 DEF DevLevel, RemovableGroup
  <2>5. /\ cli'[c].cmd = cli[c].cmd /\ cli'[c].h = cli[c].h /\ cli'[c].o = cli[c].o
        /\ cli'[c].hbasLeft = cli[c].hbasLeft /\ cli'[c].devsLeft = cli[c].devsLeft
    <3> HIDE DEF stage
    <3>. QED BY <2>1, RmdirGroupMoves
  <2>6. cli'[c].cmd \in {"delhba", "unload", "freedev", "deltgptgp"}
    BY <2>2, <2>5
  <2>a. ASSUME Become(c, [cli[c] EXCEPT !.groupsLeft = cli[c].groupsLeft \ {g}, !.pc = stage])
        PROVE  /\ cli'[c].pc = stage /\ cli'[c].groupsLeft = cli[c].groupsLeft \ {g}
               /\ cli'[c].g = cli[c].g
    <3> HIDE DEF stage
    <3>1. cli[c] \in CliState
      BY DEF TypeOK
    <3>. QED BY <2>a, <3>1 DEF Become, TypeOK, CliState
  <2>7. ASSUME cli[c].cmd \in Loops
        PROVE  /\ cli'[c].pc = "groups" /\ cli'[c].groupsLeft = cli[c].groupsLeft \ {g}
               /\ groups' = groups \ {<<cli[c].o, g>>}
    <3>1. stage = "groups"
      BY <2>7
    <3>2. /\ Become(c, [cli[c] EXCEPT !.groupsLeft = cli[c].groupsLeft \ {g}, !.pc = stage])
          /\ groups' = groups \ {<<cli[c].o, g>>}
      BY <2>1, <2>4, <2>7
    <3> HIDE DEF stage
    <3>3. cli'[c].pc = stage /\ cli'[c].groupsLeft = cli[c].groupsLeft \ {g}
      BY <2>a, <3>2
    <3>. QED BY <3>1, <3>2, <3>3
  <2>8. DevLevel(cli[c])'
    <3>1. CASE cli[c].cmd \in Loops
      <4>1. \A x \in Group : <<cli[c].o, x>> \in groups' <=> <<cli[c].o, x>> \in groups /\ x # g
        BY <2>7, <3>1
      <4>2. \A x \in Group : <<cli[c].o, x>> \in groups /\ x # Default <=> x \in cli[c].groupsLeft
        BY <2>2, <3>1 DEF DevLevel
      <4>. QED BY <2>2, <2>5, <2>7, <3>1, <4>1, <4>2 DEF DevLevel
    <3>2. CASE cli[c].cmd \notin Loops
      BY <2>5, <3>2 DEF DevLevel
    <3>. QED BY <3>1, <3>2
  <2>9. HbaLevel(cli[c])'
    BY <2>2, <2>5, <2>7 DEF HbaLevel
  <2>10. NotRefused(cli[c])'
    BY <2>5, <2>7
  <2>11. DoneLevel(cli[c])'
    <3>1. CASE cli[c].cmd = "deltgptgp"
      <4>1. g = cli[c].g
        BY <2>2, <3>1
      <4> HIDE DEF stage
      <4>2. cli'[c].g = cli[c].g /\ cli'[c].pc \in {stage, "err"}
        <5>1. CASE Become(c, [cli[c] EXCEPT !.groupsLeft = cli[c].groupsLeft \ {g}, !.pc = stage])
          BY <2>a, <5>1
        <5>2. CASE Goto(c, "err")
          BY <5>2
        <5>. QED BY <2>1, <5>1, <5>2
      <4>3. cli'[c].pc = stage => groups' = groups \ {<<cli[c].o, g>>}
        BY <2>1, <3>1 DEF stage
      <4>4. stage = "rmMd"
        BY <3>1 DEF stage
      <4>. QED BY <2>5, <3>1, <4>1, <4>2, <4>3, <4>4
    <3>2. CASE cli[c].cmd # "deltgptgp"
      <4>1. stage = "groups"
        BY <3>2
      <4> HIDE DEF stage
      <4>2. cli'[c].pc \in {stage, "err"}
        <5>1. CASE Become(c, [cli[c] EXCEPT !.groupsLeft = cli[c].groupsLeft \ {g}, !.pc = stage])
          BY <2>a, <5>1
        <5>2. CASE Goto(c, "err")
          BY <5>2
        <5>. QED BY <2>1, <5>1, <5>2
      <4>. QED BY <2>5, <3>2, <4>1, <4>2
    <3>. QED BY <3>1, <3>2
  <2>. QED BY <2>6, <2>8, <2>9, <2>10, <2>11 DEF MakeLevel, PrLevel, GroupLevel
<1>2. CASE RmMd(c)
  BY <1>2 DEF RmMd, HbaLevel, DevLevel, MakeLevel, PrLevel, GroupLevel
<1>3. CASE ListDevs(c)
  <2>1. PICK h \in cli[c].hbasLeft :
          /\ cli'[c].cmd = cli[c].cmd
          /\ cli'[c].pc = IF h \in hbas THEN "devs" ELSE "err"
          /\ cli'[c].h = h
          /\ cli'[c].hbasLeft = cli[c].hbasLeft \ {h}
          /\ cli'[c].devsLeft = ObjectsOf(h)
    BY <1>3 DEF ListDevs, Become, TypeOK, CliState
  <2>2. cli[c].cmd = "unload" /\ cli[c].pc = "hbas" /\ UNCHANGED <<dirs, attrs, usage, saved>>
    BY <1>3 DEF ListDevs
  <2>3. hbas = cli[c].hbasLeft
    BY <2>2 DEF HbaLevel
  <2>4. HbaLevel(cli[c])'
    BY <2>1, <2>2, <2>3 DEF HbaLevel
  <2>5. DevLevel(cli[c])'
    BY <2>1, <2>2, <2>3 DEF DevLevel, ObjectsOf
  <2>. QED BY <2>1, <2>2, <2>3, <2>4, <2>5 DEF MakeLevel, PrLevel, GroupLevel
<1>4. CASE ListGroups(c)
  <2>1. PICK o \in cli[c].devsLeft :
          /\ cli'[c].cmd = cli[c].cmd /\ cli'[c].h = cli[c].h
          /\ cli'[c].hbasLeft = cli[c].hbasLeft
          /\ cli'[c].pc = IF o \in devs THEN "groups" ELSE "err"
          /\ cli'[c].o = o
          /\ cli'[c].devsLeft = cli[c].devsLeft \ {o}
          /\ cli'[c].groupsLeft = GroupsOf(o) \ {Default}
    BY <1>4 DEF ListGroups, Become, TypeOK, CliState
  <2>2. /\ cli[c].cmd \in Freeing /\ cli[c].pc = "devs"
        /\ UNCHANGED <<dirs, attrs, usage, saved>>
    BY <1>4 DEF ListGroups
  <2>3. cli[c].devsLeft \subseteq Object
    BY DEF TypeOK, CliState
  <2>4. cli[c].cmd \in Loops => o \in devs
    BY <2>2, <2>3 DEF DevLevel
  <2>5. HbaLevel(cli[c])'
    BY <2>1, <2>2, <2>4 DEF HbaLevel
  <2>6. DevLevel(cli[c])'
    BY <2>1, <2>2, <2>3, <2>4 DEF DevLevel, GroupsOf
  <2>. QED BY <2>1, <2>2, <2>4, <2>5, <2>6 DEF MakeLevel, PrLevel, GroupLevel
<1>5. CASE RmdirDev(c)
  <2>1. /\ cli[c].cmd \in Freeing /\ cli[c].pc = "groups" /\ cli[c].groupsLeft = {}
        /\ UNCHANGED <<hbas, luGps, linked>> /\ Same(cli[c], cli'[c])
    BY <1>5 DEF RmdirDev
  <2>2. cli[c].cmd \in Loops => cli[c].o \in devs /\ GroupsOf(cli[c].o) \subseteq {Default}
    BY <2>1 DEF DevLevel, GroupsOf
  <2>3. ASSUME cli[c].cmd \in Loops, RemovableDev(cli[c].o)
        PROVE  cli'[c].pc = "devs" /\ devs' = devs \ {cli[c].o}
    BY <1>5, <2>3 DEF RmdirDev, ForgetDev
  <2>4. ASSUME cli[c].cmd \in Loops, ~RemovableDev(cli[c].o)
        PROVE  cli'[c].pc = "err" /\ cli[c].o \in linked
    BY <1>5, <2>2, <2>4 DEF RmdirDev, RemovableDev
  <2>5. NotRefused(cli[c])' /\ DoneLevel(cli[c])'
    <3>1. cli[c].cmd = "freedev" /\ cli'[c].pc # "err" => cli[c].o \notin devs'
      BY <1>5 DEF RmdirDev, ForgetDev
    <3>2. cli[c].cmd = "freedev" => cli'[c].pc \in {"rmAptpl", "err"}
      BY <1>5 DEF RmdirDev
    <3>. QED BY <2>1, <2>3, <2>4, <3>1, <3>2
  <2>6. HbaLevel(cli[c])'
    BY <2>1, <2>3, <2>4 DEF HbaLevel
  <2>7. DevLevel(cli[c])'
    BY <2>1, <2>3, <2>4 DEF DevLevel
  <2>. QED BY <2>1, <2>5, <2>6, <2>7 DEF MakeLevel, PrLevel, GroupLevel
<1>6. CASE RmAptpl(c)
  BY <1>6 DEF RmAptpl, HbaLevel, DevLevel, MakeLevel, PrLevel, GroupLevel
<1>7. CASE RmMdDir(c)
  BY <1>7 DEF RmMdDir, HbaLevel, DevLevel, MakeLevel, PrLevel, GroupLevel
<1>8. CASE RmdirHba(c)
  <2>1. /\ cli[c].cmd \in Loops /\ cli[c].pc = "devs" /\ cli[c].devsLeft = {}
        /\ UNCHANGED <<devs, luGps, linked>> /\ Same(cli[c], cli'[c])
    BY <1>8 DEF RmdirHba
  <2>2. cli[c].h \in hbas /\ ObjectsOf(cli[c].h) = {}
    BY <2>1 DEF HbaLevel, DevLevel, ObjectsOf, TypeOK
  <2>3. /\ hbas' = hbas \ {cli[c].h}
        /\ cli'[c].pc = IF cli[c].cmd = "delhba" THEN "ok" ELSE "hbas"
    BY <1>8, <2>2 DEF RmdirHba
  <2>4. HbaLevel(cli[c])'
    BY <2>1, <2>3 DEF HbaLevel
  <2>. QED BY <2>1, <2>3, <2>4 DEF DevLevel, MakeLevel, PrLevel, GroupLevel
<1>9. CASE ListLuGroups(c)
  BY <1>9 DEF ListLuGroups, HbaLevel, DevLevel, MakeLevel, PrLevel, GroupLevel, Become,
     TypeOK, CliState
<1>10. CASE RmdirLuGroup(c)
  BY <1>10 DEF RmdirLuGroup, HbaLevel, DevLevel, MakeLevel, PrLevel, GroupLevel, Become,
     TypeOK, CliState
<1>11. CASE UnloadModules(c)
  <2>1. PICK refused \in BOOLEAN :
          /\ hbas # {} \/ luGps # {} => refused
          /\ Swallowed(c, refused, IF refused THEN "err" ELSE "ok")
    BY <1>11 DEF UnloadModules
  <2>2. /\ cli[c].cmd = "unload" /\ cli[c].pc = "luGps" /\ cli[c].luGpsLeft = {}
        /\ UNCHANGED <<dirs, attrs, usage, saved>>
    BY <1>11 DEF UnloadModules
  <2>3. hbas = {} /\ luGps = {}
    BY <2>2 DEF HbaLevel
  <2> DEFINE stage == IF refused THEN "err" ELSE "ok"
  <2>4. (stage = "err" /\ refused) \/ stage = "ok"
    OBVIOUS
  <2>5. Swallowed(c, refused, stage)
    BY <2>1
  <2> HIDE DEF stage
  <2>6. /\ Same(cli[c], cli'[c]) /\ cli'[c].pc = stage
        /\ cli'[c].refused = (cli[c].refused \/ refused)
    BY <2>5, SwallowedMoves
  <2>. QED BY <2>2, <2>3, <2>4, <2>6 DEF HbaLevel, DevLevel, MakeLevel, PrLevel, GroupLevel
<1>. QED BY <1>1, <1>2, <1>3, <1>4, <1>5, <1>6, <1>7, <1>8, <1>9, <1>10, <1>11 DEF
   TakeDown

\* Every step keeps it: a disturbed invocation is not alone any more.
LEMMA StepSolo ==
    ASSUME TypeOK, TreeOK, StagesOK, DefaultsOK, Solo, [Next]_vars
    PROVE  Solo'
<1>. USE DEF Solo
<1>1. ASSUME NEW c \in Cli, Start(c) PROVE Solo'
  <2>1. \A x \in Cli \ {c} : cli'[x] = [cli[x] EXCEPT !.alone = FALSE]
    BY <1>1, StartOutside
  <2>2. ASSUME NEW x \in Cli \ {c} PROVE ~cli'[x].alone /\ cli'[x].pc = cli[x].pc
    BY <2>1, SolitudeOff DEF TypeOK
  <2>3. cli'[c].alone => \A y \in Cli \ {c} : At(y, "idle")
    BY <1>1, StartBegun
  <2>4. SolitudeOK'
    BY <2>2, <2>3 DEF SolitudeOK, At
  <2>5. Undisturbed(cli[c])'
    BY <1>1, StartUndisturbed
  <2>. QED BY <2>2, <2>4, <2>5 DEF AloneOK
<1>2. ASSUME NEW c \in Cli, Own(c), cli'[c].alone => Undisturbed(cli[c])' PROVE Solo'
  <2>1. \A x \in Cli \ {c} : ~cli'[x].alone
    BY <1>2 DEF Own, SolitudeOK, At
  <2>2. cli'[c].alone => \A x \in Cli \ {c} : At(x, "idle")'
    BY <1>2 DEF Own, SolitudeOK, At
  <2>. QED BY <1>2, <2>1, <2>2 DEF SolitudeOK, AloneOK
<1>3. ASSUME NEW c \in Cli, Build(c) PROVE Solo'
  <2>1. Own(c)
    BY <1>3, BuildOwn
  <2>2. cli'[c].alone => Undisturbed(cli[c])'
    BY <1>3, <2>1, BuildUndisturbed DEF Own, AloneOK, StagesOK
  <2>. QED BY <1>2, <2>1, <2>2
<1>4. ASSUME NEW c \in Cli, TakeDown(c) PROVE Solo'
  <2>1. Own(c)
    BY <1>4, TakeDownOwn
  <2>2. cli'[c].alone => Undisturbed(cli[c])'
    BY <1>4, <2>1, TakeDownUndisturbed DEF Own, AloneOK, StagesOK
  <2>. QED BY <1>2, <2>1, <2>2
<1>5. ASSUME NEW c \in Cli, Exit(c) \/ Killed(c) PROVE Solo'
  <2>1. Own(c) /\ ~cli'[c].alone
    BY <1>5, EndOwn
  <2>. QED BY <1>2, <2>1
<1>6. ASSUME Around PROVE Solo'
  <2>1. \A x \in Cli : ~cli'[x].alone
    <3>1. CASE Interfere
      BY <3>1, SolitudeOff DEF Interfere, TypeOK
    <3>2. CASE Reboot
      BY <3>2, IdleStaged DEF Reboot
    <3>. QED BY <1>6, <3>1, <3>2 DEF Around, ChangeAccess, Link, Unlink, Register, Deregister
  <2>. QED BY <2>1 DEF SolitudeOK, AloneOK
<1>7. CASE UNCHANGED vars
  <2>1. SolitudeOK'
    BY <1>7 DEF SolitudeOK, At, vars
  <2>2. ASSUME NEW s, Undisturbed(s) PROVE
           /\ NotRefused(s)' /\ DoneLevel(s)' /\ HbaLevel(s)' /\ DevLevel(s)' /\ MakeLevel(s)'
           /\ PrLevel(s)' /\ GroupLevel(s)'
    <3>. USE <1>7, <2>2 DEF Undisturbed, NotRefused, DoneLevel, vars, dirs, attrs, usage, saved
    <3>1. HbaLevel(s)'
      BY DEF HbaLevel
    <3>2. DevLevel(s)'
      BY DEF DevLevel
    <3>3. MakeLevel(s)'
      BY DEF MakeLevel, RemovableDev, GroupsOf
    <3>4. PrLevel(s)'
      BY DEF PrLevel
    <3>5. GroupLevel(s)'
      BY DEF GroupLevel
    <3>. QED BY <3>1, <3>2, <3>3, <3>4, <3>5
  <2>3. AloneOK'
    BY <1>7, <2>2 DEF AloneOK, Undisturbed, vars
  <2>. QED BY <2>1, <2>3
<1>. QED BY <1>1, <1>3, <1>4, <1>5, <1>6, <1>7 DEF Next

\* At every stage of an invocation that nothing disturbs the tree is what the invocation
\* takes it to be, whatever other invocations left behind before.
THEOREM SoloKept == Spec => []Solo
<1>1. Init => Solo
  BY IdleStaged DEF Init, Solo, SolitudeOK, AloneOK
<1>. QED BY <1>1, TypeCorrect, TreeStaysWhole, StagesKept, DefaultsKept, StepSolo, PTL DEF Spec

\* --delhba and --unload that run alone are refused only what a fabric exports; the modules
\* alone may stay, and by then nothing is configured in them.
THEOREM TeardownSucceeds == Spec => []TeardownAloneSucceeds
<1>1. Solo => TeardownAloneSucceeds
  BY DEF Solo, AloneOK, Undisturbed, NotRefused, Loops, TeardownAloneSucceeds, At
<1>. QED BY <1>1, SoloKept, PTL

\* A removal that runs alone and ends well has removed what it was to remove.
THEOREM RemovalsComplete == Spec => []RemovedIsGone
<1>1. Solo => RemovedIsGone
  BY DEF Solo, AloneOK, Undisturbed, DoneLevel, RemovedIsGone, At
<1>. QED BY <1>1, SoloKept, PTL

\* A failed --createdev or --establishdev that runs alone takes its directory back.
THEOREM FailedCreateRollsBack == Spec => []FailedCreateLeavesNoDev
<1>1. Solo => FailedCreateLeavesNoDev
  BY DEF Solo, AloneOK, Undisturbed, MakeLevel, Making, FailedCreateLeavesNoDev, At
<1>. QED BY <1>1, SoloKept, PTL

\* An undisturbed --setunitserialwithmd brings the reservations of its serial back, unless the
\* kernel refuses them.
THEOREM ReservationsRestored == Spec => []RestoresReservations
<1>1. Solo => RestoresReservations
  BY DEF Solo, AloneOK, Undisturbed, PrLevel, RestoresReservations, At
<1>. QED BY <1>1, SoloKept, PTL

\* Only the last step of --addtgptgpwithmd makes a group write.
LEMMA StepWriter ==
    ASSUME TypeOK, Solo, [Next]_vars,
           NEW c \in Cli, cli[c].alone, ~cli[c].refused, At(c, "writeMd"), Staged(cli[c]),
           NEW x \in writeMd' \ writeMd
    PROVE  mdFile[<<serial[x[1]], x[2]>>] \in
             {None, [id |-> gpId[x], access |-> access[x], status |-> status[x]]}
<1>1. PICK y \in Cli : EnableWriteMd(y)
  <2>1. ASSUME writeMd' \subseteq writeMd PROVE FALSE
    BY <2>1
  <2>2. ASSUME NEW y \in Cli, Build(y) PROVE EnableWriteMd(y)
    BY <2>1, <2>2 DEF Build, MkdirHba, MkdirDev, PluginEnables, PluginFails, PluginRaises,
       Rollback, ForgetDev, SetUnitSerial, ProcessAptpl, CheckMetadataDir, MkdirSibling,
       MkdirGroup, WriteGroupId, ProcessNoMetadata, ProcessMetadata, ProcessGone,
       RestoreAccess, RestoreStatus, MkdirLuGroup, attrs
  <2>3. ASSUME NEW y \in Cli, TakeDown(y) PROVE FALSE
    <3>1. CASE RmdirGroup(y)
      <4>1. writeMd' \subseteq writeMd
        BY <3>1, RmdirGroupStep
      <4>. QED BY <2>1, <4>1
    <3>2. CASE RmdirDev(y)
      BY <2>1, <3>2 DEF RmdirDev, ForgetDev, attrs
    <3>. QED BY <2>1, <2>3, <3>1, <3>2 DEF TakeDown, RmMd, ListDevs, ListGroups, RmAptpl,
         RmMdDir, RmdirHba, ListLuGroups, RmdirLuGroup, UnloadModules, attrs
  <2>4. ASSUME NEW y \in Cli, Start(y) \/ Exit(y) \/ Killed(y) PROVE FALSE
    BY <2>1, <2>4, StartOutside DEF Exit, Killed, attrs
  <2>5. CASE Around
    BY <2>1, <2>5 DEF Around, ChangeAccess, Link, Unlink, Register, Deregister, Reboot, attrs
  <2>6. CASE UNCHANGED vars
    BY <2>1, <2>6 DEF vars, attrs
  <2>. QED BY <2>2, <2>3, <2>4, <2>5, <2>6 DEF Next
<1>2. y = c
  BY <1>1 DEF EnableWriteMd, Solo, SolitudeOK, At
<1>3. x = GpOf(c)
  BY <1>1, <1>2 DEF EnableWriteMd
<1>4. GroupLevel(cli[c]) /\ cli[c].cmd = "addtgptgpwithmd" /\ cli[c].pc = "writeMd"
  BY DEF Solo, AloneOK, Undisturbed, Staged, At
<1>. QED BY <1>3, <1>4 DEF GroupLevel, GpOf

\* As long as the kernel refuses nothing, a group made by an undisturbed invocation begins to
\* write only over its own identifier and the access state and status it has.
THEOREM WritersStartFromSaved == Spec => WriterStartsFromSaved
<1>1. TypeOK /\ StagesOK /\ Solo /\ [Next]_vars =>
        [\A c \in Cli : cli[c].alone /\ ~cli[c].refused /\ At(c, "writeMd") =>
           \A x \in writeMd' \ writeMd :
             mdFile[<<serial[x[1]], x[2]>>] \in
               {None, [id |-> gpId[x], access |-> access[x], status |-> status[x]]}]_vars
  BY StepWriter DEF StagesOK
<1>. QED BY <1>1, TypeCorrect, StagesKept, SoloKept, PTL DEF Spec, WriterStartsFromSaved

=============================================================================
