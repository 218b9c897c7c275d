--------------------------- MODULE LioNode_proofs ---------------------------
(* Theorems about LioNode, for every value of its constants. *)
EXTENDS LioNode, TLAPS

-----------------------------------------------------------------------------
(* Process states *)

Adding == {"addtpg", "addnp", "addnodeacl", "addlun", "addlunacl"}

\* An idle process is a well-formed one.
LEMMA IdleType == Idle \in CliState
<1>1. /\ (CHOOSE t \in Tpg : TRUE) \in Tpg
      /\ (CHOOSE n \in Portal : TRUE) \in Portal
      /\ (CHOOSE i \in Initiator : TRUE) \in Initiator
      /\ (CHOOSE l \in Lun : TRUE) \in Lun
      /\ (CHOOSE m \in MappedLun : TRUE) \in MappedLun
      /\ (CHOOSE d \in Dev : TRUE) \in Dev
  <2>1. Tpg # {} /\ Portal # {} /\ Initiator # {} /\ Lun # {} /\ MappedLun # {} /\ Dev # {}
    <3>1. PICK iqn \in IQN, tpgt \in TPGT : TRUE
      BY SomeNames
    <3>2. <<iqn, tpgt>> \in Tpg
      BY <3>1 DEF Tpg
    <3>. QED BY <3>2, SomeNames
  <2>. QED BY <2>1
<1>. QED BY <1>1 DEF Idle, CliState, Stages

\* Starting an invocation only changes the processes.
LEMMA BeginType ==
    ASSUME TypeOK, NEW c \in Cli, NEW s \in CliState, Begin(c, s)
    PROVE  TypeOK'
<1> DEFINE alone == \A y \in Cli \ {c} : At(y, "idle")
<1>1. cli' \in [Cli -> CliState]
  <2>1. alone \in BOOLEAN
    OBVIOUS
  <2>2. [s EXCEPT !.alone = alone] \in CliState
    <3> HIDE DEF alone
    <3>. QED BY <2>1 DEF CliState
  <2>3. ASSUME NEW x \in Cli PROVE [cli[x] EXCEPT !.alone = FALSE] \in CliState
    BY ZenonT(60) DEF TypeOK, CliState
  <2>. QED BY <2>2, <2>3 DEF Begin
<1>. QED BY <1>1 DEF TypeOK, Begin, dirs, links, attrs, saved

\* So does going on to another stage.
LEMMA GotoType ==
    ASSUME TypeOK, NEW c \in Cli, NEW pc \in Stages, Goto(c, pc)
    PROVE  cli' \in [Cli -> CliState]
BY DEF TypeOK, Goto, Become, CliState

\* ... and the end of everybody's solitude.
LEMMA InterfereType ==
    ASSUME TypeOK, Interfere
    PROVE  cli' \in [Cli -> CliState]
<1>1. ASSUME NEW x \in Cli PROVE [cli[x] EXCEPT !.alone = FALSE] \in CliState
  <2>1. cli[x] \in CliState
    BY DEF TypeOK
  <2>. QED BY <2>1 DEF CliState
<1>. QED BY <1>1 DEF Interfere

\* An update of one process that stays a well-formed process keeps the type of cli.
LEMMA UpdateType ==
    ASSUME TypeOK, NEW c \in Cli, NEW s \in CliState, cli' = [cli EXCEPT ![c] = s]
    PROVE  cli' \in [Cli -> CliState]
BY DEF TypeOK

LEMMA StartType ==
    ASSUME TypeOK, NEW c \in Cli, Start(c)
    PROVE  TypeOK'
<1>. USE IdleType, BeginType DEF Stages, Commands
<1>0. ASSUME NEW cmd \in Adding, NEW t \in Tpg, NEW n \in Portal, NEW i \in Initiator,
             NEW l \in Lun, NEW m \in MappedLun, NEW d \in Dev
      PROVE  /\ [Idle EXCEPT !.cmd = cmd, !.pc = "mkdir", !.t = t] \in CliState
             /\ [Idle EXCEPT !.cmd = cmd, !.pc = "mkdir", !.t = t, !.n = n] \in CliState
             /\ [Idle EXCEPT !.cmd = cmd, !.pc = "mkdir", !.t = t, !.i = i] \in CliState
             /\ [Idle EXCEPT !.cmd = cmd, !.pc = "mkdir", !.t = t, !.l = l, !.d = d] \in CliState
             /\ [Idle EXCEPT !.cmd = cmd, !.pc = "mkdir", !.t = t, !.i = i, !.l = l, !.m = m]
                \in CliState
  <2>1. cmd \in Commands \cup {"none"}
    BY <1>0 DEF Adding
  <2> HIDE BeginType DEF Commands
  <2>. QED BY <2>1 DEF CliState
<1>1. CASE StartAddTpg(c)
  <2>1. PICK t \in Tpg \ tpgs : Begin(c, [Idle EXCEPT !.cmd = "addtpg", !.pc = "mkdir",
           !.t = t])
    BY <1>1 DEF StartAddTpg
  <2>2. [Idle EXCEPT !.cmd = "addtpg", !.pc = "mkdir", !.t = t] \in CliState
    BY <1>0, SomeNames DEF Adding
  <2>. QED BY <2>1, <2>2
<1>2. CASE StartAddNp(c)
  <2>1. PICK t \in Tpg, n \in Portal : Begin(c, [Idle EXCEPT !.cmd = "addnp", !.pc = "mkdir",
           !.t = t, !.n = n])
    BY <1>2 DEF StartAddNp
  <2>2. [Idle EXCEPT !.cmd = "addnp", !.pc = "mkdir", !.t = t, !.n = n] \in CliState
    BY <1>0, SomeNames DEF Adding
  <2>. QED BY <2>1, <2>2
<1>3. CASE StartAddNodeacl(c)
  <2>1. PICK t \in Tpg, i \in Initiator : Begin(c, [Idle EXCEPT !.cmd = "addnodeacl", !.pc = "mkdir",
           !.t = t, !.i = i])
    BY <1>3 DEF StartAddNodeacl
  <2>2. [Idle EXCEPT !.cmd = "addnodeacl", !.pc = "mkdir", !.t = t, !.i = i] \in CliState
    BY <1>0, SomeNames DEF Adding
  <2>. QED BY <2>1, <2>2
<1>4. CASE StartAddPort(c)
  <2>1. PICK t \in Tpg, l \in Lun, d \in Dev : Begin(c, [Idle EXCEPT !.cmd = "addlun", !.pc = "mkdir",
           !.t = t, !.l = l, !.d = d])
    BY <1>4 DEF StartAddPort
  <2>2. [Idle EXCEPT !.cmd = "addlun", !.pc = "mkdir", !.t = t, !.l = l, !.d = d] \in CliState
    BY <1>0, SomeNames DEF Adding
  <2>. QED BY <2>1, <2>2
<1>5. CASE StartAddLunacl(c)
  <2>1. PICK t \in Tpg, i \in Initiator, l \in Lun, m \in MappedLun : Begin(c, [Idle EXCEPT !.cmd = "addlunacl", !.pc = "mkdir",
           !.t = t, !.i = i, !.l = l, !.m = m])
    BY <1>5 DEF StartAddLunacl
  <2>2. [Idle EXCEPT !.cmd = "addlunacl", !.pc = "mkdir", !.t = t, !.i = i, !.l = l, !.m = m] \in CliState
    BY <1>0, SomeNames DEF Adding
  <2>. QED BY <2>1, <2>2
<1>6. CASE StartProcessSecondaryMd(c)
  <2>1. PICK t \in Tpg, l \in Lun : Begin(c, [Idle EXCEPT !.cmd = "aluasecmd", !.t = t, !.l = l,
           !.pc  = IF mdFile[<<t, l>>] = None THEN "mdDir" ELSE "restore",
           !.md  = mdFile[<<t, l>>]])
    BY <1>6 DEF StartProcessSecondaryMd
  <2> DEFINE stage == IF mdFile[<<t, l>>] = None THEN "mdDir" ELSE "restore"
  <2> DEFINE md == mdFile[<<t, l>>]
  <2>2. stage \in Stages /\ md \in Secondary \cup {None}
    BY <2>1 DEF TypeOK, Port
  <2>3. [Idle EXCEPT !.cmd = "aluasecmd", !.t = t, !.l = l, !.pc = stage, !.md = md] \in CliState
    <3> HIDE BeginType DEF stage, md, Stages
    <3>. QED BY <2>2 DEF CliState
  <2> DEFINE s == [Idle EXCEPT !.cmd = "aluasecmd", !.t = t, !.l = l, !.pc = stage, !.md = md]
  <2>4. s \in CliState /\ Begin(c, s)
    BY <2>1, <2>3, Zenon
  <2> HIDE DEF s
  <2>. QED BY <2>4
<1>7. CASE StartDelLunacl(c)
  <2>1. PICK x \in mapped : Begin(c, [Idle EXCEPT !.cmd = "dellunacl", !.pc = "mappeds",
           !.t = x[1], !.i = x[2], !.mappedLeft = {x[3]}])
    BY <1>7 DEF StartDelLunacl
  <2>2. x[1] \in Tpg /\ x[2] \in Initiator /\ x[3] \in MappedLun
    BY <2>1 DEF TypeOK, Mapped
  <2>3. [Idle EXCEPT !.cmd = "dellunacl", !.pc = "mappeds",
           !.t = x[1], !.i = x[2], !.mappedLeft = {x[3]}] \in CliState
    BY ZenonT(60), <2>2 DEF CliState
  <2>. QED BY <2>1, <2>3
<1>8. CASE StartDelNodeacl(c)
  <2>1. PICK x \in nacls : Begin(c, [Idle EXCEPT !.cmd = "delnodeacl", !.pc = "nacls",
           !.t = x[1], !.naclsLeft = {x[2]}])
    BY <1>8 DEF StartDelNodeacl
  <2>2. x[1] \in Tpg /\ x[2] \in Initiator
    BY <2>1 DEF TypeOK, Nacl
  <2>3. [Idle EXCEPT !.cmd = "delnodeacl", !.pc = "nacls",
           !.t = x[1], !.naclsLeft = {x[2]}] \in CliState
    BY ZenonT(60), <2>2 DEF CliState
  <2>. QED BY <2>1, <2>3
<1>9. CASE StartDelNp(c)
  <2>1. PICK x \in nps : Begin(c, [Idle EXCEPT !.cmd = "delnp", !.pc = "nps", !.t = x[1],
             !.npsLeft = {x[2]}])
    BY <1>9 DEF StartDelNp
  <2>2. x[1] \in Tpg /\ x[2] \in Portal
    BY <2>1 DEF TypeOK, Np
  <2>3. [Idle EXCEPT !.cmd = "delnp", !.pc = "nps", !.t = x[1], !.npsLeft = {x[2]}] \in CliState
    BY ZenonT(60), <2>2 DEF CliState
  <2>. QED BY <2>1, <2>3
<1>10. CASE StartDelPort(c)
  <2>1. PICK x \in luns : Begin(c, [Idle EXCEPT !.cmd = "dellun", !.pc = "luns", !.t = x[1],
             !.lunsLeft = {x[2]}])
    BY <1>10 DEF StartDelPort
  <2>2. x[1] \in Tpg /\ x[2] \in Lun
    BY <2>1 DEF TypeOK, Port
  <2>3. [Idle EXCEPT !.cmd = "dellun", !.pc = "luns", !.t = x[1], !.lunsLeft = {x[2]}] \in CliState
    BY ZenonT(60), <2>2 DEF CliState
  <2>. QED BY <2>1, <2>3
<1>11. CASE StartDelTpg(c)
  <2>1. PICK t \in tpgs : Begin(c, [Idle EXCEPT !.cmd = "deltpg", !.pc = "disable", !.t = t])
    BY <1>11 DEF StartDelTpg
  <2>2. t \in Tpg
    BY <2>1 DEF TypeOK
  <2>3. [Idle EXCEPT !.cmd = "deltpg", !.pc = "disable", !.t = t] \in CliState
    BY ZenonT(60), <2>2 DEF CliState
  <2>. QED BY <2>1, <2>3
<1>12. CASE StartDelIqn(c)
  <2>1. PICK iqn \in iqns : Begin(c, [Idle EXCEPT !.cmd = "deliqn", !.pc = "iqns", !.iqnsLeft = {iqn}])
    BY <1>12 DEF StartDelIqn
  <2>2. {iqn} \subseteq IQN
    BY <2>1 DEF TypeOK
  <2>3. [Idle EXCEPT !.cmd = "deliqn", !.pc = "iqns", !.iqnsLeft = {iqn}] \in CliState
    BY ZenonT(60), <2>2 DEF CliState
  <2>. QED BY <2>1, <2>3
<1>13. CASE StartUnload(c)
  <2>1. iqns \subseteq IQN
    BY DEF TypeOK
  <2>2. [Idle EXCEPT !.cmd = "unload", !.pc = "iqns", !.iqnsLeft = iqns] \in CliState
    BY ZenonT(60), <2>1 DEF CliState
  <2>. QED BY <1>13, <2>2 DEF StartUnload
<1>. QED BY <1>1, <1>2, <1>3, <1>4, <1>5, <1>6, <1>7, <1>8, <1>9, <1>10, <1>11, <1>12, <1>13
   DEF Start

\* The kernel gives a port a state, and saves states.
LEMMA OfflineType ==
    ASSUME TypeOK, NEW p \in Port, NEW bit \in BOOLEAN, SetOfflineBit(p, bit)
    PROVE  secondary' \in [Port -> Secondary] /\ mdFile' \in [Port -> Secondary \cup {None}]
<1>1. PICK status \in Status :
        /\ secondary' = [secondary EXCEPT ![p] = [offline |-> bit, status |-> status]]
        /\ mdFile' = FilesWith(p, [offline |-> bit, status |-> status])
  BY DEF SetOfflineBit
<1> DEFINE state == [offline |-> bit, status |-> status]
<1>2. state \in Secondary
  BY DEF Secondary
<1> HIDE DEF state
<1>. QED BY <1>1, <1>2 DEF state, TypeOK, FilesWith

LEMMA StatusType ==
    ASSUME TypeOK, NEW p \in Port, NEW status \in Status, SetStatus(p, status)
    PROVE  secondary' \in [Port -> Secondary] /\ mdFile' \in [Port -> Secondary \cup {None}]
<1> DEFINE state == [secondary[p] EXCEPT !.status = status]
<1>1. state \in Secondary
  BY DEF TypeOK, Secondary
<1>2. /\ secondary' = [secondary EXCEPT ![p] = state]
      /\ mdFile' \in {mdFile, FilesWith(p, state)}
  BY DEF SetStatus
<1> HIDE DEF state
<1>. QED BY <1>1, <1>2 DEF TypeOK, FilesWith

\* Whoever is about to restore what was saved has read a saved file.
MdRead == \A c \in Cli : cli[c].pc \in {"restore", "status"} => cli[c].md # None

\* The building steps keep the types.
LEMMA BuildType ==
    ASSUME TypeOK, MdRead, NEW c \in Cli, Build(c)
    PROVE  TypeOK'
<1>. USE GotoType DEF Stages, TypeOK, dirs, links, attrs, saved
<1>a. /\ cli[c] \in CliState
      /\ cli[c].t \in Tpg /\ cli[c].t[1] \in IQN /\ PortOf(c) \in Port
      /\ NaclOf(c) \in Nacl /\ MappedOf(c) \in Mapped
  BY DEF CliState, Tpg, Port, Nacl, Mapped, PortOf, NaclOf, MappedOf
<1>b. cli[c].pc \in {"restore", "status"} => cli[c].md \in Secondary
  BY DEF MdRead, CliState
<1>1. CASE MkdirTpg(c)
  BY <1>a, <1>1 DEF MkdirTpg, MakeTpg
<1>2. CASE MkdirNp(c)
  BY <1>a, <1>2 DEF MkdirNp, MakeTpg, CliState, Np
<1>3. CASE MkdirNacl(c)
  BY <1>a, <1>3 DEF MkdirNacl, MakeTpg
<1>4. CASE MkdirLun(c)
  BY <1>a, <1>4 DEF MkdirLun, MakeTpg
<1>5. CASE MkdirMapped(c)
  BY <1>a, <1>5 DEF MkdirMapped, MakeTpg
<1>6. CASE LinkPort(c)
  BY <1>a, <1>6 DEF LinkPort, CliState
<1>7. CASE LinkPortFails(c)
  BY <1>a, <1>7 DEF LinkPortFails
<1>8. CASE RollbackPort(c)
  BY <1>a, <1>8 DEF RollbackPort
<1>9. CASE LinkMapped(c)
  BY <1>a, <1>9 DEF LinkMapped, CliState
<1>10. CASE LinkMappedFails(c)
  BY <1>a, <1>10 DEF LinkMappedFails
<1>11. CASE CheckSecondaryMd(c)
  BY <1>a, <1>11 DEF CheckSecondaryMd
<1>12. CASE SetSecondaryWriteMd(c)
  BY <1>a, <1>12 DEF SetSecondaryWriteMd
<1>13. CASE RestoreOffline(c)
  <2>1. cli' \in [Cli -> CliState]
    BY <1>13 DEF RestoreOffline
  <2>2. cli[c].md \in Secondary
    BY <1>13, <1>b DEF RestoreOffline, At
  <2>3. secondary' \in [Port -> Secondary] /\ mdFile' \in [Port -> Secondary \cup {None}]
    BY <1>a, <1>13, <2>2, OfflineType DEF RestoreOffline, Secondary
  <2>. QED BY <1>13, <2>1, <2>3 DEF RestoreOffline
<1>14. CASE RestoreStatus(c)
  <2>1. cli' \in [Cli -> CliState]
    BY <1>14 DEF RestoreStatus
  <2>2. cli[c].md \in Secondary
    BY <1>14, <1>b DEF RestoreStatus, At
  <2>3. secondary' \in [Port -> Secondary] /\ mdFile' \in [Port -> Secondary \cup {None}]
    BY <1>a, <1>14, <2>2, StatusType DEF RestoreStatus, Secondary
  <2>. QED BY <1>14, <2>1, <2>3 DEF RestoreStatus
<1>15. CASE RestoreFails(c)
  BY <1>a, <1>15 DEF RestoreFails
<1>. QED BY <1>1, <1>2, <1>3, <1>4, <1>5, <1>6, <1>7, <1>8, <1>9, <1>10, <1>11, <1>12, <1>13,
   <1>14, <1>15 DEF Build

\* The removing steps keep the types.
LEMMA TakeDownType ==
    ASSUME TypeOK, NEW c \in Cli, TakeDown(c)
    PROVE  TypeOK'
<1>a. /\ cli[c] \in CliState
      /\ cli[c].t \in Tpg /\ cli[c].t[1] \in IQN /\ cli[c].t[2] \in TPGT
      /\ PortOf(c) \in Port /\ NaclOf(c) \in Nacl /\ MappedOf(c) \in Mapped
  BY DEF TypeOK, CliState, Tpg, Port, Nacl, Mapped, PortOf, NaclOf, MappedOf
<1>1. CASE ListTpgs(c)
  <2>1. PICK iqn \in cli[c].iqnsLeft :
           Become(c, [cli[c] EXCEPT
             !.pc = IF iqn \in iqns THEN "tpgs" ELSE "err",
             !.t = <<iqn, cli[c].t[2]>>,
             !.iqnsLeft = cli[c].iqnsLeft \ {iqn},
             !.tpgsLeft = {tpgt \in TPGT : <<iqn, tpgt>> \in tpgs},
             !.relisted = (cli[c].cmd = "deliqn")])
    BY <1>1 DEF ListTpgs
  <2> DEFINE stage == IF iqn \in iqns THEN "tpgs" ELSE "err"
  <2> DEFINE tpg == <<iqn, cli[c].t[2]>>
  <2> DEFINE left == cli[c].iqnsLeft \ {iqn}
  <2> DEFINE tags == {tpgt \in TPGT : <<iqn, tpgt>> \in tpgs}
  <2> DEFINE again == (cli[c].cmd = "deliqn")
  <2>2. stage \in Stages /\ tpg \in Tpg /\ left \in SUBSET IQN /\ tags \in SUBSET TPGT
             /\ again \in BOOLEAN
    BY <1>a, <2>1 DEF CliState, Tpg, Stages
  <2>3. [cli[c] EXCEPT !.pc = stage, !.t = tpg, !.iqnsLeft = left, !.tpgsLeft = tags,
             !.relisted = again] \in CliState
    <3> HIDE DEF stage, tpg, left, tags, again
    <3>. QED BY <1>a, <2>2 DEF CliState
  <2>4. cli' \in [Cli -> CliState]
    BY <2>1, <2>3, UpdateType DEF Become
  <2>. QED BY <1>1, <2>4 DEF ListTpgs, TypeOK, dirs, links, attrs, saved
<1>2. CASE RelistTpgs(c)
  <2>1. Become(c, [cli[c] EXCEPT
             !.pc = IF cli[c].t[1] \in iqns THEN "tpgs" ELSE "err",
             !.tpgsLeft = {tpgt \in TPGT : <<cli[c].t[1], tpgt>> \in tpgs},
             !.relisted = TRUE])
    BY <1>2 DEF RelistTpgs
  <2> DEFINE stage == IF cli[c].t[1] \in iqns THEN "tpgs" ELSE "err"
  <2> DEFINE tags == {tpgt \in TPGT : <<cli[c].t[1], tpgt>> \in tpgs}
  <2>2. stage \in Stages /\ tags \in SUBSET TPGT
    BY <1>a DEF CliState, Tpg, Stages
  <2>3. [cli[c] EXCEPT !.pc = stage, !.tpgsLeft = tags, !.relisted = TRUE] \in CliState
    <3> HIDE DEF stage, tags
    <3>. QED BY <1>a, <2>2 DEF CliState
  <2>4. cli' \in [Cli -> CliState]
    BY <2>1, <2>3, UpdateType DEF Become
  <2>. QED BY <1>2, <2>4 DEF RelistTpgs, TypeOK, dirs, links, attrs, saved
<1>3. CASE NextTpg(c)
  <2>1. PICK tpgt \in cli[c].tpgsLeft :
           Become(c, [cli[c] EXCEPT
             !.pc = IF cli[c].cmd = "deliqn" /\ <<cli[c].t[1], tpgt>> \notin tpgs THEN "err"
                        ELSE "disable",
             !.t = <<cli[c].t[1], tpgt>>,
             !.tpgsLeft = cli[c].tpgsLeft \ {tpgt}])
    BY <1>3 DEF NextTpg
  <2> DEFINE stage == IF cli[c].cmd = "deliqn" /\ <<cli[c].t[1], tpgt>> \notin tpgs THEN "err"
             ELSE "disable"
  <2> DEFINE tpg == <<cli[c].t[1], tpgt>>
  <2> DEFINE tags == cli[c].tpgsLeft \ {tpgt}
  <2>2. stage \in Stages /\ tpg \in Tpg /\ tags \in SUBSET TPGT
    BY <1>a, <2>1 DEF CliState, Tpg, Stages
  <2>3. [cli[c] EXCEPT !.pc = stage, !.t = tpg, !.tpgsLeft = tags] \in CliState
    <3> HIDE DEF stage, tpg, tags
    <3>. QED BY <1>a, <2>2 DEF CliState
  <2>4. cli' \in [Cli -> CliState]
    BY <2>1, <2>3, UpdateType DEF Become
  <2>. QED BY <1>3, <2>4 DEF NextTpg, TypeOK, dirs, links, attrs, saved
<1>4. CASE DisableTpg(c)
  <2>1. PICK refused \in SUBSET ({cli[c].t} \cap enabled) :
           /\ enabled' = (enabled \ {cli[c].t}) \cup refused
           /\ Become(c, [cli[c] EXCEPT
                !.pc = "npList", !.refused = IF refused = {} THEN {} ELSE {"enable"}])
    BY <1>4 DEF DisableTpg
  <2> DEFINE seen == IF refused = {} THEN {} ELSE {"enable"}
  <2>2. seen \in SUBSET {"enable", "iser"}
    OBVIOUS
  <2>3. [cli[c] EXCEPT !.pc = "npList", !.refused = seen] \in CliState
    <3> HIDE DEF seen
    <3>. QED BY <1>a, <2>2 DEF CliState, Stages
  <2>4. cli' \in [Cli -> CliState]
    BY <2>1, <2>3, UpdateType DEF Become
  <2>5. enabled' \subseteq Tpg
    BY <2>1 DEF TypeOK
  <2>. QED BY <1>4, <2>4, <2>5 DEF DisableTpg, TypeOK, dirs, links, attrs, saved
<1>5. CASE ListNps(c)
  <2>1. Become(c, [cli[c] EXCEPT
             !.pc = IF cli[c].t \in tpgs THEN "nps" ELSE "err",
             !.npsLeft = {n \in Portal : <<cli[c].t, n>> \in nps}])
    BY <1>5 DEF ListNps
  <2> DEFINE stage == IF cli[c].t \in tpgs THEN "nps" ELSE "err"
  <2> DEFINE left == {n \in Portal : <<cli[c].t, n>> \in nps}
  <2>2. stage \in Stages /\ left \in SUBSET Portal
    BY <1>a DEF CliState, Tpg, Stages
  <2>3. [cli[c] EXCEPT !.pc = stage, !.npsLeft = left] \in CliState
    <3> HIDE DEF stage, left
    <3>. QED BY <1>a, <2>2 DEF CliState
  <2>4. cli' \in [Cli -> CliState]
    BY <2>1, <2>3, UpdateType DEF Become
  <2>. QED BY <1>5, <2>4 DEF ListNps, TypeOK, dirs, links, attrs, saved
<1>6. CASE NextNp(c)
  <2>1. PICK n \in cli[c].npsLeft :
           Become(c, [cli[c] EXCEPT
             !.pc = IF <<cli[c].t, n>> \in iser THEN "npIser" ELSE "npRmdir",
             !.n = n,
             !.npsLeft = cli[c].npsLeft \ {n}])
    BY <1>6 DEF NextNp
  <2> DEFINE stage == IF <<cli[c].t, n>> \in iser THEN "npIser" ELSE "npRmdir"
  <2> DEFINE left == cli[c].npsLeft \ {n}
  <2>2. stage \in Stages /\ n \in Portal /\ left \in SUBSET Portal
    BY <1>a, <2>1 DEF CliState, Tpg, Stages
  <2>3. [cli[c] EXCEPT !.pc = stage, !.n = n, !.npsLeft = left] \in CliState
    <3> HIDE DEF stage, left
    <3>. QED BY <1>a, <2>2 DEF CliState
  <2>4. cli' \in [Cli -> CliState]
    BY <2>1, <2>3, UpdateType DEF Become
  <2>. QED BY <1>6, <2>4 DEF NextNp, TypeOK, dirs, links, attrs, saved
<1>7. CASE ListNacls(c)
  <2>1. Become(c, [cli[c] EXCEPT
             !.pc = IF cli[c].t \in tpgs THEN "nacls" ELSE "err",
             !.naclsLeft = {i \in Initiator : <<cli[c].t, i>> \in nacls}])
    BY <1>7 DEF ListNacls
  <2> DEFINE stage == IF cli[c].t \in tpgs THEN "nacls" ELSE "err"
  <2> DEFINE left == {i \in Initiator : <<cli[c].t, i>> \in nacls}
  <2>2. stage \in Stages /\ left \in SUBSET Initiator
    BY <1>a DEF CliState, Tpg, Stages
  <2>3. [cli[c] EXCEPT !.pc = stage, !.naclsLeft = left] \in CliState
    <3> HIDE DEF stage, left
    <3>. QED BY <1>a, <2>2 DEF CliState
  <2>4. cli' \in [Cli -> CliState]
    BY <2>1, <2>3, UpdateType DEF Become
  <2>. QED BY <1>7, <2>4 DEF ListNacls, TypeOK, dirs, links, attrs, saved
<1>8. CASE ListMapped(c)
  <2>1. PICK i \in cli[c].naclsLeft :
           Become(c, [cli[c] EXCEPT
             !.pc = IF <<cli[c].t, i>> \in nacls THEN "mappeds" ELSE "err",
             !.i = i,
             !.naclsLeft = cli[c].naclsLeft \ {i},
             !.mappedLeft = {m \in MappedLun : <<cli[c].t, i, m>> \in mapped}])
    BY <1>8 DEF ListMapped
  <2> DEFINE stage == IF <<cli[c].t, i>> \in nacls THEN "mappeds" ELSE "err"
  <2> DEFINE left == cli[c].naclsLeft \ {i}
  <2> DEFINE maps == {m \in MappedLun : <<cli[c].t, i, m>> \in mapped}
  <2>2. stage \in Stages /\ i \in Initiator /\ left \in SUBSET Initiator /\ maps \in SUBSET MappedLun
    BY <1>a, <2>1 DEF CliState, Tpg, Stages
  <2>3. [cli[c] EXCEPT !.pc = stage, !.i = i, !.naclsLeft = left, !.mappedLeft = maps] \in CliState
    <3> HIDE DEF stage, left, maps
    <3>. QED BY <1>a, <2>2 DEF CliState
  <2>4. cli' \in [Cli -> CliState]
    BY <2>1, <2>3, UpdateType DEF Become
  <2>. QED BY <1>8, <2>4 DEF ListMapped, TypeOK, dirs, links, attrs, saved
<1>9. CASE ListMappedLinks(c)
  <2>1. PICK m \in cli[c].mappedLeft :
           Become(c, [cli[c] EXCEPT
             !.pc = IF <<cli[c].t, cli[c].i, m>> \notin mapped THEN "err" ELSE
                        IF lioLun[<<cli[c].t, cli[c].i, m>>] # None THEN "mappedUnlink"
                        ELSE "mappedRmdir",
             !.m = m,
             !.mappedLeft = cli[c].mappedLeft \ {m}])
    BY <1>9 DEF ListMappedLinks
  <2> DEFINE stage == IF <<cli[c].t, cli[c].i, m>> \notin mapped THEN "err" ELSE
             IF lioLun[<<cli[c].t, cli[c].i, m>>] # None THEN "mappedUnlink" ELSE "mappedRmdir"
  <2> DEFINE left == cli[c].mappedLeft \ {m}
  <2>2. stage \in Stages /\ m \in MappedLun /\ left \in SUBSET MappedLun
    BY <1>a, <2>1 DEF CliState, Tpg, Stages
  <2>3. [cli[c] EXCEPT !.pc = stage, !.m = m, !.mappedLeft = left] \in CliState
    <3> HIDE DEF stage, left
    <3>. QED BY <1>a, <2>2 DEF CliState
  <2>4. cli' \in [Cli -> CliState]
    BY <2>1, <2>3, UpdateType DEF Become
  <2>. QED BY <1>9, <2>4 DEF ListMappedLinks, TypeOK, dirs, links, attrs, saved
<1>10. CASE UnlinkMapped(c)
  BY <1>a, <1>10, GotoType DEF UnlinkMapped, Stages, TypeOK, dirs, links, attrs, saved
<1>11. CASE RmdirMapped(c)
  BY <1>a, <1>11, GotoType DEF RmdirMapped, Stages, TypeOK, dirs, links, attrs, saved
<1>12. CASE RmdirNacl(c)
  BY <1>a, <1>12, GotoType DEF RmdirNacl, Stages, TypeOK, dirs, links, attrs, saved
<1>13. CASE ListLuns(c)
  <2>1. Become(c, [cli[c] EXCEPT
             !.pc = IF cli[c].t \in tpgs THEN "luns" ELSE "err",
             !.lunsLeft = {l \in Lun : <<cli[c].t, l>> \in luns}])
    BY <1>13 DEF ListLuns
  <2> DEFINE stage == IF cli[c].t \in tpgs THEN "luns" ELSE "err"
  <2> DEFINE left == {l \in Lun : <<cli[c].t, l>> \in luns}
  <2>2. stage \in Stages /\ left \in SUBSET Lun
    BY <1>a DEF CliState, Tpg, Stages
  <2>3. [cli[c] EXCEPT !.pc = stage, !.lunsLeft = left] \in CliState
    <3> HIDE DEF stage, left
    <3>. QED BY <1>a, <2>2 DEF CliState
  <2>4. cli' \in [Cli -> CliState]
    BY <2>1, <2>3, UpdateType DEF Become
  <2>. QED BY <1>13, <2>4 DEF ListLuns, TypeOK, dirs, links, attrs, saved
<1>14. CASE ListPortLinks(c)
  <2>1. PICK l \in cli[c].lunsLeft :
           Become(c, [cli[c] EXCEPT
             !.pc = IF <<cli[c].t, l>> \notin luns THEN "err" ELSE
                        IF dev[<<cli[c].t, l>>] # None THEN "lunUnlink" ELSE "lunRmdir",
             !.l = l,
             !.lunsLeft = cli[c].lunsLeft \ {l}])
    BY <1>14 DEF ListPortLinks
  <2> DEFINE stage == IF <<cli[c].t, l>> \notin luns THEN "err" ELSE
             IF dev[<<cli[c].t, l>>] # None THEN "lunUnlink" ELSE "lunRmdir"
  <2> DEFINE left == cli[c].lunsLeft \ {l}
  <2>2. stage \in Stages /\ l \in Lun /\ left \in SUBSET Lun
    BY <1>a, <2>1 DEF CliState, Tpg, Stages
  <2>3. [cli[c] EXCEPT !.pc = stage, !.l = l, !.lunsLeft = left] \in CliState
    <3> HIDE DEF stage, left
    <3>. QED BY <1>a, <2>2 DEF CliState
  <2>4. cli' \in [Cli -> CliState]
    BY <2>1, <2>3, UpdateType DEF Become
  <2>. QED BY <1>14, <2>4 DEF ListPortLinks, TypeOK, dirs, links, attrs, saved
<1>15. CASE UnlinkPort(c)
  <2>1. Online \in Secondary
    BY SomeNames DEF Online, Secondary
  <2>. QED BY <1>a, <1>15, <2>1, GotoType DEF UnlinkPort, Stages, TypeOK, dirs, links, attrs, saved
<1>16. CASE RmdirLun(c)
  BY <1>a, <1>16, GotoType DEF RmdirLun, Stages, TypeOK, dirs, links, attrs, saved
<1>17. CASE RmMdFile(c)
  BY <1>a, <1>17, GotoType DEF RmMdFile, Stages, TypeOK, dirs, links, attrs, saved
<1>18. CASE RmdirTpg(c)
  BY <1>a, <1>18, GotoType DEF RmdirTpg, Stages, TypeOK, dirs, links, attrs, saved
<1>19. CASE RmMdDir(c)
  BY <1>a, <1>19, GotoType DEF RmMdDir, Stages, TypeOK, dirs, links, attrs, saved
<1>20. CASE RmdirIqn(c)
  BY <1>a, <1>20, GotoType DEF RmdirIqn, Stages, TypeOK, dirs, links, attrs, saved
<1>21. CASE UnloadModule(c)
  BY <1>a, <1>21, GotoType DEF UnloadModule, Stages, TypeOK, dirs, links, attrs, saved
<1>22. CASE DisableIser(c)
  BY <1>a, <1>22, GotoType DEF DisableIser, Stages, TypeOK, dirs, links, attrs, saved
<1>23. CASE DisableIserFails(c)
  <2> DEFINE seen == cli[c].refused \cup {"iser"}
  <2>1. seen \in SUBSET {"enable", "iser"}
    BY <1>a DEF CliState
  <2>2. [cli[c] EXCEPT !.pc = "err", !.refused = seen] \in CliState
    <3> HIDE DEF seen
    <3>. QED BY <1>a, <2>1 DEF CliState, Stages
  <2>3. cli' \in [Cli -> CliState]
    BY <1>23, <2>2, UpdateType DEF DisableIserFails, Become
  <2>. QED BY <1>23, <2>3 DEF DisableIserFails, TypeOK, dirs, links, attrs, saved
<1>24. CASE RmdirNp(c)
  BY <1>a, <1>24, GotoType DEF RmdirNp, Stages, TypeOK, dirs, links, attrs, saved
<1>. QED BY <1>1, <1>2, <1>3, <1>4, <1>5, <1>6, <1>7, <1>8, <1>9, <1>10, <1>11, <1>12, <1>13,
   <1>14, <1>15, <1>16, <1>17, <1>18, <1>19, <1>20, <1>21, <1>22, <1>23, <1>24 DEF TakeDown

\* Every step keeps the types.
LEMMA StepType == TypeOK /\ MdRead /\ [Next]_vars => TypeOK'
<1>. SUFFICES ASSUME TypeOK, MdRead, [Next]_vars PROVE TypeOK'
  OBVIOUS
<1>1. ASSUME NEW c \in Cli, Start(c) PROVE TypeOK'
  BY <1>1, StartType
<1>2. ASSUME NEW c \in Cli, Build(c) PROVE TypeOK'
  BY <1>2, BuildType
<1>3. ASSUME NEW c \in Cli, TakeDown(c) PROVE TypeOK'
  BY <1>3, TakeDownType
<1>4. ASSUME NEW c \in Cli, Exit(c) \/ Killed(c) PROVE TypeOK'
  BY <1>4, IdleType DEF Exit, Killed, TypeOK, dirs, links, attrs, saved
<1>5. ASSUME Around PROVE TypeOK'
  <2>1. ASSUME Interfere PROVE cli' \in [Cli -> CliState]
    BY <2>1, InterfereType
  <2>. USE DEF TypeOK, dirs, links, attrs, saved
  <2>2. ASSUME NEW t \in Tpg, NEW bit \in BOOLEAN, EnableTpg(t, bit) PROVE TypeOK'
    BY <2>1, <2>2 DEF EnableTpg
  <2>3. ASSUME NEW p \in Port, NEW bit \in BOOLEAN, SetOffline(p, bit) PROVE TypeOK'
    BY <2>1, <2>3, OfflineType DEF SetOffline
  <2>4. ASSUME NEW d \in Dev, AddDev(d) \/ FreeDev(d) PROVE TypeOK'
    BY <2>4 DEF AddDev, FreeDev
  <2>5. ASSUME NEW x \in Np, NEW bit \in BOOLEAN, SetIser(x, bit) PROVE TypeOK'
    BY <2>1, <2>5 DEF SetIser
  <2>. QED BY <1>5, <2>2, <2>3, <2>4, <2>5 DEF Around
<1>6. CASE UNCHANGED vars
  BY <1>6 DEF vars, dirs, links, attrs, saved, TypeOK
<1>. QED BY <1>1, <1>2, <1>3, <1>4, <1>5, <1>6 DEF Next, Run

-----------------------------------------------------------------------------
(* The tree: what configfs and the order of the tool's steps see to, and the rest rests on *)

\* Directories have their parents, ...
ParentsOK ==
    /\ \A t \in tpgs : t[1] \in iqns
    /\ \A x \in nps \cup luns \cup nacls : x[1] \in tpgs
    /\ \A x \in mapped : <<x[1], x[2]>> \in nacls

\* ... links their two ends, ...
LinksOK ==
    /\ \A p \in Port : dev[p] # None => p \in luns /\ dev[p] \in devs
    /\ \A x \in Mapped : lioLun[x] # None => x \in mapped /\ <<x[1], lioLun[x]>> \in luns

\* ... attributes the live object they belong to, ...
BitsOK ==
    /\ enabled \subseteq tpgs /\ iser \subseteq nps
    /\ \A p \in writeMd : dev[p] # None
    /\ \A p \in Port : secondary[p] # Online => dev[p] # None

\* ... and saved files their directory.
FilesOK == \A p \in Port : mdFile[p] # None => p[1] \in mdDir

TreeOK == ParentsOK /\ LinksOK /\ BitsOK /\ FilesOK

\* Only the variables of the tree matter to TreeOK.
LEMMA TreeStutter ==
    ASSUME TreeOK, UNCHANGED <<dirs, links, attrs, devs, saved>>
    PROVE  TreeOK'
BY DEF TreeOK, ParentsOK, LinksOK, BitsOK, FilesOK, dirs, links, attrs, saved

\* Building: what is made has its parents, a link is made between existing ends only, and a
\* bit is set on a live port only.
LEMMA BuildTree ==
    ASSUME TypeOK, TreeOK, NEW c \in Cli, Build(c)
    PROVE  TreeOK'
<1>. USE DEF TreeOK, ParentsOK, LinksOK, BitsOK, FilesOK, dirs, links, attrs, saved
<1>a. cli[c].t \in Tpg /\ PortOf(c) \in Port /\ MappedOf(c) \in Mapped
  BY DEF TypeOK, CliState, Port, Mapped, PortOf, MappedOf
<1>1. CASE MkdirTpg(c)
  BY <1>1 DEF MkdirTpg, MakeTpg
<1>2. CASE MkdirNp(c)
  BY <1>2 DEF MkdirNp, MakeTpg
<1>3. CASE MkdirNacl(c)
  BY <1>3 DEF MkdirNacl, MakeTpg, NaclOf
<1>4. CASE MkdirLun(c)
  BY <1>4 DEF MkdirLun, MakeTpg, PortOf
<1>5. CASE MkdirMapped(c)
  BY <1>5 DEF MkdirMapped, MakeTpg, NaclOf, MappedOf
<1>6. CASE LinkPort(c)
  BY <1>a, <1>6 DEF LinkPort, CanLinkPort, TypeOK
<1>7. CASE LinkPortFails(c) \/ LinkMappedFails(c)
  BY <1>7, TreeStutter DEF LinkPortFails, LinkMappedFails
<1>8. CASE RollbackPort(c)
  <2>1. /\ luns' \subseteq luns
        /\ \A p \in luns : p \notin luns' => RemovableLun(p)
    BY <1>8 DEF RollbackPort
  <2>. QED BY <1>8, <2>1 DEF RollbackPort, RemovableLun, MappedTo, TypeOK, Mapped
<1>9. CASE LinkMapped(c)
  BY <1>a, <1>9 DEF LinkMapped, CanLinkMapped, TypeOK, PortOf, MappedOf
<1>10. CASE CheckSecondaryMd(c)
  BY <1>10 DEF CheckSecondaryMd
<1>11. CASE SetSecondaryWriteMd(c)
  BY <1>11 DEF SetSecondaryWriteMd
<1>12. CASE RestoreOffline(c)
  BY <1>a, <1>12 DEF RestoreOffline, SetOfflineBit, FilesWith, TypeOK
<1>13. CASE RestoreStatus(c)
  BY <1>a, <1>13 DEF RestoreStatus, SetStatus, FilesWith, TypeOK
<1>14. CASE RestoreFails(c)
  BY <1>14, TreeStutter DEF RestoreFails
<1>. QED BY <1>1, <1>2, <1>3, <1>4, <1>5, <1>6, <1>7, <1>8, <1>9, <1>10, <1>11, <1>12, <1>13,
   <1>14 DEF Build

\* Taking down: configfs lets a directory go only when nothing is in it and nothing links to
\* it, and the bits of a port go with its link.
LEMMA TakeDownTree ==
    ASSUME TypeOK, TreeOK, NEW c \in Cli, TakeDown(c)
    PROVE  TreeOK'
<1>. USE DEF TreeOK, ParentsOK, LinksOK, BitsOK, FilesOK, dirs, links, attrs, saved
<1>a. cli[c].t \in Tpg /\ PortOf(c) \in Port /\ MappedOf(c) \in Mapped
  BY DEF TypeOK, CliState, Port, Mapped, PortOf, MappedOf
<1>1. CASE \/ ListTpgs(c) \/ RelistTpgs(c) \/ NextTpg(c) \/ ListNps(c) \/ ListNacls(c)
           \/ ListMapped(c) \/ ListMappedLinks(c) \/ ListLuns(c) \/ ListPortLinks(c)
           \/ NextNp(c) \/ DisableIserFails(c) \/ UnloadModule(c)
  BY <1>1, TreeStutter DEF ListTpgs, RelistTpgs, NextTpg, ListNps, ListNacls, ListMapped,
     ListMappedLinks, ListLuns, ListPortLinks, NextNp, DisableIserFails, UnloadModule
<1>2. CASE DisableTpg(c)
  BY <1>2 DEF DisableTpg
<1>3. CASE RmdirNp(c)
  BY <1>3 DEF RmdirNp, RemovableNp
<1>4. CASE UnlinkMapped(c)
  BY <1>a, <1>4 DEF UnlinkMapped, TypeOK
<1>5. CASE RmdirMapped(c)
  BY <1>5 DEF RmdirMapped, RemovableMapped
<1>6. CASE RmdirNacl(c)
  <2>1. /\ nacls' \subseteq nacls
        /\ \A x \in nacls : x \notin nacls' => RemovableNacl(x)
    BY <1>6 DEF RmdirNacl
  <2>. QED BY <1>6, <2>1 DEF RmdirNacl, RemovableNacl
<1>7. CASE UnlinkPort(c)
  BY <1>a, <1>7 DEF UnlinkPort, TypeOK
<1>8. CASE RmdirLun(c)
  <2>1. /\ luns' \subseteq luns
        /\ \A p \in luns : p \notin luns' => RemovableLun(p)
    BY <1>8 DEF RmdirLun
  <2>. QED BY <1>8, <2>1 DEF RmdirLun, RemovableLun, MappedTo, TypeOK, Mapped
<1>9. CASE RmMdFile(c)
  BY <1>a, <1>9 DEF RmMdFile, TypeOK
<1>10. CASE RmdirTpg(c)
  <2>1. CASE RemovableTpg(cli[c].t)
    BY <1>10, <2>1 DEF RmdirTpg, RemovableTpg
  <2>2. CASE ~RemovableTpg(cli[c].t)
    BY <1>10, <2>2 DEF RmdirTpg
  <2>. QED BY <2>1, <2>2
<1>11. CASE RmMdDir(c)
  BY <1>11 DEF RmMdDir, TypeOK
<1>12. CASE RmdirIqn(c)
  BY <1>12 DEF RmdirIqn, RemovableIqn
<1>13. CASE DisableIser(c)
  BY <1>13 DEF DisableIser
<1>. QED BY <1>1, <1>2, <1>3, <1>4, <1>5, <1>6, <1>7, <1>8, <1>9, <1>10, <1>11, <1>12, <1>13
   DEF TakeDown

\* Every step keeps the tree whole.
LEMMA StepTree == TypeOK /\ TreeOK /\ [Next]_vars => TreeOK'
<1>. SUFFICES ASSUME TypeOK, TreeOK, [Next]_vars PROVE TreeOK'
  OBVIOUS
<1>1. ASSUME NEW c \in Cli, Start(c) \/ Exit(c) \/ Killed(c) PROVE TreeOK'
  BY <1>1, TreeStutter DEF Start, Begin, Exit, Killed, StartAddTpg, StartAddNp,
     StartAddNodeacl, StartAddPort, StartAddLunacl, StartProcessSecondaryMd, StartDelLunacl,
     StartDelNodeacl, StartDelNp, StartDelPort, StartDelTpg, StartDelIqn, StartUnload
<1>2. ASSUME NEW c \in Cli, Build(c) PROVE TreeOK'
  BY <1>2, BuildTree
<1>3. ASSUME NEW c \in Cli, TakeDown(c) PROVE TreeOK'
  BY <1>3, TakeDownTree
<1>4. ASSUME Around PROVE TreeOK'
  <2>. USE DEF TypeOK, TreeOK, ParentsOK, LinksOK, BitsOK, FilesOK, dirs, links, attrs, saved
  <2>1. ASSUME NEW t \in Tpg, NEW bit \in BOOLEAN, EnableTpg(t, bit) PROVE TreeOK'
    BY <2>1 DEF EnableTpg
  <2>2. ASSUME NEW p \in Port, NEW bit \in BOOLEAN, SetOffline(p, bit) PROVE TreeOK'
    BY <2>2 DEF SetOffline, SetOfflineBit, FilesWith
  <2>3. ASSUME NEW d \in Dev, AddDev(d) \/ FreeDev(d) PROVE TreeOK'
    BY <2>3 DEF AddDev, FreeDev
  <2>4. ASSUME NEW x \in Np, NEW bit \in BOOLEAN, SetIser(x, bit) PROVE TreeOK'
    BY <2>4 DEF SetIser
  <2>. QED BY <1>4, <2>1, <2>2, <2>3, <2>4 DEF Around
<1>5. CASE UNCHANGED vars
  BY <1>5, TreeStutter DEF vars
<1>. QED BY <1>1, <1>2, <1>3, <1>4, <1>5 DEF Next, Run

-----------------------------------------------------------------------------
(* What one invocation of lio_node does by itself: which commands go through which stages,  *)
(* and what the tree looks like at each stage of an invocation that nothing else disturbs.  *)

\* The commands that dismantle whole TPGs, and those that do so for all TPGs of an IQN.
Whole == {"deltpg", "deliqn", "unload"}
Loops == {"deliqn", "unload"}

\* The stages at which a portal is worked on, a node ACL, a LUN, the LUNs of a TPG, a TPG.
InNp     == {"npIser", "npRmdir"}
InMapped == {"mappedUnlink", "mappedRmdir"}
InNacl   == {"mappeds"} \cup InMapped
InLun    == {"lunUnlink", "lunRmdir"}
InLuns   == {"luns", "lunRmMd"} \cup InLun
InTpg    == {"disable", "npList", "nps", "nacls"} \cup InNp \cup InNacl \cup InLuns

\* The stages of each command, and the one name a single removal still has to take.
Staged(s) ==
    /\ s.pc = "idle" => ~s.alone
    /\ s.pc = "mkdir" => s.cmd \in Adding
    /\ s.pc = "link" => s.cmd \in {"addlun", "addlunacl"}
    /\ s.pc = "rollback" => s.cmd = "addlun"
    /\ s.pc = "mdDir" => s.cmd \in Adding \cup {"aluasecmd"}
    /\ s.pc = "writeMd" => s.cmd \in {"addlun", "aluasecmd"}
    /\ s.pc \in {"restore", "status"} => s.cmd = "aluasecmd" /\ s.md # None
    /\ s.pc = "iqns" => \/ s.cmd = "unload"
                        \/ s.cmd = "deliqn" /\ s.iqnsLeft # {}
    /\ s.pc = "tpgs" => s.cmd \in Loops
    /\ s.pc \in {"disable", "npList"} => s.cmd \in Whole
    /\ s.pc = "nps" => \/ s.cmd \in Whole
                       \/ s.cmd = "delnp" /\ s.npsLeft # {}
    /\ s.pc \in InNp => s.cmd \in Whole \cup {"delnp"}
    /\ s.pc = "nacls" => \/ s.cmd \in Whole
                         \/ s.cmd = "delnodeacl" /\ s.naclsLeft # {}
    /\ s.pc = "mappeds" => \/ s.cmd \in Whole \cup {"delnodeacl"}
                           \/ s.cmd = "dellunacl" /\ s.mappedLeft # {}
    /\ s.pc \in InMapped => s.cmd \in Whole \cup {"delnodeacl", "dellunacl"}
    /\ s.pc = "luns" => \/ s.cmd \in Whole
                        \/ s.cmd = "dellun" /\ s.lunsLeft # {}
    /\ s.pc \in InLun => s.cmd \in Whole \cup {"dellun"}
    /\ s.pc = "lunRmMd" => s.cmd \in Explicit
    /\ s.pc = "tpgRmMd" => s.cmd \in {"deltpg", "deliqn"}

\* However the invocations interleave, each keeps to the stages of its command.
StagesOK == \A c \in Cli : Staged(cli[c])

\* An invocation that has been alone since it started still is.
SolitudeOK == \A c \in Cli : cli[c].alone => \A x \in Cli \ {c} : At(x, "idle")

\* Undisturbed, ... the loop over the IQNs: what is left of the snapshots is there, and nothing
\* else once the TPGs have been listed again.
IqnLevel(s) ==
    s.cmd \in Loops =>
      /\ s.pc = "iqns" => s.iqnsLeft \subseteq iqns
      /\ s.pc \in {"tpgs", "tpgRmMd"} \cup InTpg =>
           /\ s.t[1] \in iqns
           /\ s.iqnsLeft \subseteq iqns \ {s.t[1]}
           /\ \A g \in s.tpgsLeft : <<s.t[1], g>> \in tpgs
           /\ s.relisted => \A x \in tpgs : x[1] = s.t[1] =>
                              x[2] \in s.tpgsLeft \/ (s.pc \in InTpg /\ x = s.t)
      /\ s.pc \in InTpg => s.t[2] \notin s.tpgsLeft

\* ... a TPG: disabled first, unless the kernel refuses to, then its portals, its node ACLs and its LUNs go in this order.
TpgLevel(s) ==
    s.cmd \in Whole =>
      /\ s.pc \in InTpg => s.t \in tpgs
      /\ s.pc \in InTpg \ {"disable"} => s.t \notin enabled \/ "enable" \in s.refused
      /\ s.pc = "nps" => \A n \in Portal : <<s.t, n>> \in nps <=> n \in s.npsLeft
      /\ s.pc \in InNp => \A n \in Portal : <<s.t, n>> \in nps <=> n \in s.npsLeft \cup {s.n}
      /\ s.pc \in {"nacls"} \cup InNacl \cup InLuns => \A x \in nps : x[1] # s.t
      /\ s.pc = "nacls" => \A i \in Initiator : <<s.t, i>> \in nacls <=> i \in s.naclsLeft
      /\ s.pc \in InNacl => \A i \in Initiator :
                              <<s.t, i>> \in nacls <=> i \in s.naclsLeft \cup {s.i}
      /\ s.pc \in InLuns => \A x \in nacls : x[1] # s.t

\* ... its LUNs, ...
LunLevel(s) ==
    s.cmd \in Whole =>
      /\ s.pc \in {"luns", "lunRmMd"} => \A l \in Lun : <<s.t, l>> \in luns <=> l \in s.lunsLeft
      /\ s.pc \in InLun =>
           /\ \A l \in Lun : <<s.t, l>> \in luns <=> l \in s.lunsLeft \cup {s.l}
           /\ s.l \notin s.lunsLeft
           /\ dev[<<s.t, s.l>>] = None <=> s.pc = "lunRmdir"

\* ... a node ACL and its mapped LUNs, ...
NaclLevel(s) ==
    s.cmd \in Whole \cup {"delnodeacl"} =>
      /\ s.pc = "nacls" => \A i \in s.naclsLeft : <<s.t, i>> \in nacls
      /\ s.pc \in InNacl => <<s.t, s.i>> \in nacls /\ s.i \notin s.naclsLeft
      /\ s.pc = "mappeds" =>
           \A m \in MappedLun : <<s.t, s.i, m>> \in mapped <=> m \in s.mappedLeft
      /\ s.pc \in InMapped =>
           /\ \A m \in MappedLun : <<s.t, s.i, m>> \in mapped <=> m \in s.mappedLeft \cup {s.m}
           /\ s.m \notin s.mappedLeft

\* ... one mapped LUN, ...
MappedLevel(s) ==
    s.cmd \in Whole \cup {"delnodeacl", "dellunacl"} =>
      /\ s.pc = "mappeds" => \A m \in s.mappedLeft : <<s.t, s.i, m>> \in mapped
      /\ s.pc \in InMapped =>
           /\ <<s.t, s.i, s.m>> \in mapped
           /\ lioLun[<<s.t, s.i, s.m>>] = None <=> s.pc = "mappedRmdir"

\* ... one portal, which goes with its iSER off.
NpLevel(s) ==
    s.cmd \in Whole \cup {"delnp"} =>
      /\ s.pc = "nps" => \A n \in s.npsLeft : <<s.t, n>> \in nps
      /\ s.pc \in InNp => <<s.t, s.n>> \in nps /\ s.n \notin s.npsLeft
      /\ s.pc = "npRmdir" => <<s.t, s.n>> \notin iser

\* An --addlun takes a LUN number that is free and owns it until it ends.
AddLevel(s) ==
    s.cmd = "addlun" =>
      /\ s.pc \in {"mkdir", "err"} => <<s.t, s.l>> \notin luns
      /\ s.pc \in {"link", "rollback"} => RemovableLun(<<s.t, s.l>>)
      /\ s.pc \in {"mdDir", "writeMd"} => dev[<<s.t, s.l>>] # None

\* What --dellun and --deltpg have forgotten when they end.
ForgetLevel(s) ==
    s.pc = "ok" =>
      /\ s.cmd = "dellun" => mdFile[<<s.t, s.l>>] = None
      /\ s.cmd = "deltpg" => s.t \notin mdDir /\ \A l \in Lun : mdFile[<<s.t, l>>] = None

\* A removal is refused nothing but to turn iSER off.
NotRefused(s) == s.cmd \in Teardown /\ s.pc = "err" => "iser" \in s.refused

Undisturbed(s) ==
    /\ NotRefused(s)
    /\ IqnLevel(s) /\ TpgLevel(s) /\ LunLevel(s) /\ NaclLevel(s) /\ MappedLevel(s)
    /\ NpLevel(s) /\ AddLevel(s) /\ ForgetLevel(s)

\* How far an undisturbed --aluasecmd has come.
RestoreLevel(s) ==
    s.cmd = "aluasecmd" =>
      /\ s.pc = "mdDir" => s.md = None
      /\ s.pc = "ok" => s.md # None
      /\ s.pc = "restore" => mdFile[<<s.t, s.l>>] = s.md
      /\ s.pc \in {"status", "writeMd", "ok"} /\ s.md # None =>
           mdFile[<<s.t, s.l>>] # None /\ mdFile[<<s.t, s.l>>].offline = s.md.offline
      /\ s.pc = "status" => secondary[<<s.t, s.l>>].offline = s.md.offline
      /\ s.pc \in {"writeMd", "ok"} /\ s.md # None => secondary[<<s.t, s.l>>] = s.md

\* What an undisturbed removal has removed by the time it forgets, goes on or ends.
GoneLevel(s) ==
    /\ s.cmd = "unload" =>
         /\ s.pc = "iqns" => iqns \subseteq s.iqnsLeft
         /\ s.pc \in {"tpgs"} \cup InTpg => iqns \subseteq s.iqnsLeft \cup {s.t[1]}
    /\ s.cmd = "dellun" /\ s.pc = "lunRmMd" => <<s.t, s.l>> \notin luns
    /\ s.pc = "tpgRmMd" => s.t \notin tpgs
    /\ s.pc = "ok" =>
         /\ s.cmd = "dellunacl" => <<s.t, s.i, s.m>> \notin mapped
         /\ s.cmd = "delnodeacl" => <<s.t, s.i>> \notin nacls
         /\ s.cmd = "delnp" => <<s.t, s.n>> \notin nps
         /\ s.cmd = "dellun" => <<s.t, s.l>> \notin luns
         /\ s.cmd = "deltpg" => s.t \notin tpgs
         /\ s.cmd = "deliqn" => s.t[1] \notin iqns
         /\ s.cmd = "unload" => iqns = {}

Accomplished(s) == RestoreLevel(s) /\ GoneLevel(s)

AloneOK == \A c \in Cli : cli[c].alone => Undisturbed(cli[c]) /\ Accomplished(cli[c])

-----------------------------------------------------------------------------
(* The steps of one process *)

\* r is s with the same command and the same variables, at whatever stage.
Same(s, r) ==
    /\ r.cmd = s.cmd
    /\ r.t = s.t /\ r.n = s.n /\ r.i = s.i /\ r.l = s.l /\ r.m = s.m /\ r.d = s.d
    /\ r.md = s.md /\ r.refused = s.refused /\ r.relisted = s.relisted
    /\ r.iqnsLeft = s.iqnsLeft /\ r.tpgsLeft = s.tpgsLeft /\ r.npsLeft = s.npsLeft
    /\ r.naclsLeft = s.naclsLeft /\ r.mappedLeft = s.mappedLeft /\ r.lunsLeft = s.lunsLeft

Moved(s, r, pc) == Same(s, r) /\ r.pc = pc /\ r.alone = s.alone

\* Going to another stage changes nothing else.
LEMMA GotoMoves ==
    ASSUME TypeOK, NEW c \in Cli, NEW pc, Goto(c, pc)
    PROVE  Moved(cli[c], cli'[c], pc)
BY DEF TypeOK, Goto, Become, CliState, Same, Moved

\* A new invocation has the variables its command gives it.
LEMMA BeginSame ==
    ASSUME NEW c \in Cli, NEW s, DOMAIN s = DOMAIN Idle, Begin(c, s)
    PROVE  /\ Same(s, cli'[c]) /\ cli'[c].pc = s.pc
           /\ cli'[c].alone => \A y \in Cli \ {c} : At(y, "idle")
<1> DEFINE alone == \A y \in Cli \ {c} : At(y, "idle")
<1>1. cli'[c] = [s EXCEPT !.alone = alone]
  BY DEF Begin
<1>2. Same(s, cli'[c]) /\ cli'[c].pc = s.pc /\ cli'[c].alone = alone
  <2> HIDE DEF alone
  <2>. QED BY <1>1 DEF Idle, Same
<1>. QED BY <1>2

\* Each building step goes from a stage of its command to another one.
LEMMA BuildStaged ==
    ASSUME TypeOK, NEW c \in Cli, Staged(cli[c]), Build(c)
    PROVE  Staged(cli'[c])
<1>. USE GotoMoves DEF Moved, Same, At, Adding, Whole, Loops, InNp, InMapped, InLun, Explicit
<1>1. CASE MkdirTpg(c)
  BY <1>1 DEF MkdirTpg, Staged
<1>2. CASE MkdirNp(c)
  BY <1>2 DEF MkdirNp, Staged
<1>3. CASE MkdirNacl(c)
  BY <1>3 DEF MkdirNacl, Staged
<1>4. CASE MkdirLun(c)
  BY <1>4 DEF MkdirLun, Staged
<1>5. CASE MkdirMapped(c)
  BY <1>5 DEF MkdirMapped, Staged
<1>6. CASE LinkPort(c)
  BY <1>6 DEF LinkPort, Staged
<1>7. CASE LinkPortFails(c)
  BY <1>7 DEF LinkPortFails, Staged
<1>8. CASE RollbackPort(c)
  BY <1>8 DEF RollbackPort, Staged
<1>9. CASE LinkMapped(c)
  BY <1>9 DEF LinkMapped, Staged
<1>10. CASE LinkMappedFails(c)
  BY <1>10 DEF LinkMappedFails, Staged
<1>11. CASE CheckSecondaryMd(c)
  BY <1>11 DEF CheckSecondaryMd, Staged
<1>12. CASE SetSecondaryWriteMd(c)
  BY <1>12 DEF SetSecondaryWriteMd, Staged
<1>13. CASE RestoreOffline(c)
  BY <1>13 DEF RestoreOffline, Staged
<1>14. CASE RestoreStatus(c)
  BY <1>14 DEF RestoreStatus, Staged
<1>15. CASE RestoreFails(c)
  BY <1>15 DEF RestoreFails, Staged
<1>. QED BY <1>1, <1>2, <1>3, <1>4, <1>5, <1>6, <1>7, <1>8, <1>9, <1>10, <1>11, <1>12,
   <1>13, <1>14, <1>15 DEF Build

\* So does each removing step.
LEMMA TakeDownStaged ==
    ASSUME TypeOK, NEW c \in Cli, Staged(cli[c]), TakeDown(c)
    PROVE  Staged(cli'[c])
<1>. USE GotoMoves DEF Moved, Same, At, Adding, Whole, Loops, InNp, InMapped, InLun, Explicit
<1>1. CASE ListTpgs(c)
  BY <1>1 DEF ListTpgs, Staged, Become, TypeOK, CliState
<1>2. CASE RelistTpgs(c)
  BY <1>2 DEF RelistTpgs, Staged, Become, TypeOK, CliState
<1>3. CASE NextTpg(c)
  BY <1>3 DEF NextTpg, Staged, Become, TypeOK, CliState
<1>4. CASE DisableTpg(c)
  BY <1>4 DEF DisableTpg, Staged, Become, TypeOK, CliState
<1>5. CASE ListNps(c)
  BY <1>5 DEF ListNps, Staged, Become, TypeOK, CliState
<1>6. CASE NextNp(c)
  BY <1>6 DEF NextNp, Staged, Become, TypeOK, CliState
<1>7. CASE ListNacls(c)
  BY <1>7 DEF ListNacls, Staged, Become, TypeOK, CliState
<1>8. CASE ListMapped(c)
  BY <1>8 DEF ListMapped, Staged, Become, TypeOK, CliState
<1>9. CASE ListMappedLinks(c)
  BY <1>9 DEF ListMappedLinks, Staged, Become, TypeOK, CliState
<1>10. CASE UnlinkMapped(c)
  BY <1>10 DEF UnlinkMapped, Staged
<1>11. CASE RmdirMapped(c)
  BY <1>11 DEF RmdirMapped, Staged
<1>12. CASE RmdirNacl(c)
  BY <1>12 DEF RmdirNacl, Staged
<1>13. CASE ListLuns(c)
  BY <1>13 DEF ListLuns, Staged, Become, TypeOK, CliState
<1>14. CASE ListPortLinks(c)
  BY <1>14 DEF ListPortLinks, Staged, Become, TypeOK, CliState
<1>15. CASE UnlinkPort(c)
  BY <1>15 DEF UnlinkPort, Staged
<1>16. CASE RmdirLun(c)
  BY <1>16 DEF RmdirLun, Staged
<1>17. CASE RmMdFile(c)
  BY <1>17 DEF RmMdFile, Staged
<1>18. CASE RmdirTpg(c)
  BY <1>18 DEF RmdirTpg, Staged
<1>19. CASE RmMdDir(c)
  BY <1>19 DEF RmMdDir, Staged
<1>20. CASE RmdirIqn(c)
  BY <1>20 DEF RmdirIqn, Staged
<1>21. CASE UnloadModule(c)
  BY <1>21 DEF UnloadModule, Staged
<1>22. CASE DisableIser(c)
  BY <1>22 DEF DisableIser, Staged
<1>23. CASE DisableIserFails(c)
  BY <1>23 DEF DisableIserFails, Staged, Become, TypeOK, CliState
<1>24. CASE RmdirNp(c)
  BY <1>24 DEF RmdirNp, Staged
<1>. QED BY <1>1, <1>2, <1>3, <1>4, <1>5, <1>6, <1>7, <1>8, <1>9, <1>10, <1>11, <1>12,
   <1>13, <1>14, <1>15, <1>16, <1>17, <1>18, <1>19, <1>20, <1>21, <1>22, <1>23, <1>24
   DEF TakeDown

\* What a new invocation works on, by command.
Fresh(s) ==
    \/ s.cmd \in Adding \ {"addlun"} /\ s.pc = "mkdir"
    \/ s.cmd = "addlun" /\ s.pc = "mkdir" /\ <<s.t, s.l>> \notin luns
    \/ s.cmd = "aluasecmd" /\ s.pc = "mdDir" /\ s.md = None
    \/ s.cmd = "aluasecmd" /\ s.pc = "restore" /\ s.md = mdFile[<<s.t, s.l>>] /\ s.md # None
    \/ /\ s.cmd = "dellunacl" /\ s.pc = "mappeds"
       /\ \E m \in MappedLun : s.mappedLeft = {m} /\ <<s.t, s.i, m>> \in mapped
    \/ /\ s.cmd = "delnodeacl" /\ s.pc = "nacls"
       /\ \E i \in Initiator : s.naclsLeft = {i} /\ <<s.t, i>> \in nacls
    \/ /\ s.cmd = "delnp" /\ s.pc = "nps"
       /\ \E n \in Portal : s.npsLeft = {n} /\ <<s.t, n>> \in nps
    \/ /\ s.cmd = "dellun" /\ s.pc = "luns"
       /\ \E l \in Lun : s.lunsLeft = {l} /\ <<s.t, l>> \in luns
    \/ s.cmd = "deltpg" /\ s.pc = "disable" /\ s.t \in tpgs
    \/ s.cmd = "deliqn" /\ s.pc = "iqns" /\ \E iqn \in iqns : s.iqnsLeft = {iqn}
    \/ s.cmd = "unload" /\ s.pc = "iqns" /\ s.iqnsLeft = iqns

\* The tree is as it was, so what a new invocation works on is still there.
LEMMA BeginFresh ==
    ASSUME NEW c \in Cli, NEW s, DOMAIN s = DOMAIN Idle, Fresh(s), Begin(c, s)
    PROVE  /\ Fresh(cli'[c])
           /\ cli'[c].alone => \A y \in Cli \ {c} : At(y, "idle")
<1>1. Same(s, cli'[c]) /\ cli'[c].pc = s.pc
  BY BeginSame
<1>2. ASSUME NEW r, Same(s, r), r.pc = s.pc PROVE Fresh(r)
  <2>1. CASE s.cmd \in Adding \ {"addlun"} /\ s.pc = "mkdir"
    BY <1>2, <2>1, Zenon DEF Same, Fresh
  <2>2. CASE s.cmd = "addlun" /\ s.pc = "mkdir" /\ <<s.t, s.l>> \notin luns
    BY <1>2, <2>2, Zenon DEF Same, Fresh
  <2>3. CASE s.cmd = "aluasecmd" /\ s.pc = "mdDir" /\ s.md = None
    BY <1>2, <2>3, Zenon DEF Same, Fresh
  <2>4. CASE s.cmd = "aluasecmd" /\ s.pc = "restore" /\ s.md = mdFile[<<s.t, s.l>>] /\ s.md # None
    BY <1>2, <2>4, Zenon DEF Same, Fresh
  <2>5. CASE /\ s.cmd = "dellunacl" /\ s.pc = "mappeds"
               /\ \E m \in MappedLun : s.mappedLeft = {m} /\ <<s.t, s.i, m>> \in mapped
    BY <1>2, <2>5, Zenon DEF Same, Fresh
  <2>6. CASE /\ s.cmd = "delnodeacl" /\ s.pc = "nacls"
               /\ \E i \in Initiator : s.naclsLeft = {i} /\ <<s.t, i>> \in nacls
    BY <1>2, <2>6, Zenon DEF Same, Fresh
  <2>7. CASE /\ s.cmd = "delnp" /\ s.pc = "nps"
               /\ \E n \in Portal : s.npsLeft = {n} /\ <<s.t, n>> \in nps
    BY <1>2, <2>7, Zenon DEF Same, Fresh
  <2>8. CASE /\ s.cmd = "dellun" /\ s.pc = "luns"
               /\ \E l \in Lun : s.lunsLeft = {l} /\ <<s.t, l>> \in luns
    BY <1>2, <2>8, Zenon DEF Same, Fresh
  <2>9. CASE s.cmd = "deltpg" /\ s.pc = "disable" /\ s.t \in tpgs
    BY <1>2, <2>9, Zenon DEF Same, Fresh
  <2>10. CASE s.cmd = "deliqn" /\ s.pc = "iqns" /\ \E iqn \in iqns : s.iqnsLeft = {iqn}
    BY <1>2, <2>10, Zenon DEF Same, Fresh
  <2>11. CASE s.cmd = "unload" /\ s.pc = "iqns" /\ s.iqnsLeft = iqns
    BY <1>2, <2>11, Zenon DEF Same, Fresh
  <2>. QED BY <2>1, <2>2, <2>3, <2>4, <2>5, <2>6, <2>7, <2>8, <2>9, <2>10, <2>11, Zenon DEF Fresh
<1>. QED BY <1>1, <1>2, BeginSame

\* Every command starts so.
LEMMA StartFresh ==
    ASSUME TypeOK, NEW c \in Cli, Start(c)
    PROVE  /\ Fresh(cli'[c])
           /\ cli'[c].alone => \A y \in Cli \ {c} : At(y, "idle")
<1>. USE DEF Idle
<1>1. CASE StartAddTpg(c)
  <2> DEFINE s(t) ==
          [Idle EXCEPT !.cmd = "addtpg", !.pc = "mkdir", !.t = t]
  <2>1. PICK t \in Tpg \ tpgs : Begin(c, s(t))
    BY <1>1 DEF StartAddTpg
  <2>2. DOMAIN s(t) = DOMAIN Idle /\ Fresh(s(t))
    BY <2>1 DEF Fresh, Adding, Loops
  <2> HIDE DEF s
  <2>. QED BY <2>1, <2>2, BeginFresh
<1>2. CASE StartAddNp(c)
  <2> DEFINE s(t, n) ==
          [Idle EXCEPT !.cmd = "addnp", !.pc = "mkdir", !.t = t, !.n = n]
  <2>1. PICK t \in Tpg, n \in Portal : Begin(c, s(t, n))
    BY <1>2 DEF StartAddNp
  <2>2. DOMAIN s(t, n) = DOMAIN Idle /\ Fresh(s(t, n))
    BY <2>1 DEF Fresh, Adding, Loops
  <2> HIDE DEF s
  <2>. QED BY <2>1, <2>2, BeginFresh
<1>3. CASE StartAddNodeacl(c)
  <2> DEFINE s(t, i) ==
          [Idle EXCEPT !.cmd = "addnodeacl", !.pc = "mkdir", !.t = t, !.i = i]
  <2>1. PICK t \in Tpg, i \in Initiator : Begin(c, s(t, i))
    BY <1>3 DEF StartAddNodeacl
  <2>2. DOMAIN s(t, i) = DOMAIN Idle /\ Fresh(s(t, i))
    BY <2>1 DEF Fresh, Adding, Loops
  <2> HIDE DEF s
  <2>. QED BY <2>1, <2>2, BeginFresh
<1>4. CASE StartAddPort(c)
  <2> DEFINE s(t, l, d) ==
          [Idle EXCEPT !.cmd = "addlun", !.pc = "mkdir", !.t = t, !.l = l, !.d = d]
  <2>1. PICK t \in Tpg, l \in Lun, d \in Dev : <<t, l>> \notin luns /\ Begin(c, s(t, l, d))
    BY <1>4 DEF StartAddPort
  <2>2. DOMAIN s(t, l, d) = DOMAIN Idle /\ Fresh(s(t, l, d))
    BY <2>1 DEF Fresh, Adding, Loops
  <2> HIDE DEF s
  <2>. QED BY <2>1, <2>2, BeginFresh
<1>5. CASE StartAddLunacl(c)
  <2> DEFINE s(t, i, l, m) ==
          [Idle EXCEPT !.cmd = "addlunacl", !.pc = "mkdir", !.t = t, !.i = i, !.l = l,
                        !.m = m]
  <2>1. PICK t \in Tpg, i \in Initiator, l \in Lun, m \in MappedLun : Begin(c, s(t, i, l, m))
    BY <1>5 DEF StartAddLunacl
  <2>2. DOMAIN s(t, i, l, m) = DOMAIN Idle /\ Fresh(s(t, i, l, m))
    BY <2>1 DEF Fresh, Adding, Loops
  <2> HIDE DEF s
  <2>. QED BY <2>1, <2>2, BeginFresh
<1>6. CASE StartProcessSecondaryMd(c)
  <2> DEFINE s(t, l) ==
          [Idle EXCEPT !.cmd = "aluasecmd", !.t = t, !.l = l,
                        !.pc = IF mdFile[<<t, l>>] = None THEN "mdDir" ELSE "restore",
                        !.md = mdFile[<<t, l>>]]
  <2>1. PICK t \in Tpg, l \in Lun : Begin(c, s(t, l))
    BY <1>6 DEF StartProcessSecondaryMd
  <2>2. DOMAIN s(t, l) = DOMAIN Idle /\ Fresh(s(t, l))
    BY <2>1 DEF Fresh, Adding, Loops, TypeOK
  <2> HIDE DEF s
  <2>. QED BY <2>1, <2>2, BeginFresh
<1>7. CASE StartDelLunacl(c)
  <2> DEFINE s(x) ==
          [Idle EXCEPT !.cmd = "dellunacl", !.pc = "mappeds", !.t = x[1], !.i = x[2],
                        !.mappedLeft = {x[3]}]
  <2>1. PICK x \in mapped : Begin(c, s(x))
    BY <1>7 DEF StartDelLunacl
  <2>2. DOMAIN s(x) = DOMAIN Idle /\ Fresh(s(x))
    BY <2>1 DEF Fresh, Adding, Loops, TypeOK, Mapped
  <2> HIDE DEF s
  <2>. QED BY <2>1, <2>2, BeginFresh
<1>8. CASE StartDelNodeacl(c)
  <2> DEFINE s(x) ==
          [Idle EXCEPT !.cmd = "delnodeacl", !.pc = "nacls", !.t = x[1],
                        !.naclsLeft = {x[2]}]
  <2>1. PICK x \in nacls : Begin(c, s(x))
    BY <1>8 DEF StartDelNodeacl
  <2>2. DOMAIN s(x) = DOMAIN Idle /\ Fresh(s(x))
    BY <2>1 DEF Fresh, Adding, Loops, TypeOK, Nacl
  <2> HIDE DEF s
  <2>. QED BY <2>1, <2>2, BeginFresh
<1>9. CASE StartDelNp(c)
  <2> DEFINE s(x) ==
          [Idle EXCEPT !.cmd = "delnp", !.pc = "nps", !.t = x[1], !.npsLeft = {x[2]}]
  <2>1. PICK x \in nps : Begin(c, s(x))
    BY <1>9 DEF StartDelNp
  <2>2. DOMAIN s(x) = DOMAIN Idle /\ Fresh(s(x))
    BY <2>1 DEF Fresh, Adding, Loops, TypeOK, Np
  <2> HIDE DEF s
  <2>. QED BY <2>1, <2>2, BeginFresh
<1>10. CASE StartDelPort(c)
  <2> DEFINE s(x) ==
          [Idle EXCEPT !.cmd = "dellun", !.pc = "luns", !.t = x[1],
                        !.lunsLeft = {x[2]}]
  <2>1. PICK x \in luns : Begin(c, s(x))
    BY <1>10 DEF StartDelPort
  <2>2. DOMAIN s(x) = DOMAIN Idle /\ Fresh(s(x))
    BY SMTT(30), <2>1 DEF Fresh, Adding, Loops, TypeOK, Port
  <2> HIDE DEF s
  <2>. QED BY <2>1, <2>2, BeginFresh
<1>11. CASE StartDelTpg(c)
  <2> DEFINE s(t) ==
          [Idle EXCEPT !.cmd = "deltpg", !.pc = "disable", !.t = t]
  <2>1. PICK t \in tpgs : Begin(c, s(t))
    BY <1>11 DEF StartDelTpg
  <2>2. DOMAIN s(t) = DOMAIN Idle /\ Fresh(s(t))
    BY <2>1 DEF Fresh, Adding, Loops, TypeOK
  <2> HIDE DEF s
  <2>. QED BY <2>1, <2>2, BeginFresh
<1>12. CASE StartDelIqn(c)
  <2> DEFINE s(iqn) ==
          [Idle EXCEPT !.cmd = "deliqn", !.pc = "iqns", !.iqnsLeft = {iqn}]
  <2>1. PICK iqn \in iqns : Begin(c, s(iqn))
    BY <1>12 DEF StartDelIqn
  <2>2. DOMAIN s(iqn) = DOMAIN Idle /\ Fresh(s(iqn))
    BY <2>1 DEF Fresh, Adding, Loops
  <2> HIDE DEF s
  <2>. QED BY <2>1, <2>2, BeginFresh
<1>13. CASE StartUnload(c)
  <2> DEFINE s ==
          [Idle EXCEPT !.cmd = "unload", !.pc = "iqns", !.iqnsLeft = iqns]
  <2>1. Begin(c, s)
    BY <1>13 DEF StartUnload
  <2>2. DOMAIN s = DOMAIN Idle /\ Fresh(s)
    BY <2>1 DEF Fresh, Adding, Loops
  <2> HIDE DEF s
  <2>. QED BY <2>1, <2>2, BeginFresh
<1>. QED BY <1>1, <1>2, <1>3, <1>4, <1>5, <1>6, <1>7, <1>8, <1>9, <1>10, <1>11, <1>12,
   <1>13 DEF Start

\* Only commands that are run start.
LEMMA BeginUsed ==
    ASSUME TypeOK, NEW c \in Cli, Start(c)
    PROVE  cli'[c].cmd \in Used
<1>1. ASSUME NEW s, DOMAIN s = DOMAIN Idle, Begin(c, s) PROVE cli'[c].cmd \in Used
  <2>1. Same(s, cli'[c])
    BY <1>1, BeginSame
  <2>2. s.cmd \in Used
    BY <1>1 DEF Begin
  <2>. QED BY <2>1, <2>2 DEF Same
<1>. USE <1>1 DEF Idle
<1>2. CASE StartAddTpg(c)
  BY <1>2 DEF StartAddTpg
<1>3. CASE StartAddNp(c)
  BY <1>3 DEF StartAddNp
<1>4. CASE StartAddNodeacl(c)
  BY <1>4 DEF StartAddNodeacl
<1>5. CASE StartAddPort(c)
  BY <1>5 DEF StartAddPort
<1>6. CASE StartAddLunacl(c)
  BY <1>6 DEF StartAddLunacl
<1>7. CASE StartProcessSecondaryMd(c)
  BY <1>7 DEF StartProcessSecondaryMd
<1>8. CASE StartDelLunacl(c)
  BY <1>8 DEF StartDelLunacl
<1>9. CASE StartDelNodeacl(c)
  BY <1>9 DEF StartDelNodeacl
<1>10. CASE StartDelNp(c)
  BY <1>10 DEF StartDelNp
<1>11. CASE StartDelPort(c)
  BY <1>11 DEF StartDelPort
<1>12. CASE StartDelTpg(c)
  BY <1>12 DEF StartDelTpg
<1>13. CASE StartDelIqn(c)
  BY <1>13 DEF StartDelIqn
<1>14. CASE StartUnload(c)
  BY <1>14 DEF StartUnload
<1>. QED BY <1>2, <1>3, <1>4, <1>5, <1>6, <1>7, <1>8, <1>9, <1>10, <1>11, <1>12, <1>13, <1>14
   DEF Start

\* So it starts at a stage of its command.
LEMMA StartStaged ==
    ASSUME TypeOK, NEW c \in Cli, Start(c)
    PROVE  Staged(cli'[c])
<1>1. cli'[c].t \in Tpg /\ cli'[c].l \in Lun
  BY StartType DEF TypeOK, CliState
<1>2. Fresh(cli'[c])
  BY StartFresh
<1>. QED BY <1>1, <1>2 DEF Fresh, Staged, Adding, Whole, Loops, InNp, InMapped, InLun

-----------------------------------------------------------------------------
(* One step, whoever takes it *)

\* A step of an invocation is no other's, and does not make it alone.
Own(c) ==
    /\ cli[c].pc # "idle"
    /\ cli'[c].alone => cli[c].alone
    /\ \A x \in Cli \ {c} : cli'[x] = cli[x]

\* So it is when something is built, ...
LEMMA BuildOwn ==
    ASSUME TypeOK, NEW c \in Cli, Build(c)
    PROVE  Own(c)
BY DEF Build, TypeOK, CliState, At, Become, Goto, Own,
   MkdirTpg, MkdirNp, MkdirNacl, MkdirLun, MkdirMapped, LinkPort, LinkPortFails,
   RollbackPort, LinkMapped, LinkMappedFails, CheckSecondaryMd, SetSecondaryWriteMd,
   RestoreOffline, RestoreStatus, RestoreFails

\* ... when something is removed, ...
LEMMA TakeDownOwn ==
    ASSUME TypeOK, NEW c \in Cli, TakeDown(c)
    PROVE  Own(c)
<1>. USE DEF TypeOK, CliState, At, Become, Goto, Own
<1>1. CASE ListTpgs(c)
  BY <1>1 DEF ListTpgs
<1>2. CASE RelistTpgs(c)
  BY <1>2 DEF RelistTpgs
<1>3. CASE NextTpg(c)
  BY <1>3 DEF NextTpg
<1>4. CASE DisableTpg(c)
  BY <1>4 DEF DisableTpg
<1>5. CASE ListNps(c)
  BY <1>5 DEF ListNps
<1>6. CASE NextNp(c)
  BY <1>6 DEF NextNp
<1>7. CASE ListNacls(c)
  BY <1>7 DEF ListNacls
<1>8. CASE ListMapped(c)
  BY <1>8 DEF ListMapped
<1>9. CASE ListMappedLinks(c)
  BY <1>9 DEF ListMappedLinks
<1>10. CASE UnlinkMapped(c)
  BY <1>10 DEF UnlinkMapped
<1>11. CASE RmdirMapped(c)
  BY <1>11 DEF RmdirMapped
<1>12. CASE RmdirNacl(c)
  BY <1>12 DEF RmdirNacl
<1>13. CASE ListLuns(c)
  BY <1>13 DEF ListLuns
<1>14. CASE ListPortLinks(c)
  BY <1>14 DEF ListPortLinks
<1>15. CASE UnlinkPort(c)
  BY <1>15 DEF UnlinkPort
<1>16. CASE RmdirLun(c)
  BY <1>16 DEF RmdirLun
<1>17. CASE RmMdFile(c)
  BY <1>17 DEF RmMdFile
<1>18. CASE RmdirTpg(c)
  BY <1>18 DEF RmdirTpg
<1>19. CASE RmMdDir(c)
  BY <1>19 DEF RmMdDir
<1>20. CASE RmdirIqn(c)
  BY <1>20 DEF RmdirIqn
<1>21. CASE UnloadModule(c)
  BY <1>21 DEF UnloadModule
<1>22. CASE DisableIser(c)
  BY <1>22 DEF DisableIser
<1>23. CASE DisableIserFails(c)
  BY <1>23 DEF DisableIserFails
<1>24. CASE RmdirNp(c)
  BY <1>24 DEF RmdirNp
<1>. QED BY <1>1, <1>2, <1>3, <1>4, <1>5, <1>6, <1>7, <1>8, <1>9, <1>10, <1>11, <1>12,
   <1>13, <1>14, <1>15, <1>16, <1>17, <1>18, <1>19, <1>20, <1>21, <1>22, <1>23, <1>24
   DEF TakeDown

\* ... and when the process ends.
LEMMA EndOwn ==
    ASSUME TypeOK, NEW c \in Cli, Exit(c) \/ Killed(c)
    PROVE  Own(c) /\ cli'[c] = Idle /\ ~cli'[c].alone
<1>1. ~Idle.alone
  BY DEF Idle
<1>. QED BY <1>1 DEF TypeOK, Exit, Killed, Own

\* Interference takes only the solitude from an invocation.
LEMMA SolitudeOff ==
    ASSUME NEW s \in CliState
    PROVE  LET r == [s EXCEPT !.alone = FALSE]
           IN  Same(s, r) /\ r.pc = s.pc /\ r.alone = FALSE /\ (Staged(s) => Staged(r))
<1> DEFINE r == [s EXCEPT !.alone = FALSE]
<1>1. Same(s, r) /\ r.pc = s.pc /\ r.alone = FALSE
  BY DEF CliState, Same
<1> HIDE DEF r
<1>2. Staged(s) => Staged(r)
  BY <1>1 DEF Same, Staged, Adding, Whole, Loops, InNp, InMapped, InLun, Explicit
<1>. QED BY <1>1, <1>2 DEF r

\* Every step keeps every invocation in the stages of its command.
LEMMA StepStaged == TypeOK /\ StagesOK /\ [Next]_vars => StagesOK'
<1>. SUFFICES ASSUME TypeOK, StagesOK, [Next]_vars PROVE StagesOK'
  OBVIOUS
<1>1. ASSUME NEW c \in Cli, Start(c) PROVE StagesOK'
  <2>1. Staged(cli'[c])
    BY <1>1, StartStaged
  <2>2. ASSUME NEW x \in Cli \ {c} PROVE cli'[x] = [cli[x] EXCEPT !.alone = FALSE]
    BY <1>1, <2>2 DEF Start, Begin, StartAddTpg, StartAddNp, StartAddNodeacl, StartAddPort,
       StartAddLunacl, StartProcessSecondaryMd, StartDelLunacl, StartDelNodeacl, StartDelNp,
       StartDelPort, StartDelTpg, StartDelIqn, StartUnload
  <2>3. ASSUME NEW x \in Cli \ {c} PROVE Staged(cli'[x])
    BY <2>2, <2>3, SolitudeOff DEF StagesOK, TypeOK
  <2>. QED BY <2>1, <2>3 DEF StagesOK
<1>2. ASSUME NEW c \in Cli, Build(c) PROVE StagesOK'
  BY <1>2, BuildStaged, BuildOwn DEF StagesOK, Own
<1>3. ASSUME NEW c \in Cli, TakeDown(c) PROVE StagesOK'
  BY <1>3, TakeDownStaged, TakeDownOwn DEF StagesOK, Own
<1>4. ASSUME NEW c \in Cli, Exit(c) \/ Killed(c) PROVE StagesOK'
  <2>1. Staged(Idle)
    BY DEF Idle, Staged, InNp, InMapped, InLun
  <2>. QED BY <1>4, <2>1, EndOwn DEF StagesOK, Own
<1>5. ASSUME Around PROVE StagesOK'
  <2>1. CASE Interfere
    BY <2>1, SolitudeOff DEF Interfere, StagesOK, TypeOK
  <2>2. CASE UNCHANGED cli
    BY <2>2 DEF StagesOK
  <2>. QED BY <1>5, <2>1, <2>2 DEF Around, EnableTpg, SetIser, SetOffline, AddDev, FreeDev
<1>6. CASE UNCHANGED vars
  BY <1>6 DEF vars, StagesOK
<1>. QED BY <1>1, <1>2, <1>3, <1>4, <1>5, <1>6 DEF Next, Run

\* Types and stages go together: what is restored was read from a file.
LEMMA TypesAndStages == Spec => [](TypeOK /\ StagesOK)
<1>1. Init => TypeOK
  BY IdleType, SomeNames DEF Init, TypeOK, Secondary, Online
<1>2. Init => StagesOK
  BY DEF Init, StagesOK, Idle, Staged, InNp, InMapped, InLun
<1>3. StagesOK => MdRead
  BY DEF StagesOK, Staged, MdRead
<1>4. TypeOK /\ StagesOK /\ [Next]_vars => (TypeOK /\ StagesOK)'
  BY <1>3, StepType, StepStaged
<1>. QED BY <1>1, <1>2, <1>4, PTL DEF Spec

\* The variables of lio_node keep their types.
THEOREM TypeCorrect == Spec => []TypeOK
BY TypesAndStages, PTL

\* However the invocations interleave, fail or are killed, each keeps to the stages of its
\* command: a removal never reaches the stages that forget unless it is an explicit deletion.
THEOREM StagesKept == Spec => []StagesOK
BY TypesAndStages, PTL

\* However many invocations interleave, and wherever they are killed, no directory is without
\* parent, no link without ends, no attribute without port and no file without directory.
LEMMA TreeStaysWhole == Spec => []TreeOK
<1>1. Init => TreeOK
  BY DEF Init, TreeOK, ParentsOK, LinksOK, BitsOK, FilesOK
<1>. QED BY <1>1, TypesAndStages, StepTree, PTL DEF Spec

-----------------------------------------------------------------------------
(* Forgetting *)

\* The names a process works on, as parts of the directories.
LEMMA Names ==
    ASSUME TypeOK, NEW c \in Cli
    PROVE  /\ cli[c].t \in Tpg /\ cli[c].t[1] \in IQN /\ cli[c].t[2] \in TPGT
           /\ cli[c].t = <<cli[c].t[1], cli[c].t[2]>>
           /\ cli[c].n \in Portal /\ NpOf(c) \in Np /\ NpOf(c) = <<cli[c].t, cli[c].n>>
           /\ cli[c].i \in Initiator /\ cli[c].l \in Lun /\ cli[c].m \in MappedLun
           /\ cli[c].d \in Dev
           /\ PortOf(c) \in Port /\ PortOf(c) = <<cli[c].t, cli[c].l>>
           /\ NaclOf(c) \in Nacl /\ NaclOf(c) = <<cli[c].t, cli[c].i>>
           /\ MappedOf(c) \in Mapped /\ MappedOf(c) = <<cli[c].t, cli[c].i, cli[c].m>>
BY DEF TypeOK, CliState, Tpg, Np, Port, Nacl, Mapped, NpOf, PortOf, NaclOf, MappedOf

\* Saved metadata disappears.
Forgets == (\E p \in Port : mdFile[p] # None /\ mdFile'[p] = None) \/ ~(mdDir \subseteq mdDir')

\* The saved attributes of one port are written over, or all files stay as they are.
Saves(p) == \E state \in Secondary : mdFile' = [mdFile EXCEPT ![p] = state]

\* The kernel writes what is saved of a port while it writes its metadata.
LEMMA OfflineSaves ==
    ASSUME TypeOK, NEW p \in Port, NEW bit \in BOOLEAN, SetOfflineBit(p, bit), mdDir' = mdDir
    PROVE  (mdFile' = mdFile \/ (p \in writeMd /\ Saves(p))) /\ ~Forgets
<1>1. PICK status \in Status : mdFile' = FilesWith(p, [offline |-> bit, status |-> status])
  BY DEF SetOfflineBit
<1> DEFINE state == [offline |-> bit, status |-> status]
<1>2. state \in Secondary
  BY DEF Secondary
<1>3. mdFile' = FilesWith(p, state)
  BY <1>1
<1> HIDE DEF state
<1>4. mdFile' = mdFile \/ (p \in writeMd /\ mdFile' = [mdFile EXCEPT ![p] = state])
  BY <1>3 DEF FilesWith
<1>. QED BY <1>2, <1>4, NoneIsNoValue DEF Saves, Forgets, TypeOK

LEMMA StatusSaves ==
    ASSUME TypeOK, NEW p \in Port, NEW status \in Status, SetStatus(p, status), mdDir' = mdDir
    PROVE  (mdFile' = mdFile \/ (p \in writeMd /\ Saves(p))) /\ ~Forgets
<1> DEFINE state == [secondary[p] EXCEPT !.status = status]
<1>1. state \in Secondary
  BY DEF TypeOK, Secondary
<1>2. mdFile' \in {mdFile, FilesWith(p, state)}
  BY DEF SetStatus
<1> HIDE DEF state
<1>3. mdFile' = mdFile \/ (p \in writeMd /\ mdFile' = [mdFile EXCEPT ![p] = state])
  BY <1>2 DEF FilesWith
<1>. QED BY <1>1, <1>3, NoneIsNoValue DEF Saves, Forgets, TypeOK

\* What an invocation restores has both attributes.
LEMMA ReadType ==
    ASSUME TypeOK, StagesOK, NEW c \in Cli, cli[c].pc \in {"restore", "status"}
    PROVE  /\ cli[c].md \in Secondary /\ cli[c].cmd = "aluasecmd"
           /\ cli[c].md.offline \in BOOLEAN /\ cli[c].md.status \in Status
<1>1. cli[c].md \in Secondary /\ cli[c].cmd = "aluasecmd"
  BY DEF StagesOK, Staged, TypeOK, CliState
<1>. QED BY <1>1 DEF Secondary

\* Only the two stages after an explicit deletion make it disappear: what is saved or restored
\* is a state.
LEMMA StepForgets ==
    ASSUME TypeOK, StagesOK, [Next]_vars, Forgets
    PROVE  \E c \in Cli : cli[c].cmd \in Explicit /\ cli'[c] # cli[c]
<1>. USE NoneIsNoValue DEF Forgets
<1>1. CASE UNCHANGED saved
  BY <1>1 DEF saved
<1>2. ASSUME NEW c \in Cli, Build(c)
      PROVE  UNCHANGED saved \/ ~Forgets
  <2>1. CASE CheckSecondaryMd(c)
    BY <2>1 DEF CheckSecondaryMd
  <2>2. CASE RestoreOffline(c)
    <3>1. cli[c].md.offline \in BOOLEAN /\ PortOf(c) \in Port
      BY <2>2, ReadType, Names DEF RestoreOffline, At
    <3>. QED BY <2>2, <3>1, OfflineSaves DEF RestoreOffline
  <2>3. CASE RestoreStatus(c)
    <3>1. cli[c].md.status \in Status /\ PortOf(c) \in Port
      BY <2>3, ReadType, Names DEF RestoreStatus, At
    <3>. QED BY <2>3, <3>1, StatusSaves DEF RestoreStatus
  <2>. QED BY <1>2, <2>1, <2>2, <2>3 DEF Build, MkdirTpg, MkdirNp, MkdirNacl, MkdirLun,
       MkdirMapped, LinkPort, LinkPortFails, RollbackPort, LinkMapped, LinkMappedFails,
       SetSecondaryWriteMd, RestoreFails
<1>3. ASSUME NEW c \in Cli, TakeDown(c)
      PROVE  UNCHANGED saved \/ (cli[c].cmd \in Explicit /\ cli'[c] # cli[c])
  <2>1. CASE RmMdFile(c)
    <3>1. cli[c].cmd \in Explicit
      BY <2>1 DEF RmMdFile, At, StagesOK, Staged
    <3>2. cli'[c].pc # cli[c].pc
      BY <2>1, GotoMoves DEF RmMdFile, At, Moved
    <3>. QED BY <3>1, <3>2
  <2>2. CASE RmMdDir(c)
    <3>1. cli[c].cmd \in Explicit
      BY <2>2 DEF RmMdDir, At, StagesOK, Staged, Explicit
    <3>2. cli'[c].pc # cli[c].pc
      BY <2>2, GotoMoves DEF RmMdDir, At, Moved
    <3>. QED BY <3>1, <3>2
  <2>. QED BY <1>3, <2>1, <2>2 DEF TakeDown, ListTpgs, RelistTpgs, NextTpg, DisableTpg,
       ListNps, NextNp, DisableIser, DisableIserFails, RmdirNp, ListNacls, ListMapped,
       ListMappedLinks, UnlinkMapped, RmdirMapped, RmdirNacl, ListLuns, ListPortLinks,
       UnlinkPort, RmdirLun, RmdirTpg, RmdirIqn, UnloadModule
<1>4. ASSUME NEW c \in Cli, Start(c) \/ Exit(c) \/ Killed(c)
      PROVE  UNCHANGED saved
  BY <1>4 DEF Start, Begin, Exit, Killed, StartAddTpg, StartAddNp,
     StartAddNodeacl, StartAddPort, StartAddLunacl, StartProcessSecondaryMd, StartDelLunacl,
     StartDelNodeacl, StartDelNp, StartDelPort, StartDelTpg, StartDelIqn, StartUnload
<1>5. ASSUME Around
      PROVE  UNCHANGED saved \/ ~Forgets
  <2>1. ASSUME NEW p \in Port, NEW bit \in BOOLEAN, SetOffline(p, bit) PROVE ~Forgets
    BY <2>1, OfflineSaves DEF SetOffline
  <2>. QED BY <1>5, <2>1 DEF Around, EnableTpg, SetIser, AddDev, FreeDev
<1>6. CASE UNCHANGED vars
  BY <1>1, <1>6 DEF vars
<1>. QED BY <1>1, <1>2, <1>3, <1>4, <1>5, <1>6 DEF Next, Run

\* With any number of invocations at work, only --dellun, --deltpg and --deliqn make saved
\* metadata disappear; --unload and the removals of ACLs and portals keep it.
THEOREM OnlyDeletesForgetAlways == Spec => OnlyDeletesForget
<1>1. TypeOK /\ StagesOK /\ [Next]_vars =>
        [(\E p \in Port : mdFile[p] # None /\ mdFile'[p] = None) \/ ~(mdDir \subseteq mdDir')
         => \E c \in Cli : cli[c].cmd \in Explicit /\ cli'[c] # cli[c]]_vars
  BY StepForgets DEF Forgets
<1>. QED BY <1>1, TypeCorrect, StagesKept, PTL DEF Spec, OnlyDeletesForget

-----------------------------------------------------------------------------
(* An invocation that nothing disturbs *)

\* A directory is named by its parent and its own name.
LEMMA Paths ==
    ASSUME TypeOK
    PROVE  /\ \A x \in tpgs : x[1] \in IQN /\ x[2] \in TPGT /\ x = <<x[1], x[2]>>
           /\ \A x \in nps : x[1] \in Tpg /\ x[2] \in Portal /\ x = <<x[1], x[2]>>
           /\ \A x \in nacls : x[1] \in Tpg /\ x[2] \in Initiator /\ x = <<x[1], x[2]>>
           /\ \A x \in luns : x[1] \in Tpg /\ x[2] \in Lun /\ x = <<x[1], x[2]>>
           /\ \A x \in mapped : /\ x[1] \in Tpg /\ x[2] \in Initiator /\ x[3] \in MappedLun
                                /\ x = <<x[1], x[2], x[3]>>
BY DEF TypeOK, Tpg, Np, Port, Nacl, Mapped

\* What a command starts with is what the tree holds.
LEMMA StartUndisturbed ==
    ASSUME TypeOK, TreeOK, NEW c \in Cli, Start(c)
    PROVE  Undisturbed(cli[c])'
<1>1. Fresh(cli'[c])
  BY StartFresh
<1>2. UNCHANGED <<dirs, links, attrs, devs, saved>>
  BY DEF Start, Begin, StartAddTpg, StartAddNp,
     StartAddNodeacl, StartAddPort, StartAddLunacl, StartProcessSecondaryMd, StartDelLunacl,
     StartDelNodeacl, StartDelNp, StartDelPort, StartDelTpg, StartDelIqn, StartUnload
<1>. USE <1>1, <1>2 DEF NotRefused, Fresh, Adding, Whole, Loops, Teardown, InNp, InMapped, InNacl,
       InLun, InLuns,
       InTpg, dirs, links, attrs, saved
<1>3. IqnLevel(cli[c])'
  BY DEF IqnLevel
<1>4. TpgLevel(cli[c])'
  BY DEF TpgLevel
<1>5. LunLevel(cli[c])'
  BY DEF LunLevel
<1>6. NaclLevel(cli[c])'
  BY DEF NaclLevel
<1>7. MappedLevel(cli[c])'
  BY DEF MappedLevel
<1>8. NpLevel(cli[c])'
  BY DEF NpLevel
<1>9. AddLevel(cli[c])'
  BY DEF AddLevel
<1>10. ForgetLevel(cli[c])'
  BY DEF ForgetLevel
<1>11. NotRefused(cli[c])'
  OBVIOUS
<1>. QED BY <1>3, <1>4, <1>5, <1>6, <1>7, <1>8, <1>9, <1>10, <1>11 DEF Undisturbed

\* An undisturbed --addlun owns its LUN number, and what the other building commands make is
\* not among the promises.
LEMMA BuildUndisturbed ==
    ASSUME TypeOK, TreeOK, NEW c \in Cli, Staged(cli[c]), Undisturbed(cli[c]), Build(c)
    PROVE  Undisturbed(cli[c])'
<1>. USE GotoMoves, Names DEF Moved, Same, At, Staged, Undisturbed, NotRefused, Adding,
       Whole, Loops,
       Teardown, InNp, InMapped, InNacl, InLun, InLuns, InTpg, dirs, links, attrs, saved
<1>1. CASE MkdirTpg(c)
  BY <1>1 DEF MkdirTpg, IqnLevel, TpgLevel, LunLevel, NaclLevel, MappedLevel, NpLevel,
     AddLevel, ForgetLevel
<1>2. CASE MkdirNp(c)
  BY <1>2 DEF MkdirNp, IqnLevel, TpgLevel, LunLevel, NaclLevel, MappedLevel, NpLevel,
     AddLevel, ForgetLevel
<1>3. CASE MkdirNacl(c)
  BY <1>3 DEF MkdirNacl, IqnLevel, TpgLevel, LunLevel, NaclLevel, MappedLevel, NpLevel,
     AddLevel, ForgetLevel
<1>4. CASE MkdirLun(c)
  <2>1. <<cli[c].t, cli[c].l>> \notin luns
    BY <1>4 DEF MkdirLun, AddLevel
  <2>2. dev[<<cli[c].t, cli[c].l>>] = None
    BY <2>1 DEF TreeOK, LinksOK
  <2>3. \A x \in mapped : ~(x[1] = cli[c].t /\ lioLun[x] = cli[c].l)
    BY <2>1, NoneIsNoValue DEF TreeOK, LinksOK, TypeOK
  <2>4. AddLevel(cli[c])'
    BY <1>4, <2>2, <2>3 DEF MkdirLun, AddLevel, RemovableLun, MappedTo
  <2>. QED
    BY <1>4, <2>4 DEF MkdirLun, IqnLevel, TpgLevel, LunLevel, NaclLevel, MappedLevel,
       NpLevel, ForgetLevel
<1>5. CASE MkdirMapped(c)
  BY <1>5 DEF MkdirMapped, IqnLevel, TpgLevel, LunLevel, NaclLevel, MappedLevel, NpLevel,
     AddLevel, ForgetLevel
<1>6. CASE LinkPort(c)
  <2>1. dev'[PortOf(c)] # None
    BY <1>6, NoneIsNoValue DEF LinkPort, CanLinkPort, TypeOK
  <2>2. AddLevel(cli[c])'
    BY <1>6, <2>1 DEF LinkPort, AddLevel
  <2>. QED
    BY <1>6, <2>2 DEF LinkPort, IqnLevel, TpgLevel, LunLevel, NaclLevel, MappedLevel,
       NpLevel, ForgetLevel
<1>7. CASE LinkPortFails(c)
  <2>1. AddLevel(cli[c])'
    BY <1>7 DEF LinkPortFails, AddLevel, RemovableLun, MappedTo
  <2>. QED
    BY <1>7, <2>1 DEF LinkPortFails, IqnLevel, TpgLevel, LunLevel, NaclLevel, MappedLevel,
       NpLevel, ForgetLevel
<1>8. CASE RollbackPort(c)
  BY <1>8 DEF RollbackPort, IqnLevel, TpgLevel, LunLevel, NaclLevel, MappedLevel, NpLevel,
     AddLevel, ForgetLevel
<1>9. CASE LinkMapped(c)
  BY <1>9 DEF LinkMapped, IqnLevel, TpgLevel, LunLevel, NaclLevel, MappedLevel, NpLevel,
     AddLevel, ForgetLevel
<1>10. CASE LinkMappedFails(c)
  BY <1>10 DEF LinkMappedFails, IqnLevel, TpgLevel, LunLevel, NaclLevel, MappedLevel,
     NpLevel, AddLevel, ForgetLevel
<1>11. CASE CheckSecondaryMd(c)
  BY <1>11 DEF CheckSecondaryMd, IqnLevel, TpgLevel, LunLevel, NaclLevel, MappedLevel,
     NpLevel, AddLevel, ForgetLevel
<1>12. CASE SetSecondaryWriteMd(c)
  BY <1>12 DEF SetSecondaryWriteMd, IqnLevel, TpgLevel, LunLevel, NaclLevel, MappedLevel,
     NpLevel, AddLevel, ForgetLevel
<1>13. CASE RestoreOffline(c)
  BY <1>13 DEF RestoreOffline, IqnLevel, TpgLevel, LunLevel, NaclLevel, MappedLevel, NpLevel,
     AddLevel, ForgetLevel
<1>14. CASE RestoreStatus(c)
  BY <1>14 DEF RestoreStatus, IqnLevel, TpgLevel, LunLevel, NaclLevel, MappedLevel, NpLevel,
     AddLevel, ForgetLevel
<1>15. CASE RestoreFails(c)
  BY <1>15 DEF RestoreFails, IqnLevel, TpgLevel, LunLevel, NaclLevel, MappedLevel, NpLevel,
     AddLevel, ForgetLevel
<1>. QED BY <1>1, <1>2, <1>3, <1>4, <1>5, <1>6, <1>7, <1>8, <1>9, <1>10, <1>11, <1>12,
   <1>13, <1>14, <1>15 DEF Build

\* The order of __lio_target_del_tpg: what each stage removes is empty by then, so that the
\* kernel refuses nothing, and what the snapshots still hold is still there.
LEMMA TakeDownUndisturbed ==
    ASSUME TypeOK, TreeOK, NEW c \in Cli, Staged(cli[c]), Undisturbed(cli[c]), TakeDown(c)
    PROVE  Undisturbed(cli[c])'
<1>. USE GotoMoves, Names DEF Moved, Same, At, Staged, Undisturbed, NotRefused, Adding,
       Whole, Loops,
       Teardown, InNp, InMapped, InNacl, InLun, InLuns, InTpg, dirs, links, attrs, saved
<1>1. CASE ListTpgs(c)
  <2>1. IqnLevel(cli[c])'
    <3>1. PICK iqn \in cli[c].iqnsLeft :
             /\ cli'[c].cmd = cli[c].cmd
             /\ cli'[c].pc = IF iqn \in iqns THEN "tpgs" ELSE "err"
             /\ cli'[c].t = <<iqn, cli[c].t[2]>>
             /\ cli'[c].iqnsLeft = cli[c].iqnsLeft \ {iqn}
             /\ cli'[c].tpgsLeft = {tpgt \in TPGT : <<iqn, tpgt>> \in tpgs}
      <4>1. PICK iqn \in cli[c].iqnsLeft :
               Become(c, [cli[c] EXCEPT
                 !.pc       = IF iqn \in iqns THEN "tpgs" ELSE "err",
                 !.t        = <<iqn, cli[c].t[2]>>,
                 !.iqnsLeft = cli[c].iqnsLeft \ {iqn},
                 !.tpgsLeft = {tpgt \in TPGT : <<iqn, tpgt>> \in tpgs},
                 !.relisted = (cli[c].cmd = "deliqn")])
        BY <1>1 DEF ListTpgs
      <4> DEFINE stage == IF iqn \in iqns THEN "tpgs" ELSE "err"
      <4> DEFINE tpg == <<iqn, cli[c].t[2]>>
      <4> DEFINE left == cli[c].iqnsLeft \ {iqn}
      <4> DEFINE tags == {tpgt \in TPGT : <<iqn, tpgt>> \in tpgs}
      <4> DEFINE again == (cli[c].cmd = "deliqn")
      <4>2. cli'[c] = [cli[c] EXCEPT !.pc = stage, !.t = tpg, !.iqnsLeft = left,
                                     !.tpgsLeft = tags, !.relisted = again]
        BY <4>1 DEF Become, TypeOK
      <4>3. cli[c] \in CliState
        BY DEF TypeOK
      <4>4. /\ cli'[c].cmd = cli[c].cmd /\ cli'[c].pc = stage /\ cli'[c].t = tpg
            /\ cli'[c].iqnsLeft = left /\ cli'[c].tpgsLeft = tags
        <5> HIDE DEF stage, tpg, left, tags, again
        <5>. QED BY <4>2, <4>3 DEF CliState
      <4>. QED BY <4>4
    <3>2. cli[c].cmd \in Loops /\ cli[c].iqnsLeft \subseteq iqns
      BY <1>1 DEF ListTpgs, IqnLevel
    <3>3. UNCHANGED <<iqns, tpgs>>
      BY <1>1 DEF ListTpgs
    <3>. QED BY <3>1, <3>2, <3>3, Paths DEF IqnLevel
  <2>2. /\ NotRefused(cli[c])' /\ TpgLevel(cli[c])' /\ LunLevel(cli[c])' /\ NaclLevel(cli[c])'
        /\ MappedLevel(cli[c])' /\ NpLevel(cli[c])' /\ AddLevel(cli[c])' /\ ForgetLevel(cli[c])'
    BY <1>1 DEF ListTpgs, IqnLevel, TpgLevel, LunLevel, NaclLevel, MappedLevel, NpLevel,
       AddLevel, ForgetLevel, Become, TypeOK, CliState
  <2>. QED BY <2>1, <2>2
<1>2. CASE RelistTpgs(c)
  <2>1. IqnLevel(cli[c])'
    <3>1. /\ cli'[c].cmd = cli[c].cmd
          /\ cli'[c].pc = IF cli[c].t[1] \in iqns THEN "tpgs" ELSE "err"
          /\ cli'[c].t = cli[c].t
          /\ cli'[c].iqnsLeft = cli[c].iqnsLeft
          /\ cli'[c].tpgsLeft = {tpgt \in TPGT : <<cli[c].t[1], tpgt>> \in tpgs}
      BY <1>2 DEF RelistTpgs, Become, TypeOK, CliState
    <3>2. /\ cli[c].cmd \in Loops /\ cli[c].t[1] \in iqns
          /\ cli[c].iqnsLeft \subseteq iqns \ {cli[c].t[1]}
      BY <1>2 DEF RelistTpgs, IqnLevel
    <3>3. UNCHANGED <<iqns, tpgs>>
      BY <1>2 DEF RelistTpgs
    <3>. QED BY <3>1, <3>2, <3>3, Paths DEF IqnLevel
  <2>2. /\ NotRefused(cli[c])' /\ TpgLevel(cli[c])' /\ LunLevel(cli[c])' /\ NaclLevel(cli[c])'
        /\ MappedLevel(cli[c])' /\ NpLevel(cli[c])' /\ AddLevel(cli[c])' /\ ForgetLevel(cli[c])'
    BY <1>2 DEF RelistTpgs, IqnLevel, TpgLevel, LunLevel, NaclLevel, MappedLevel, NpLevel,
       AddLevel, ForgetLevel, Become, TypeOK, CliState
  <2>. QED BY <2>1, <2>2
<1>3. CASE NextTpg(c)
  <2>1. IqnLevel(cli[c])'
    BY <1>3, Paths DEF NextTpg, IqnLevel, Become, TypeOK, CliState
  <2>2. TpgLevel(cli[c])'
    BY <1>3, Paths DEF NextTpg, TpgLevel, IqnLevel, Become, TypeOK, CliState
  <2>3. /\ NotRefused(cli[c])' /\ LunLevel(cli[c])' /\ NaclLevel(cli[c])' /\ MappedLevel(cli[c])'
        /\ NpLevel(cli[c])' /\ AddLevel(cli[c])' /\ ForgetLevel(cli[c])'
    BY <1>3 DEF NextTpg, IqnLevel, TpgLevel, LunLevel, NaclLevel, MappedLevel, NpLevel,
       AddLevel, ForgetLevel, Become, TypeOK, CliState
  <2>. QED BY <2>1, <2>2, <2>3
<1>4. CASE DisableTpg(c)
  <2>1. TpgLevel(cli[c])'
    <3>1. PICK refused \in SUBSET ({cli[c].t} \cap enabled) :
             /\ enabled' = (enabled \ {cli[c].t}) \cup refused
             /\ cli'[c].refused = IF refused = {} THEN {} ELSE {"enable"}
             /\ cli'[c].pc = "npList" /\ cli'[c].t = cli[c].t /\ cli'[c].cmd = cli[c].cmd
      <4>1. PICK refused \in SUBSET ({cli[c].t} \cap enabled) :
               /\ enabled' = (enabled \ {cli[c].t}) \cup refused
               /\ Become(c, [cli[c] EXCEPT
                    !.pc = "npList", !.refused = IF refused = {} THEN {} ELSE {"enable"}])
        BY <1>4 DEF DisableTpg
      <4> DEFINE seen == IF refused = {} THEN {} ELSE {"enable"}
      <4>2. cli'[c] = [cli[c] EXCEPT !.pc = "npList", !.refused = seen]
        BY <4>1 DEF Become, TypeOK
      <4>3. cli[c] \in CliState
        BY DEF TypeOK
      <4>4. /\ cli'[c].refused = seen /\ cli'[c].pc = "npList"
            /\ cli'[c].t = cli[c].t /\ cli'[c].cmd = cli[c].cmd
        <5> HIDE DEF seen
        <5>. QED BY <4>2, <4>3 DEF CliState
      <4>. QED BY <4>1, <4>4
    <3>2. cli'[c].t \notin enabled' \/ "enable" \in cli'[c].refused
      BY <3>1
    <3>. QED BY <1>4, <3>1, <3>2 DEF DisableTpg, TpgLevel
  <2>2. /\ NotRefused(cli[c])' /\ IqnLevel(cli[c])' /\ LunLevel(cli[c])' /\ NaclLevel(cli[c])'
        /\ MappedLevel(cli[c])' /\ NpLevel(cli[c])' /\ AddLevel(cli[c])' /\ ForgetLevel(cli[c])'
    BY <1>4 DEF DisableTpg, IqnLevel, TpgLevel, LunLevel, NaclLevel, MappedLevel, NpLevel,
       AddLevel, ForgetLevel, Become, TypeOK, CliState
  <2>. QED BY <2>1, <2>2
<1>5. CASE ListNps(c)
  BY <1>5 DEF ListNps, IqnLevel, TpgLevel, LunLevel, NaclLevel, MappedLevel, NpLevel,
     AddLevel, ForgetLevel, Become, TypeOK, CliState
<1>6. CASE NextNp(c)
  BY <1>6 DEF NextNp, IqnLevel, TpgLevel, LunLevel, NaclLevel, MappedLevel, NpLevel,
     AddLevel, ForgetLevel, Become, TypeOK, CliState
<1>7. CASE ListNacls(c)
  <2>1. TpgLevel(cli[c])'
    BY <1>7, Paths DEF ListNacls, TpgLevel, Become, TypeOK, CliState
  <2>2. /\ NotRefused(cli[c])' /\ IqnLevel(cli[c])' /\ LunLevel(cli[c])' /\ NaclLevel(cli[c])'
        /\ MappedLevel(cli[c])' /\ NpLevel(cli[c])' /\ AddLevel(cli[c])' /\ ForgetLevel(cli[c])'
    BY <1>7 DEF ListNacls, IqnLevel, TpgLevel, LunLevel, NaclLevel, MappedLevel, NpLevel,
       AddLevel, ForgetLevel, Become, TypeOK, CliState
  <2>. QED BY <2>1, <2>2
<1>8. CASE ListMapped(c)
  BY <1>8 DEF ListMapped, IqnLevel, TpgLevel, LunLevel, NaclLevel, MappedLevel, NpLevel,
     AddLevel, ForgetLevel, Become, TypeOK, CliState
<1>9. CASE ListMappedLinks(c)
  BY <1>9 DEF ListMappedLinks, IqnLevel, TpgLevel, LunLevel, NaclLevel, MappedLevel, NpLevel,
     AddLevel, ForgetLevel, Become, TypeOK, CliState
<1>10. CASE UnlinkMapped(c)
  <2>1. MappedLevel(cli[c])'
    <3>1. lioLun[MappedOf(c)] # None /\ MappedOf(c) \in mapped
      BY <1>10 DEF UnlinkMapped, MappedLevel
    <3>2. lioLun'[MappedOf(c)] = None
      BY <1>10 DEF UnlinkMapped, TypeOK
    <3>. QED BY <1>10, <3>1, <3>2 DEF UnlinkMapped, MappedLevel
  <2>2. NotRefused(cli[c])'
    BY <1>10 DEF UnlinkMapped, MappedLevel
  <2>3. /\ IqnLevel(cli[c])' /\ TpgLevel(cli[c])' /\ LunLevel(cli[c])' /\ NaclLevel(cli[c])'
        /\ NpLevel(cli[c])' /\ AddLevel(cli[c])' /\ ForgetLevel(cli[c])'
    BY <1>10 DEF UnlinkMapped, IqnLevel, TpgLevel, LunLevel, NaclLevel, MappedLevel, NpLevel,
       AddLevel, ForgetLevel
  <2>. QED BY <2>1, <2>2, <2>3
<1>11. CASE RmdirMapped(c)
  <2>1. MappedLevel(cli[c])'
    <3>1. CASE cli[c].cmd = "dellunacl"
      BY <1>11, <3>1 DEF RmdirMapped, MappedLevel
    <3>2. CASE cli[c].cmd # "dellunacl"
      <4>1. \A m \in MappedLun : m # cli[c].m => <<cli[c].t, cli[c].i, m>> # MappedOf(c)
        OBVIOUS
      <4>. QED BY <1>11, <3>2, <4>1 DEF RmdirMapped, NaclLevel, MappedLevel, CliState, TypeOK
    <3>. QED BY <3>1, <3>2
  <2>2. NotRefused(cli[c])'
    BY <1>11 DEF RmdirMapped, RemovableMapped, MappedLevel
  <2>3. /\ IqnLevel(cli[c])' /\ TpgLevel(cli[c])' /\ LunLevel(cli[c])' /\ NaclLevel(cli[c])'
        /\ NpLevel(cli[c])' /\ AddLevel(cli[c])' /\ ForgetLevel(cli[c])'
    BY <1>11 DEF RmdirMapped, IqnLevel, TpgLevel, LunLevel, NaclLevel, MappedLevel, NpLevel,
       AddLevel, ForgetLevel
  <2>. QED BY <2>1, <2>2, <2>3
<1>12. CASE RmdirNacl(c)
  <2>1. TpgLevel(cli[c])'
    BY <1>12, Paths DEF RmdirNacl, RemovableNacl, TpgLevel, NaclLevel
  <2>2. NaclLevel(cli[c])'
    <3>1. CASE cli[c].cmd = "delnodeacl"
      BY <1>12, <3>1 DEF RmdirNacl, NaclLevel
    <3>2. CASE cli[c].cmd # "delnodeacl"
      <4>1. cli[c].naclsLeft \subseteq Initiator
        BY DEF TypeOK, CliState
      <4>2. \A i \in Initiator : i # cli[c].i => <<cli[c].t, i>> # NaclOf(c)
        OBVIOUS
      <4>. QED BY <1>12, <3>2, <4>1, <4>2 DEF RmdirNacl, NaclLevel, TpgLevel
    <3>. QED BY <3>1, <3>2
  <2>3. NotRefused(cli[c])'
    BY <1>12, Paths DEF RmdirNacl, RemovableNacl, NaclLevel
  <2>4. /\ IqnLevel(cli[c])' /\ LunLevel(cli[c])' /\ MappedLevel(cli[c])'
        /\ NpLevel(cli[c])' /\ AddLevel(cli[c])' /\ ForgetLevel(cli[c])'
    BY <1>12 DEF RmdirNacl, IqnLevel, TpgLevel, LunLevel, NaclLevel, MappedLevel, NpLevel,
       AddLevel, ForgetLevel
  <2>. QED BY <2>1, <2>2, <2>3, <2>4
<1>13. CASE ListLuns(c)
  <2>1. TpgLevel(cli[c])'
    BY <1>13, Paths DEF ListLuns, TpgLevel, Become, TypeOK, CliState
  <2>2. /\ NotRefused(cli[c])' /\ IqnLevel(cli[c])' /\ LunLevel(cli[c])' /\ NaclLevel(cli[c])'
        /\ MappedLevel(cli[c])' /\ NpLevel(cli[c])' /\ AddLevel(cli[c])' /\ ForgetLevel(cli[c])'
    BY <1>13 DEF ListLuns, IqnLevel, TpgLevel, LunLevel, NaclLevel, MappedLevel, NpLevel,
       AddLevel, ForgetLevel, Become, TypeOK, CliState
  <2>. QED BY <2>1, <2>2
<1>14. CASE ListPortLinks(c)
  BY <1>14 DEF ListPortLinks, IqnLevel, TpgLevel, LunLevel, NaclLevel, MappedLevel, NpLevel,
     AddLevel, ForgetLevel, Become, TypeOK, CliState
<1>15. CASE UnlinkPort(c)
  <2>1. LunLevel(cli[c])'
    BY <1>15 DEF UnlinkPort, LunLevel, TypeOK
  <2>2. NotRefused(cli[c])'
    BY <1>15 DEF UnlinkPort, LunLevel
  <2>3. /\ IqnLevel(cli[c])' /\ TpgLevel(cli[c])' /\ NaclLevel(cli[c])' /\ MappedLevel(cli[c])'
        /\ NpLevel(cli[c])' /\ AddLevel(cli[c])' /\ ForgetLevel(cli[c])'
    BY <1>15 DEF UnlinkPort, IqnLevel, TpgLevel, LunLevel, NaclLevel, MappedLevel, NpLevel,
       AddLevel, ForgetLevel
  <2>. QED BY <2>1, <2>2, <2>3
<1>16. CASE RmdirLun(c)
  <2>1. NotRefused(cli[c])'
    <3>1. ASSUME cli[c].cmd \in Whole PROVE RemovableLun(PortOf(c))
      <4>1. PortOf(c) \in luns /\ dev[PortOf(c)] = None
        BY <1>16, <3>1 DEF RmdirLun, LunLevel
      <4>2. \A x \in nacls : x[1] # cli[c].t
        BY <1>16, <3>1 DEF RmdirLun, TpgLevel
      <4>3. \A x \in mapped : x[1] # cli[c].t
        BY <4>2 DEF TreeOK, ParentsOK
      <4>. QED BY <4>1, <4>3 DEF RemovableLun, MappedTo
    <3>. QED BY <1>16, <3>1 DEF RmdirLun
  <2>2. /\ IqnLevel(cli[c])' /\ TpgLevel(cli[c])' /\ LunLevel(cli[c])' /\ NaclLevel(cli[c])'
        /\ MappedLevel(cli[c])' /\ NpLevel(cli[c])' /\ AddLevel(cli[c])' /\ ForgetLevel(cli[c])'
    BY <1>16 DEF RmdirLun, IqnLevel, TpgLevel, LunLevel, NaclLevel, MappedLevel, NpLevel,
       AddLevel, ForgetLevel
  <2>. QED BY <2>1, <2>2
<1>17. CASE RmMdFile(c)
  <2>1. ForgetLevel(cli[c])'
    BY <1>17 DEF RmMdFile, ForgetLevel, TypeOK
  <2>2. /\ NotRefused(cli[c])' /\ IqnLevel(cli[c])' /\ TpgLevel(cli[c])' /\ LunLevel(cli[c])'
        /\ NaclLevel(cli[c])' /\ MappedLevel(cli[c])' /\ NpLevel(cli[c])' /\ AddLevel(cli[c])'
    BY <1>17 DEF RmMdFile, IqnLevel, TpgLevel, LunLevel, NaclLevel, MappedLevel, NpLevel,
       AddLevel, ForgetLevel
  <2>. QED BY <2>1, <2>2
<1>18. CASE RmdirTpg(c)
  <2>1. NotRefused(cli[c])'
    BY <1>18, Paths DEF RmdirTpg, RemovableTpg, LunLevel, TpgLevel
  <2>2. /\ IqnLevel(cli[c])' /\ TpgLevel(cli[c])' /\ LunLevel(cli[c])' /\ NaclLevel(cli[c])'
        /\ MappedLevel(cli[c])' /\ NpLevel(cli[c])' /\ AddLevel(cli[c])' /\ ForgetLevel(cli[c])'
    BY <1>18 DEF RmdirTpg, IqnLevel, TpgLevel, LunLevel, NaclLevel, MappedLevel, NpLevel,
       AddLevel, ForgetLevel
  <2>. QED BY <2>1, <2>2
<1>19. CASE RmMdDir(c)
  <2>1. ForgetLevel(cli[c])'
    BY <1>19 DEF RmMdDir, ForgetLevel, TypeOK, Port
  <2>2. /\ NotRefused(cli[c])' /\ IqnLevel(cli[c])' /\ TpgLevel(cli[c])' /\ LunLevel(cli[c])'
        /\ NaclLevel(cli[c])' /\ MappedLevel(cli[c])' /\ NpLevel(cli[c])' /\ AddLevel(cli[c])'
    BY <1>19 DEF RmMdDir, IqnLevel, TpgLevel, LunLevel, NaclLevel, MappedLevel, NpLevel,
       AddLevel, ForgetLevel
  <2>. QED BY <2>1, <2>2
<1>20. CASE RmdirIqn(c)
  <2>1. NotRefused(cli[c])'
    BY <1>20, Paths DEF RmdirIqn, RemovableIqn, IqnLevel
  <2>2. /\ IqnLevel(cli[c])' /\ TpgLevel(cli[c])' /\ LunLevel(cli[c])' /\ NaclLevel(cli[c])'
        /\ MappedLevel(cli[c])' /\ NpLevel(cli[c])' /\ AddLevel(cli[c])' /\ ForgetLevel(cli[c])'
    BY <1>20 DEF RmdirIqn, IqnLevel, TpgLevel, LunLevel, NaclLevel, MappedLevel, NpLevel,
       AddLevel, ForgetLevel
  <2>. QED BY <2>1, <2>2
<1>21. CASE UnloadModule(c)
  BY <1>21 DEF UnloadModule, IqnLevel, TpgLevel, LunLevel, NaclLevel, MappedLevel, NpLevel,
     AddLevel, ForgetLevel
<1>22. CASE DisableIser(c)
  BY <1>22 DEF DisableIser, IqnLevel, TpgLevel, LunLevel, NaclLevel, MappedLevel, NpLevel,
     AddLevel, ForgetLevel
<1>23. CASE DisableIserFails(c)
  BY <1>23 DEF DisableIserFails, IqnLevel, TpgLevel, LunLevel, NaclLevel, MappedLevel, NpLevel,
     AddLevel, ForgetLevel, Become, TypeOK, CliState
<1>24. CASE RmdirNp(c)
  <2>1. NotRefused(cli[c])'
    BY <1>24 DEF RmdirNp, RemovableNp, NpLevel
  <2>2. \A n \in Portal : n # cli[c].n => <<cli[c].t, n>> # NpOf(c)
    OBVIOUS
  <2>3. cli[c].npsLeft \subseteq Portal
    BY DEF TypeOK, CliState
  <2>4. TpgLevel(cli[c])' /\ NpLevel(cli[c])'
    BY <1>24, <2>2, <2>3 DEF RmdirNp, TpgLevel, NpLevel
  <2>5. /\ IqnLevel(cli[c])' /\ LunLevel(cli[c])' /\ NaclLevel(cli[c])' /\ MappedLevel(cli[c])'
        /\ AddLevel(cli[c])' /\ ForgetLevel(cli[c])'
    BY <1>24 DEF RmdirNp, IqnLevel, TpgLevel, LunLevel, NaclLevel, MappedLevel, NpLevel,
       AddLevel, ForgetLevel
  <2>. QED BY <2>1, <2>4, <2>5
<1>. QED BY <1>1, <1>2, <1>3, <1>4, <1>5, <1>6, <1>7, <1>8, <1>9, <1>10, <1>11, <1>12,
   <1>13, <1>14, <1>15, <1>16, <1>17, <1>18, <1>19, <1>20, <1>21, <1>22, <1>23, <1>24
   DEF TakeDown

\* What a new invocation has accomplished: nothing yet.
LEMMA StartAccomplished ==
    ASSUME TypeOK, NEW c \in Cli, Start(c)
    PROVE  Accomplished(cli[c])'
<1>1. Fresh(cli'[c])
  BY StartFresh
<1>2. UNCHANGED <<dirs, links, attrs, devs, saved>>
  BY DEF Start, Begin, StartAddTpg, StartAddNp,
     StartAddNodeacl, StartAddPort, StartAddLunacl, StartProcessSecondaryMd, StartDelLunacl,
     StartDelNodeacl, StartDelNp, StartDelPort, StartDelTpg, StartDelIqn, StartUnload
<1>. USE <1>1, <1>2 DEF Fresh, Adding, Whole, Loops, InNp, InMapped, InNacl, InLun, InLuns,
       InTpg, dirs, attrs, saved
<1>3. RestoreLevel(cli[c])'
  BY DEF RestoreLevel
<1>4. GoneLevel(cli[c])'
  BY DEF GoneLevel
<1>. QED BY <1>3, <1>4 DEF Accomplished

\* Of what is built only --aluasecmd promises something: the port has the saved attributes
\* once both are written.
LEMMA BuildAccomplished ==
    ASSUME TypeOK, NEW c \in Cli, Staged(cli[c]), Accomplished(cli[c]), Build(c)
    PROVE  Accomplished(cli[c])'
<1>. USE GotoMoves, Names DEF Moved, Same, At, Staged, Accomplished, Adding, Whole, Loops,
       InNp, InMapped, InNacl, InLun, InLuns, InTpg, dirs, links, attrs, saved
<1>1. CASE MkdirTpg(c)
  BY <1>1 DEF MkdirTpg, RestoreLevel, GoneLevel
<1>2. CASE MkdirNp(c)
  BY <1>2 DEF MkdirNp, RestoreLevel, GoneLevel
<1>3. CASE MkdirNacl(c)
  BY <1>3 DEF MkdirNacl, RestoreLevel, GoneLevel
<1>4. CASE MkdirLun(c)
  BY <1>4 DEF MkdirLun, RestoreLevel, GoneLevel
<1>5. CASE MkdirMapped(c)
  BY <1>5 DEF MkdirMapped, RestoreLevel, GoneLevel
<1>6. CASE LinkPort(c)
  BY <1>6 DEF LinkPort, RestoreLevel, GoneLevel
<1>7. CASE LinkPortFails(c)
  BY <1>7 DEF LinkPortFails, RestoreLevel, GoneLevel
<1>8. CASE RollbackPort(c)
  BY <1>8 DEF RollbackPort, RestoreLevel, GoneLevel
<1>9. CASE LinkMapped(c)
  BY <1>9 DEF LinkMapped, RestoreLevel, GoneLevel
<1>10. CASE LinkMappedFails(c)
  BY <1>10 DEF LinkMappedFails, RestoreLevel, GoneLevel
<1>11. CASE CheckSecondaryMd(c)
  BY <1>11 DEF CheckSecondaryMd, RestoreLevel, GoneLevel
<1>12. CASE SetSecondaryWriteMd(c)
  BY <1>12 DEF SetSecondaryWriteMd, RestoreLevel, GoneLevel
<1>13. CASE RestoreOffline(c)
  <2>1. PICK status \in Status :
          LET state == [offline |-> cli[c].md.offline, status |-> status] IN
          /\ secondary' = [secondary EXCEPT ![PortOf(c)] = state]
          /\ mdFile' = FilesWith(PortOf(c), state)
    BY <1>13 DEF RestoreOffline, SetOfflineBit
  <2> DEFINE state == [offline |-> cli[c].md.offline, status |-> status]
  <2>2. mdFile[PortOf(c)] = cli[c].md /\ cli[c].md # None /\ cli[c].cmd = "aluasecmd"
    BY <1>13 DEF RestoreOffline, RestoreLevel
  <2>3. state \in Secondary /\ state # None /\ state.offline = cli[c].md.offline
    BY <2>2, NoneIsNoValue DEF TypeOK, CliState, Secondary
  <2> HIDE DEF state
  <2>4. secondary'[PortOf(c)] = state /\ mdFile'[PortOf(c)] \in {state, mdFile[PortOf(c)]}
    BY <2>1 DEF state, FilesWith, TypeOK
  <2>5. Moved(cli[c], cli'[c], "status")
    BY <1>13 DEF RestoreOffline
  <2>. QED BY <2>2, <2>3, <2>4, <2>5 DEF RestoreLevel, GoneLevel
<1>14. CASE RestoreStatus(c)
  <2> DEFINE state == [secondary[PortOf(c)] EXCEPT !.status = cli[c].md.status]
  <2>1. /\ secondary' = [secondary EXCEPT ![PortOf(c)] = state]
        /\ mdFile' \in {mdFile, FilesWith(PortOf(c), state)}
    BY <1>14 DEF RestoreStatus, SetStatus
  <2>2. /\ secondary[PortOf(c)].offline = cli[c].md.offline
        /\ cli[c].md # None /\ cli[c].cmd = "aluasecmd"
        /\ mdFile[PortOf(c)] # None /\ mdFile[PortOf(c)].offline = cli[c].md.offline
    BY <1>14 DEF RestoreStatus, RestoreLevel
  <2>3. cli[c].md \in Secondary /\ secondary[PortOf(c)] \in Secondary
    BY <2>2 DEF TypeOK, CliState
  <2>4. state = cli[c].md
    BY <2>2, <2>3 DEF Secondary
  <2> HIDE DEF state
  <2>5. secondary'[PortOf(c)] = state /\ mdFile'[PortOf(c)] \in {state, mdFile[PortOf(c)]}
    BY <2>1 DEF FilesWith, TypeOK
  <2>6. Moved(cli[c], cli'[c], "writeMd")
    BY <1>14 DEF RestoreStatus
  <2>. QED BY <2>2, <2>4, <2>5, <2>6 DEF RestoreLevel, GoneLevel
<1>15. CASE RestoreFails(c)
  BY <1>15 DEF RestoreFails, RestoreLevel, GoneLevel
<1>. QED BY <1>1, <1>2, <1>3, <1>4, <1>5, <1>6, <1>7, <1>8, <1>9, <1>10, <1>11, <1>12,
   <1>13, <1>14, <1>15 DEF Build

\* What an undisturbed removal has worked through is gone.
LEMMA TakeDownAccomplished ==
    ASSUME TypeOK, NEW c \in Cli, Staged(cli[c]), Accomplished(cli[c]), TakeDown(c)
    PROVE  Accomplished(cli[c])'
<1>. USE GotoMoves, Names DEF Moved, Same, At, Staged, Accomplished, Adding, Whole, Loops,
       InNp, InMapped, InNacl, InLun, InLuns, InTpg, Explicit, dirs, links, attrs, saved
<1>1. CASE ListTpgs(c)
  BY <1>1 DEF ListTpgs, RestoreLevel, GoneLevel, Become, TypeOK, CliState
<1>2. CASE RelistTpgs(c)
  BY <1>2 DEF RelistTpgs, RestoreLevel, GoneLevel, Become, TypeOK, CliState
<1>3. CASE NextTpg(c)
  BY <1>3 DEF NextTpg, RestoreLevel, GoneLevel, Become, TypeOK, CliState
<1>4. CASE DisableTpg(c)
  BY <1>4 DEF DisableTpg, RestoreLevel, GoneLevel, Become, TypeOK, CliState
<1>5. CASE ListNps(c)
  BY <1>5 DEF ListNps, RestoreLevel, GoneLevel, Become, TypeOK, CliState
<1>6. CASE NextNp(c)
  BY <1>6 DEF NextNp, RestoreLevel, GoneLevel, Become, TypeOK, CliState
<1>7. CASE ListNacls(c)
  BY <1>7 DEF ListNacls, RestoreLevel, GoneLevel, Become, TypeOK, CliState
<1>8. CASE ListMapped(c)
  BY <1>8 DEF ListMapped, RestoreLevel, GoneLevel, Become, TypeOK, CliState
<1>9. CASE ListMappedLinks(c)
  BY <1>9 DEF ListMappedLinks, RestoreLevel, GoneLevel, Become, TypeOK, CliState
<1>10. CASE UnlinkMapped(c)
  BY <1>10 DEF UnlinkMapped, RestoreLevel, GoneLevel
<1>11. CASE RmdirMapped(c)
  BY <1>11 DEF RmdirMapped, RestoreLevel, GoneLevel
<1>12. CASE RmdirNacl(c)
  BY <1>12 DEF RmdirNacl, RestoreLevel, GoneLevel
<1>13. CASE ListLuns(c)
  BY <1>13 DEF ListLuns, RestoreLevel, GoneLevel, Become, TypeOK, CliState
<1>14. CASE ListPortLinks(c)
  BY <1>14 DEF ListPortLinks, RestoreLevel, GoneLevel, Become, TypeOK, CliState
<1>15. CASE UnlinkPort(c)
  BY <1>15 DEF UnlinkPort, RestoreLevel, GoneLevel
<1>16. CASE RmdirLun(c)
  BY <1>16 DEF RmdirLun, RestoreLevel, GoneLevel
<1>17. CASE RmMdFile(c)
  BY <1>17 DEF RmMdFile, RestoreLevel, GoneLevel
<1>18. CASE RmdirTpg(c)
  BY <1>18 DEF RmdirTpg, RestoreLevel, GoneLevel
<1>19. CASE RmMdDir(c)
  BY <1>19 DEF RmMdDir, RestoreLevel, GoneLevel
<1>20. CASE RmdirIqn(c)
  BY <1>20 DEF RmdirIqn, RestoreLevel, GoneLevel
<1>21. CASE UnloadModule(c)
  BY <1>21 DEF UnloadModule, RestoreLevel, GoneLevel
<1>22. CASE DisableIser(c)
  BY <1>22 DEF DisableIser, RestoreLevel, GoneLevel
<1>23. CASE DisableIserFails(c)
  BY <1>23 DEF DisableIserFails, RestoreLevel, GoneLevel, Become, TypeOK, CliState
<1>24. CASE RmdirNp(c)
  BY <1>24 DEF RmdirNp, RestoreLevel, GoneLevel
<1>. QED BY <1>1, <1>2, <1>3, <1>4, <1>5, <1>6, <1>7, <1>8, <1>9, <1>10, <1>11, <1>12,
   <1>13, <1>14, <1>15, <1>16, <1>17, <1>18, <1>19, <1>20, <1>21, <1>22, <1>23, <1>24
   DEF TakeDown

\* The tree of an invocation that nobody disturbs.
Solo == SolitudeOK /\ AloneOK

\* Every step keeps it: a disturbed invocation is not alone any more.
LEMMA StepSolo ==
    ASSUME TypeOK, TreeOK, StagesOK, Solo, [Next]_vars
    PROVE  Solo'
<1>. USE DEF Solo
<1>1. ASSUME NEW c \in Cli, Start(c) PROVE Solo'
  <2>1. \A x \in Cli \ {c} : cli'[x] = [cli[x] EXCEPT !.alone = FALSE]
    BY <1>1 DEF Start, Begin, StartAddTpg, StartAddNp,
       StartAddNodeacl, StartAddPort, StartAddLunacl, StartProcessSecondaryMd, StartDelLunacl,
       StartDelNodeacl, StartDelNp, StartDelPort, StartDelTpg, StartDelIqn, StartUnload
  <2>2. ASSUME NEW x \in Cli \ {c} PROVE ~cli'[x].alone /\ cli'[x].pc = cli[x].pc
    BY <2>1, SolitudeOff DEF TypeOK
  <2>3. cli'[c].alone => \A y \in Cli \ {c} : At(y, "idle")
    BY <1>1, StartFresh
  <2>4. SolitudeOK'
    BY <2>2, <2>3 DEF SolitudeOK, At
  <2>5. Undisturbed(cli[c])' /\ Accomplished(cli[c])'
    BY <1>1, StartUndisturbed, StartAccomplished
  <2>. QED BY <2>2, <2>4, <2>5 DEF AloneOK
<1>2. ASSUME NEW c \in Cli, Own(c),
             cli'[c].alone => Undisturbed(cli[c])' /\ Accomplished(cli[c])'
      PROVE  Solo'
  <2>1. \A x \in Cli \ {c} : ~cli'[x].alone
    BY <1>2 DEF Own, SolitudeOK, At
  <2>2. cli'[c].alone => \A x \in Cli \ {c} : At(x, "idle")'
    BY <1>2 DEF Own, SolitudeOK, At
  <2>. QED BY <1>2, <2>1, <2>2 DEF SolitudeOK, AloneOK
<1>3. ASSUME NEW c \in Cli, Build(c) PROVE Solo'
  <2>1. Own(c)
    BY <1>3, BuildOwn
  <2>2. cli'[c].alone => Undisturbed(cli[c])' /\ Accomplished(cli[c])'
    BY <1>3, <2>1, BuildUndisturbed, BuildAccomplished DEF Own, AloneOK, StagesOK
  <2>. QED BY <1>2, <2>1, <2>2
<1>4. ASSUME NEW c \in Cli, TakeDown(c) PROVE Solo'
  <2>1. Own(c)
    BY <1>4, TakeDownOwn
  <2>2. cli'[c].alone => Undisturbed(cli[c])' /\ Accomplished(cli[c])'
    BY <1>4, <2>1, TakeDownUndisturbed, TakeDownAccomplished DEF Own, AloneOK, StagesOK
  <2>. QED BY <1>2, <2>1, <2>2
<1>5. ASSUME NEW c \in Cli, Exit(c) \/ Killed(c) PROVE Solo'
  <2>1. Own(c) /\ ~cli'[c].alone
    BY <1>5, EndOwn
  <2>. QED BY <1>2, <2>1
<1>6. ASSUME Interfere PROVE Solo'
  <2>1. \A x \in Cli : ~cli'[x].alone
    BY <1>6, SolitudeOff DEF Interfere, TypeOK
  <2>. QED BY <2>1 DEF SolitudeOK, AloneOK
<1>7. ASSUME UNCHANGED <<dirs, links, attrs, saved, cli>> PROVE Solo'
  <2>1. SolitudeOK'
    BY <1>7 DEF SolitudeOK, At
  <2>2. ASSUME NEW s, Undisturbed(s), Accomplished(s) PROVE
           /\ NotRefused(s)'
           /\ IqnLevel(s)' /\ TpgLevel(s)' /\ LunLevel(s)' /\ NaclLevel(s)' /\ MappedLevel(s)'
           /\ NpLevel(s)' /\ AddLevel(s)' /\ ForgetLevel(s)'
           /\ RestoreLevel(s)' /\ GoneLevel(s)'
    <3>. USE <1>7, <2>2 DEF Undisturbed, Accomplished, NotRefused, dirs, links, attrs, saved
    <3>1. IqnLevel(s)'
      BY DEF IqnLevel
    <3>2. TpgLevel(s)'
      BY DEF TpgLevel
    <3>3. LunLevel(s)'
      BY DEF LunLevel
    <3>4. NaclLevel(s)'
      BY DEF NaclLevel
    <3>5. MappedLevel(s)'
      BY DEF MappedLevel
    <3>6. NpLevel(s)'
      BY DEF NpLevel
    <3>7. AddLevel(s)'
      BY DEF AddLevel, RemovableLun, MappedTo
    <3>8. ForgetLevel(s)'
      BY DEF ForgetLevel
    <3>9. RestoreLevel(s)'
      BY DEF RestoreLevel
    <3>10. GoneLevel(s)'
      BY DEF GoneLevel
    <3>. QED BY <3>1, <3>2, <3>3, <3>4, <3>5, <3>6, <3>7, <3>8, <3>9, <3>10
  <2>3. AloneOK'
    BY <1>7, <2>2 DEF AloneOK, Undisturbed, Accomplished
  <2>. QED BY <2>1, <2>3
<1>8. ASSUME Around PROVE Solo'
  BY <1>6, <1>7, <1>8 DEF Around, EnableTpg, SetIser, SetOffline, AddDev, FreeDev
<1>9. CASE UNCHANGED vars
  BY <1>7, <1>9 DEF vars
<1>. QED BY <1>1, <1>3, <1>4, <1>5, <1>8, <1>9 DEF Next, Run

\* At every stage of an invocation that nothing disturbs the tree is what the invocation
\* takes it to be, whatever other invocations left behind before.
THEOREM SoloKept == Spec => []Solo
<1>1. Init => Solo
  BY DEF Init, Idle, Solo, SolitudeOK, AloneOK
<1>. QED BY <1>1, TypeCorrect, TreeStaysWhole, StagesKept, StepSolo, PTL DEF Spec

\* A removal that runs alone gets through, past whatever others left behind and past a TPG
\* that cannot be disabled: only a portal whose iSER cannot be turned off ends it.
THEOREM TeardownSucceeds == Spec => []TeardownAloneSucceeds
<1>1. Solo => TeardownAloneSucceeds
  BY DEF Solo, AloneOK, Undisturbed, NotRefused, TeardownAloneSucceeds, At
<1>. QED BY <1>1, SoloKept, PTL

\* What a removal that runs alone reports as done is done, over all its loops.
THEOREM RemovalsComplete == Spec => []RemovedIsGone
<1>1. Solo => RemovedIsGone
  BY DEF Solo, AloneOK, Accomplished, GoneLevel, RemovedIsGone, At, NpOf, PortOf, NaclOf, MappedOf
<1>. QED BY <1>1, SoloKept, PTL

\* An --aluasecmd that runs alone and succeeds leaves a port as it was saved.
THEOREM RestoresBothAttributes == Spec => []RestoredAsSaved
<1>1. Solo => RestoredAsSaved
  BY DEF Solo, AloneOK, Accomplished, RestoreLevel, RestoredAsSaved, At, PortOf
<1>. QED BY <1>1, SoloKept, PTL

\* A failed --addlun that runs alone takes its directory back.
THEOREM FailedAddPortRollsBack == Spec => []FailedAddPortLeavesNoLun
<1>1. Solo => FailedAddPortLeavesNoLun
  BY DEF Solo, AloneOK, Undisturbed, AddLevel, FailedAddPortLeavesNoLun, At, PortOf
<1>. QED BY <1>1, SoloKept, PTL

\* After an undisturbed --dellun or --deltpg nothing is saved of what was removed.
THEOREM DeletionForgets == Spec => []DeletedIsForgotten
<1>1. Solo => DeletedIsForgotten
  BY DEF Solo, AloneOK, Undisturbed, ForgetLevel, DeletedIsForgotten, At, PortOf
<1>. QED BY <1>1, SoloKept, PTL

\* The steps that take a part of a TPG away take it from the TPG the invocation works on, and
\* come after --disabletpg's echo.
LEMMA StepDismantles ==
    ASSUME TypeOK, StagesOK, Solo, [Next]_vars,
           NEW c \in Cli, cli[c].alone, cli[c].cmd \in Whole, cli'[c] # cli[c],
           NEW t \in enabled, Loses(t)
    PROVE  t = cli[c].t /\ "enable" \in cli[c].refused
<1>a. Staged(cli[c]) /\ Undisturbed(cli[c])
  BY DEF StagesOK, Solo, AloneOK
<1>b. ~(nps \subseteq nps' /\ nacls \subseteq nacls' /\ luns \subseteq luns')
  BY DEF Loses
<1>1. ASSUME NEW x \in Cli, Run(x) \/ Killed(x) PROVE x = c
  <2>1. ~At(x, "idle")
    BY <1>1, BuildOwn, TakeDownOwn, EndOwn DEF Run, Own, At
  <2>. QED BY <2>1 DEF Solo, SolitudeOK
<1>2. ASSUME NEW x \in Cli, Start(x) \/ Exit(x) \/ Killed(x) PROVE FALSE
  BY <1>b, <1>2 DEF Start, Begin, Exit, Killed, StartAddTpg, StartAddNp,
     StartAddNodeacl, StartAddPort, StartAddLunacl, StartProcessSecondaryMd, StartDelLunacl,
     StartDelNodeacl, StartDelNp, StartDelPort, StartDelTpg, StartDelIqn, StartUnload, dirs
<1>3. ASSUME Build(c) PROVE FALSE
  BY <1>a, <1>b, <1>3 DEF Build, RollbackPort, Staged, Whole, At,
     MkdirTpg, MkdirNp, MkdirNacl, MkdirLun, MkdirMapped,
     LinkPort, LinkPortFails, LinkMapped, LinkMappedFails, CheckSecondaryMd,
     SetSecondaryWriteMd, RestoreOffline, RestoreStatus, RestoreFails, dirs
<1>4. CASE TakeDown(c)
  <2>1. CASE RmdirNp(c)
    <3>1. t = cli[c].t
      BY <2>1 DEF RmdirNp, NpOf, Loses
    <3>. QED BY <1>a, <2>1, <3>1 DEF RmdirNp, Undisturbed, TpgLevel, At, InTpg, InNp
  <2>2. CASE RmdirNacl(c)
    <3>1. t = cli[c].t
      BY <2>2 DEF RmdirNacl, NaclOf, Loses
    <3>. QED BY <1>a, <2>2, <3>1 DEF RmdirNacl, Undisturbed, TpgLevel, At, InTpg, InNacl
  <2>3. CASE RmdirLun(c)
    <3>1. t = cli[c].t
      BY <2>3 DEF RmdirLun, PortOf, Loses
    <3>. QED BY <1>a, <2>3, <3>1 DEF RmdirLun, Undisturbed, TpgLevel, At, InTpg, InLuns, InLun
  <2>. QED BY <1>b, <1>4, <2>1, <2>2, <2>3 DEF TakeDown, ListTpgs, RelistTpgs, NextTpg,
       DisableTpg, ListNps, NextNp, DisableIser, DisableIserFails, ListNacls, ListMapped,
       ListMappedLinks, UnlinkMapped, RmdirMapped, ListLuns, ListPortLinks, UnlinkPort,
       RmMdFile, RmdirTpg, RmMdDir, RmdirIqn, UnloadModule, dirs
<1>5. ASSUME Around PROVE FALSE
  BY <1>b, <1>5 DEF Around, EnableTpg, SetIser, SetOffline, AddDev, FreeDev, dirs
<1>6. ASSUME UNCHANGED vars PROVE FALSE
  BY <1>b, <1>6 DEF vars, dirs
<1>. QED BY <1>1, <1>2, <1>3, <1>4, <1>5, <1>6 DEF Next, Run

\* An undisturbed removal takes no part of any TPG that is enabled, but of the one it works on
\* and that the kernel has refused to disable.
THEOREM DismantledAfterDisable == Spec => DismantledOnlyDisabled
<1>1. TypeOK /\ StagesOK /\ Solo /\ [Next]_vars =>
        [\A c \in Cli :
           cli[c].alone /\ cli[c].cmd \in {"deltpg", "deliqn", "unload"} /\ cli'[c] # cli[c]
           => \A t \in enabled : Loses(t) => t = cli[c].t /\ "enable" \in cli[c].refused]_vars
  BY StepDismantles DEF Whole
<1>. QED BY <1>1, TypeCorrect, StagesKept, SoloKept, PTL DEF Spec, DismantledOnlyDisabled

-----------------------------------------------------------------------------
(* LUNs under construction *)

\* No mapped LUNs are made and no process is killed, so that a LUN without link always goes.
HalfBuiltInv ==
    /\ \A c \in Cli : cli[c].cmd # "addlunacl"
    /\ mapped = {}
    /\ NoLunLeftHalfBuilt

\* An invocation that works on a LUN keeps it until the LUN is whole or gone.
LEMMA StepHalfBuilt ==
    ASSUME "kill" \notin Used, "addlunacl" \notin Used,
           TypeOK, StagesOK, HalfBuiltInv, [Next]_vars
    PROVE  HalfBuiltInv'
<1>. USE DEF HalfBuiltInv, NoLunLeftHalfBuilt, HalfBuilt, At, PortOf, dirs, links
<1>a. UNCHANGED <<luns, dev, mapped>> /\ UNCHANGED cli => HalfBuiltInv'
  OBVIOUS
<1>1. ASSUME NEW c \in Cli, Start(c) PROVE HalfBuiltInv'
  <2>1. cli'[c].cmd \in Used
    BY <1>1, BeginUsed
  <2>2. ASSUME NEW x \in Cli \ {c} PROVE cli'[x] = [cli[x] EXCEPT !.alone = FALSE]
    BY <1>1, <2>2 DEF Start, Begin, StartAddTpg, StartAddNp, StartAddNodeacl, StartAddPort,
       StartAddLunacl, StartProcessSecondaryMd, StartDelLunacl, StartDelNodeacl, StartDelNp,
       StartDelPort, StartDelTpg, StartDelIqn, StartUnload
  <2>3. ASSUME NEW x \in Cli \ {c}
        PROVE  cli'[x].pc = cli[x].pc /\ cli'[x].t = cli[x].t /\ cli'[x].l = cli[x].l
               /\ cli'[x].cmd = cli[x].cmd
    <3>1. cli[x] \in CliState
      BY DEF TypeOK
    <3>. QED BY <2>2, <3>1 DEF CliState
  <2>4. cli[c].pc = "idle" /\ UNCHANGED <<luns, dev, mapped>>
    BY <1>1 DEF Start, Begin, StartAddTpg, StartAddNp, StartAddNodeacl, StartAddPort,
       StartAddLunacl, StartProcessSecondaryMd, StartDelLunacl, StartDelNodeacl, StartDelNp,
       StartDelPort, StartDelTpg, StartDelIqn, StartUnload
  <2>. QED BY <2>1, <2>3, <2>4
<1>2. ASSUME NEW c \in Cli, Own(c), cli'[c].cmd = cli[c].cmd, mapped' \subseteq mapped,
             \A p \in luns' : dev'[p] = None /\ ~(p \in luns /\ dev[p] = None) =>
                /\ <<cli'[c].t, cli'[c].l>> = p
                /\ cli'[c].pc \in {"link", "rollback", "lunRmdir"},
             cli[c].pc \in {"link", "rollback", "lunRmdir"} =>
                \/ /\ cli'[c].t = cli[c].t /\ cli'[c].l = cli[c].l
                   /\ cli'[c].pc \in {"link", "rollback", "lunRmdir"}
                \/ <<cli[c].t, cli[c].l>> \notin luns' \/ dev'[<<cli[c].t, cli[c].l>>] # None
      PROVE  HalfBuiltInv'
  <2>1. \A x \in Cli : cli'[x].cmd # "addlunacl"
    BY <1>2 DEF Own
  <2>2. ASSUME NEW p \in luns', dev'[p] = None
        PROVE  \E x \in Cli : /\ <<cli'[x].t, cli'[x].l>> = p
                              /\ cli'[x].pc \in {"link", "rollback", "lunRmdir"}
    <3>1. CASE ~(p \in luns /\ dev[p] = None)
      BY <1>2, <2>2, <3>1
    <3>2. CASE p \in luns /\ dev[p] = None
      <4>1. PICK x \in Cli : /\ <<cli[x].t, cli[x].l>> = p
                             /\ cli[x].pc \in {"link", "rollback", "lunRmdir"}
        BY <3>2
      <4>. QED BY <1>2, <2>2, <4>1 DEF Own
    <3>. QED BY <3>1, <3>2
  <2>. QED BY <1>2, <2>1, <2>2
<1>3. ASSUME NEW c \in Cli, Build(c) PROVE HalfBuiltInv'
  <2>. USE <1>2, <1>3, BuildOwn, GotoMoves, Names DEF Moved, Same
  <2>a. cli[c].cmd # "addlunacl"
    OBVIOUS
  <2>1. CASE MkdirTpg(c)
    BY <2>1 DEF MkdirTpg
  <2>2. CASE MkdirNp(c)
    BY <2>2 DEF MkdirNp
  <2>3. CASE MkdirNacl(c)
    BY <2>3 DEF MkdirNacl
  <2>4. CASE MkdirLun(c)
    <3>1. /\ luns' = luns \cup {PortOf(c)} /\ dev' = dev /\ mapped' = mapped
          /\ cli[c].pc = "mkdir" /\ Own(c) /\ Same(cli[c], cli'[c]) /\ cli'[c].pc = "link"
      BY <2>4 DEF MkdirLun
    <3>. QED BY <1>2, <3>1
  <2>5. CASE MkdirMapped(c)
    BY <2>5, <2>a DEF MkdirMapped
  <2>6. CASE LinkPort(c)
    <3>1. dev'[PortOf(c)] # None /\ \A p \in Port : dev'[p] = None => dev[p] = None
      BY <2>6, NoneIsNoValue DEF LinkPort, CanLinkPort, TypeOK
    <3>2. luns \subseteq Port
      BY DEF TypeOK
    <3>. QED BY <2>6, <3>1, <3>2 DEF LinkPort
  <2>7. CASE LinkPortFails(c)
    <3>1. /\ luns' = luns /\ dev' = dev /\ mapped' = mapped /\ cli[c].pc = "link"
          /\ Own(c) /\ Same(cli[c], cli'[c]) /\ cli'[c].pc = "rollback"
      BY <2>7 DEF LinkPortFails
    <3>. QED BY <1>2, <3>1
  <2>8. CASE RollbackPort(c)
    <3>1. PortOf(c) \notin luns' \/ dev'[PortOf(c)] # None
      BY <2>8 DEF RollbackPort, RemovableLun, MappedTo
    <3>. QED BY <2>8, <3>1 DEF RollbackPort
  <2>9. CASE LinkMapped(c) \/ LinkMappedFails(c)
    BY <2>9, <2>a DEF LinkMapped, LinkMappedFails
  <2>10. CASE CheckSecondaryMd(c)
    BY <2>10 DEF CheckSecondaryMd
  <2>11. CASE SetSecondaryWriteMd(c)
    BY <2>11 DEF SetSecondaryWriteMd
  <2>12. CASE RestoreOffline(c)
    BY <2>12 DEF RestoreOffline
  <2>13. CASE RestoreStatus(c)
    BY <2>13 DEF RestoreStatus
  <2>14. CASE RestoreFails(c)
    BY <2>14 DEF RestoreFails
  <2>. QED BY <1>3, <2>1, <2>2, <2>3, <2>4, <2>5, <2>6, <2>7, <2>8, <2>9, <2>10, <2>11, <2>12,
       <2>13, <2>14 DEF Build
<1>4. ASSUME NEW c \in Cli, TakeDown(c) PROVE HalfBuiltInv'
  <2>. USE <1>2, <1>4, TakeDownOwn, GotoMoves, Names DEF Moved, Same
  <2>1. CASE ListTpgs(c)
    BY <2>1 DEF ListTpgs, Become, TypeOK, CliState
  <2>2. CASE RelistTpgs(c)
    BY <2>2 DEF RelistTpgs, Become, TypeOK, CliState
  <2>3. CASE NextTpg(c)
    BY <2>3 DEF NextTpg, Become, TypeOK, CliState
  <2>4. CASE DisableTpg(c)
    BY <2>4 DEF DisableTpg, Become, TypeOK, CliState
  <2>5. CASE ListNps(c)
    BY <2>5 DEF ListNps, Become, TypeOK, CliState
  <2>6. CASE NextNp(c)
    BY <2>6 DEF NextNp, Become, TypeOK, CliState
  <2>7. CASE ListNacls(c)
    BY <2>7 DEF ListNacls, Become, TypeOK, CliState
  <2>8. CASE ListMapped(c)
    BY <2>8 DEF ListMapped, Become, TypeOK, CliState
  <2>9. CASE ListMappedLinks(c)
    BY <2>9 DEF ListMappedLinks, Become, TypeOK, CliState
  <2>10. CASE UnlinkMapped(c)
    BY <2>10 DEF UnlinkMapped
  <2>11. CASE RmdirMapped(c)
    BY <2>11 DEF RmdirMapped
  <2>12. CASE RmdirNacl(c)
    BY <2>12 DEF RmdirNacl
  <2>13. CASE ListLuns(c)
    BY <2>13 DEF ListLuns, Become, TypeOK, CliState
  <2>14. CASE ListPortLinks(c)
    BY <2>14 DEF ListPortLinks, Become, TypeOK, CliState
  <2>17. CASE RmMdFile(c)
    BY <2>17 DEF RmMdFile
  <2>18. CASE RmdirTpg(c)
    BY <2>18 DEF RmdirTpg
  <2>19. CASE RmMdDir(c)
    BY <2>19 DEF RmMdDir
  <2>20. CASE RmdirIqn(c)
    BY <2>20 DEF RmdirIqn
  <2>21. CASE UnloadModule(c)
    BY <2>21 DEF UnloadModule
  <2>22. CASE DisableIser(c)
    BY <2>22 DEF DisableIser
  <2>23. CASE DisableIserFails(c)
    BY <2>23 DEF DisableIserFails, Become, TypeOK, CliState
  <2>24. CASE RmdirNp(c)
    BY <2>24 DEF RmdirNp
  <2>15. CASE UnlinkPort(c)
    <3>1. \A p \in Port : p # PortOf(c) => dev'[p] = dev[p]
      BY <2>15 DEF UnlinkPort, TypeOK
    <3>2. luns \subseteq Port
      BY DEF TypeOK
    <3>3. cli'[c].pc = "lunRmdir" \/ dev[PortOf(c)] = None
      BY <2>15 DEF UnlinkPort
    <3>. QED BY <2>15, <3>1, <3>2, <3>3 DEF UnlinkPort
  <2>16. CASE RmdirLun(c)
    <3>1. PortOf(c) \notin luns' \/ dev'[PortOf(c)] # None
      BY <2>16 DEF RmdirLun, RemovableLun, MappedTo
    <3>. QED BY <2>16, <3>1 DEF RmdirLun
  <2>. QED BY <1>4, <2>1, <2>2, <2>3, <2>4, <2>5, <2>6, <2>7, <2>8, <2>9, <2>10, <2>11,
       <2>12, <2>13, <2>14, <2>15, <2>16, <2>17, <2>18, <2>19, <2>20, <2>21, <2>22, <2>23,
       <2>24 DEF TakeDown
<1>5. ASSUME NEW c \in Cli, Exit(c) PROVE HalfBuiltInv'
  <2>1. Own(c) /\ cli'[c] = Idle
    BY <1>5, EndOwn
  <2>2. Idle.cmd = "none"
    BY DEF Idle
  <2>3. cli[c].pc \in {"ok", "err"} /\ UNCHANGED <<luns, dev, mapped>>
    BY <1>5 DEF Exit
  <2>4. \A x \in Cli : cli'[x].cmd # "addlunacl"
    BY <2>1, <2>2 DEF Own
  <2>5. \A x \in Cli : cli[x].pc \in {"link", "rollback", "lunRmdir"} => cli'[x] = cli[x]
    BY <2>1, <2>3 DEF Own
  <2>. QED BY <2>3, <2>4, <2>5
<1>6. ASSUME NEW c \in Cli, Killed(c) PROVE FALSE
  BY <1>6 DEF Killed
<1>7. ASSUME Around PROVE HalfBuiltInv'
  <2>1. ASSUME Interfere, UNCHANGED <<luns, dev, mapped>> PROVE HalfBuiltInv'
    <3>1. ASSUME NEW x \in Cli
          PROVE  /\ cli'[x].pc = cli[x].pc /\ cli'[x].t = cli[x].t /\ cli'[x].l = cli[x].l
                 /\ cli'[x].cmd = cli[x].cmd
      BY <2>1, SolitudeOff DEF Interfere, TypeOK, Same
    <3>. QED BY <2>1, <3>1
  <2>. QED BY <1>a, <1>7, <2>1 DEF Around, EnableTpg, SetIser, SetOffline, AddDev, FreeDev
<1>8. CASE UNCHANGED vars
  BY <1>a, <1>8 DEF vars
<1>. QED BY <1>1, <1>3, <1>4, <1>5, <1>6, <1>7, <1>8 DEF Next, Run

\* However many invocations race for the LUNs, with their checks and listings out of date, no
\* LUN is left without storage object as long as no process is killed and no mapped LUN stops
\* a rmdir.
THEOREM NoHalfBuiltLuns ==
    ASSUME "kill" \notin Used, "addlunacl" \notin Used
    PROVE  Spec => []NoLunLeftHalfBuilt
<1>1. Init => HalfBuiltInv
  BY DEF Init, HalfBuiltInv, NoLunLeftHalfBuilt, HalfBuilt, Idle
<1>2. TypeOK /\ StagesOK /\ HalfBuiltInv /\ [Next]_vars => HalfBuiltInv'
  BY StepHalfBuilt
<1>3. HalfBuiltInv => NoLunLeftHalfBuilt
  BY DEF HalfBuiltInv
<1>. QED BY <1>1, <1>2, <1>3, TypeCorrect, StagesKept, PTL DEF Spec

-----------------------------------------------------------------------------
(* One invocation at a time *)

OneInvocation == \A a, b \in Cli : a = b

\* The directory is there before the kernel is told to write, or given a bit to restore, and
\* what is forgotten has gone before.
MdGuarded ==
    \A c \in Cli :
      /\ cli[c].pc \in {"writeMd", "restore", "status"} => cli[c].t \in mdDir
      /\ At(c, "lunRmMd") => PortOf(c) \notin luns
      /\ At(c, "tpgRmMd") => cli[c].t \notin tpgs

MdInv == MdGuarded /\ WritersHaveDir

\* Every step of the one invocation keeps this.
LEMMA StepMd ==
    ASSUME OneInvocation, TypeOK, TreeOK, StagesOK, MdInv, [Next]_vars
    PROVE  MdInv'
<1>. USE DEF MdInv, MdGuarded, WritersHaveDir, At
<1>1. ASSUME NEW c \in Cli, Start(c) PROVE MdInv'
  <2>1. UNCHANGED <<dirs, attrs, saved>>
    BY <1>1 DEF Start, Begin, StartAddTpg, StartAddNp,
       StartAddNodeacl, StartAddPort, StartAddLunacl, StartProcessSecondaryMd, StartDelLunacl,
       StartDelNodeacl, StartDelNp, StartDelPort, StartDelTpg, StartDelIqn, StartUnload
  <2>2. Fresh(cli'[c])
    BY <1>1, StartFresh
  <2>3. cli'[c].t \in Tpg /\ cli'[c].l \in Lun
    BY <1>1, StartType DEF TypeOK, CliState
  <2>4. cli'[c].pc = "restore" => mdFile[<<cli'[c].t, cli'[c].l>>] # None
    BY <2>2 DEF Fresh, Adding, Loops
  <2>5. cli'[c].pc = "restore" => cli'[c].t \in mdDir
    BY <2>3, <2>4 DEF TreeOK, FilesOK, Port
  <2>6. cli'[c].pc \notin {"writeMd", "status", "lunRmMd", "tpgRmMd"}
    BY <2>2 DEF Fresh
  <2>7. \A x \in Cli : x = c
    BY DEF OneInvocation
  <2>. QED BY <2>1, <2>5, <2>6, <2>7 DEF attrs, saved
<1>2. ASSUME NEW c \in Cli, Own(c),
             /\ cli'[c].pc \in {"writeMd", "restore", "status"} => cli'[c].t \in mdDir'
             /\ cli'[c].pc = "lunRmMd" => <<cli'[c].t, cli'[c].l>> \notin luns'
             /\ cli'[c].pc = "tpgRmMd" => cli'[c].t \notin tpgs',
             WritersHaveDir'
      PROVE  MdInv'
  <2>1. \A x \in Cli : x = c
    BY DEF OneInvocation
  <2>. QED BY <1>2, <2>1 DEF PortOf
<1>3. ASSUME NEW c \in Cli, Build(c) PROVE MdInv'
  <2>. USE GotoMoves, Names DEF Moved, Same, dirs, links, attrs, saved
  <2>1. CASE MkdirTpg(c)
    BY <1>2, <1>3, <2>1, BuildOwn DEF MkdirTpg
  <2>2. CASE MkdirNp(c)
    BY <1>2, <1>3, <2>2, BuildOwn DEF MkdirNp
  <2>3. CASE MkdirNacl(c)
    BY <1>2, <1>3, <2>3, BuildOwn DEF MkdirNacl
  <2>4. CASE MkdirLun(c)
    BY <1>2, <1>3, <2>4, BuildOwn DEF MkdirLun
  <2>5. CASE MkdirMapped(c)
    BY <1>2, <1>3, <2>5, BuildOwn DEF MkdirMapped
  <2>6. CASE LinkPort(c)
    BY <1>2, <1>3, <2>6, BuildOwn DEF LinkPort
  <2>7. CASE LinkPortFails(c)
    BY <1>2, <1>3, <2>7, BuildOwn DEF LinkPortFails
  <2>8. CASE RollbackPort(c)
    BY <1>2, <1>3, <2>8, BuildOwn DEF RollbackPort
  <2>9. CASE LinkMapped(c)
    BY <1>2, <1>3, <2>9, BuildOwn DEF LinkMapped
  <2>10. CASE LinkMappedFails(c)
    BY <1>2, <1>3, <2>10, BuildOwn DEF LinkMappedFails
  <2>11. CASE CheckSecondaryMd(c)
    BY <1>2, <1>3, <2>11, BuildOwn DEF CheckSecondaryMd
  <2>12. CASE SetSecondaryWriteMd(c)
    BY <1>2, <1>3, <2>12, BuildOwn DEF SetSecondaryWriteMd
  <2>13. CASE RestoreOffline(c)
    BY <1>2, <1>3, <2>13, BuildOwn DEF RestoreOffline
  <2>14. CASE RestoreStatus(c)
    BY <1>2, <1>3, <2>14, BuildOwn DEF RestoreStatus
  <2>15. CASE RestoreFails(c)
    BY <1>2, <1>3, <2>15, BuildOwn DEF RestoreFails
  <2>. QED BY <1>3, <2>1, <2>2, <2>3, <2>4, <2>5, <2>6, <2>7, <2>8, <2>9, <2>10, <2>11,
       <2>12, <2>13, <2>14, <2>15 DEF Build
<1>4. ASSUME NEW c \in Cli, TakeDown(c) PROVE MdInv'
  <2>. USE GotoMoves, Names DEF Moved, Same, dirs, links, attrs, saved
  <2>1. CASE ListTpgs(c)
    BY <1>2, <1>4, <2>1, TakeDownOwn DEF ListTpgs, Become, TypeOK, CliState
  <2>2. CASE RelistTpgs(c)
    BY <1>2, <1>4, <2>2, TakeDownOwn DEF RelistTpgs, Become, TypeOK, CliState
  <2>3. CASE NextTpg(c)
    BY <1>2, <1>4, <2>3, TakeDownOwn DEF NextTpg, Become, TypeOK, CliState
  <2>4. CASE DisableTpg(c)
    BY <1>2, <1>4, <2>4, TakeDownOwn DEF DisableTpg, Become, TypeOK, CliState
  <2>5. CASE ListNps(c)
    BY <1>2, <1>4, <2>5, TakeDownOwn DEF ListNps, Become, TypeOK, CliState
  <2>6. CASE NextNp(c)
    BY <1>2, <1>4, <2>6, TakeDownOwn DEF NextNp, Become, TypeOK, CliState
  <2>7. CASE ListNacls(c)
    BY <1>2, <1>4, <2>7, TakeDownOwn DEF ListNacls, Become, TypeOK, CliState
  <2>8. CASE ListMapped(c)
    BY <1>2, <1>4, <2>8, TakeDownOwn DEF ListMapped, Become, TypeOK, CliState
  <2>9. CASE ListMappedLinks(c)
    BY <1>2, <1>4, <2>9, TakeDownOwn DEF ListMappedLinks, Become, TypeOK, CliState
  <2>10. CASE UnlinkMapped(c)
    BY <1>2, <1>4, <2>10, TakeDownOwn DEF UnlinkMapped
  <2>11. CASE RmdirMapped(c)
    BY <1>2, <1>4, <2>11, TakeDownOwn DEF RmdirMapped
  <2>12. CASE RmdirNacl(c)
    BY <1>2, <1>4, <2>12, TakeDownOwn DEF RmdirNacl
  <2>13. CASE ListLuns(c)
    BY <1>2, <1>4, <2>13, TakeDownOwn DEF ListLuns, Become, TypeOK, CliState
  <2>14. CASE ListPortLinks(c)
    BY <1>2, <1>4, <2>14, TakeDownOwn DEF ListPortLinks, Become, TypeOK, CliState
  <2>15. CASE UnlinkPort(c)
    BY <1>2, <1>4, <2>15, TakeDownOwn DEF UnlinkPort
  <2>16. CASE RmdirLun(c)
    BY <1>2, <1>4, <2>16, TakeDownOwn DEF RmdirLun
  <2>17. CASE RmMdFile(c)
    BY <1>2, <1>4, <2>17, TakeDownOwn DEF RmMdFile
  <2>18. CASE RmdirTpg(c)
    BY <1>2, <1>4, <2>18, TakeDownOwn DEF RmdirTpg
  <2>19. CASE RmMdDir(c)
    <3>1. cli[c].t \notin tpgs
      BY <2>19 DEF RmMdDir
    <3>2. \A p \in writeMd : p[1] # cli[c].t
      <4>1. ASSUME NEW p \in writeMd PROVE p \in luns
        BY DEF TypeOK, TreeOK, BitsOK, LinksOK
      <4>. QED BY <3>1, <4>1 DEF TreeOK, ParentsOK
    <3>3. WritersHaveDir'
      BY <2>19, <3>2 DEF RmMdDir
    <3>. QED BY <1>2, <1>4, <2>19, <3>3, TakeDownOwn DEF RmMdDir
  <2>20. CASE RmdirIqn(c)
    BY <1>2, <1>4, <2>20, TakeDownOwn DEF RmdirIqn
  <2>21. CASE UnloadModule(c)
    BY <1>2, <1>4, <2>21, TakeDownOwn DEF UnloadModule
  <2>22. CASE DisableIser(c)
    BY <1>2, <1>4, <2>22, TakeDownOwn DEF DisableIser
  <2>23. CASE DisableIserFails(c)
    BY <1>2, <1>4, <2>23, TakeDownOwn DEF DisableIserFails, Become, TypeOK, CliState
  <2>24. CASE RmdirNp(c)
    BY <1>2, <1>4, <2>24, TakeDownOwn DEF RmdirNp
  <2>. QED BY <1>4, <2>1, <2>2, <2>3, <2>4, <2>5, <2>6, <2>7, <2>8, <2>9, <2>10, <2>11,
       <2>12, <2>13, <2>14, <2>15, <2>16, <2>17, <2>18, <2>19, <2>20, <2>21, <2>22, <2>23,
       <2>24 DEF TakeDown
<1>5. ASSUME NEW c \in Cli, Exit(c) \/ Killed(c) PROVE MdInv'
  <2>1. Own(c) /\ cli'[c] = Idle
    BY <1>5, EndOwn
  <2>2. Idle.pc = "idle"
    BY DEF Idle
  <2>. QED BY <1>2, <1>5, <2>1, <2>2 DEF Exit, Killed, attrs, saved
<1>6. ASSUME Around PROVE MdInv'
  <2>1. ASSUME Interfere, UNCHANGED <<dirs, writeMd, mdDir>> PROVE MdInv'
    <3>1. ASSUME NEW x \in Cli
          PROVE  cli'[x].pc = cli[x].pc /\ cli'[x].t = cli[x].t /\ cli'[x].l = cli[x].l
      BY <2>1, SolitudeOff DEF Interfere, TypeOK, Same
    <3>. QED BY <2>1, <3>1 DEF dirs, PortOf
  <2>2. ASSUME UNCHANGED <<dirs, attrs, saved, cli>> PROVE MdInv'
    BY <2>2 DEF dirs, attrs, saved, PortOf
  <2>. QED BY <1>6, <2>1, <2>2 DEF Around, EnableTpg, SetIser, SetOffline, AddDev, FreeDev, attrs, saved
<1>7. CASE UNCHANGED vars
  BY <1>7 DEF vars, dirs, attrs, saved, PortOf
<1>. QED BY <1>1, <1>3, <1>4, <1>5, <1>6, <1>7 DEF Next, Run

\* With one invocation at a time, wherever the kernel writes the metadata of a port its
\* directory is there.
THEOREM WritersKeepDir == ASSUME OneInvocation PROVE Spec => []WritersHaveDir
<1>1. Init => MdInv
  BY DEF Init, MdInv, MdGuarded, WritersHaveDir, At, Idle
<1>2. TypeOK /\ TreeOK /\ StagesOK /\ MdInv /\ [Next]_vars => MdInv'
  BY StepMd
<1>3. MdInv => WritersHaveDir
  BY DEF MdInv
<1>. QED BY <1>1, <1>2, <1>3, TypeCorrect, TreeStaysWhole, StagesKept, PTL DEF Spec

\* A step saves the attributes of a port that exists, forgets that of ports that do not, or
\* leaves all that is saved as it is.
LEMMA StepSaved ==
    ASSUME TypeOK, TreeOK, StagesOK, MdGuarded, [Next]_vars
    PROVE  [Saved!Next]_<<luns, mdFile>>
<1>1. ASSUME mdFile' = mdFile PROVE Saved!Next
  <2>1. luns' \in SUBSET Port
    BY StepType DEF TypeOK, StagesOK, Staged, MdRead
  <2>. QED BY <1>1, <2>1 DEF Saved!Next, Saved!Reconfigure
<1>2. ASSUME NEW p \in Port, mdFile' = mdFile \/ (p \in writeMd /\ Saves(p)), luns' = luns
      PROVE  Saved!Next
  <2>1. p \in writeMd => p \in luns
    BY DEF TreeOK, BitsOK, LinksOK
  <2>2. mdFile' = mdFile \/ Saved!Save(p)
    BY <1>2, <2>1 DEF Saves, Saved!Save
  <2>. QED BY <1>1, <2>2 DEF Saved!Next
<1>3. ASSUME NEW c \in Cli, Build(c) PROVE Saved!Next
  <2>1. CASE RestoreOffline(c)
    <3>1. cli[c].md.offline \in BOOLEAN
      BY <2>1, ReadType DEF RestoreOffline, At
    <3>2. mdFile' = mdFile \/ (PortOf(c) \in writeMd /\ Saves(PortOf(c)))
      BY <2>1, <3>1, OfflineSaves, Names DEF RestoreOffline
    <3>. QED BY <1>2, <2>1, <3>2, Names DEF RestoreOffline, dirs
  <2>2. CASE RestoreStatus(c)
    <3>1. cli[c].md.status \in Status
      BY <2>2, ReadType DEF RestoreStatus, At
    <3>2. mdFile' = mdFile \/ (PortOf(c) \in writeMd /\ Saves(PortOf(c)))
      BY <2>2, <3>1, StatusSaves, Names DEF RestoreStatus
    <3>. QED BY <1>2, <2>2, <3>2, Names DEF RestoreStatus, dirs
  <2>. QED BY <1>1, <1>3, <2>1, <2>2 DEF Build, MkdirTpg, MkdirNp, MkdirNacl, MkdirLun,
       MkdirMapped, LinkPort, LinkPortFails, RollbackPort, LinkMapped, LinkMappedFails,
       CheckSecondaryMd, SetSecondaryWriteMd, RestoreFails, saved
<1>4. ASSUME NEW c \in Cli, TakeDown(c) PROVE Saved!Next
  <2>1. CASE RmMdFile(c)
    <3>1. {PortOf(c)} \cap luns = {}
      BY <2>1 DEF RmMdFile, MdGuarded
    <3>2. mdFile' = [p \in Port |-> IF p \in {PortOf(c)} THEN None ELSE mdFile[p]]
      BY <2>1 DEF RmMdFile, TypeOK
    <3>3. Saved!Forget({PortOf(c)})
      BY <2>1, <3>1, <3>2 DEF RmMdFile, dirs, Saved!Forget
    <3>. QED BY <3>3, Names DEF Saved!Next
  <2>2. CASE RmMdDir(c)
    <3> DEFINE S == {p \in Port : p[1] = cli[c].t}
    <3>1. S \cap luns = {}
      BY <2>2 DEF RmMdDir, MdGuarded, TreeOK, ParentsOK
    <3>2. mdFile' = [p \in Port |-> IF p \in S THEN None ELSE mdFile[p]]
      BY <2>2 DEF RmMdDir
    <3>3. Saved!Forget(S)
      BY <2>2, <3>1, <3>2 DEF RmMdDir, dirs, Saved!Forget
    <3>. QED BY <3>3 DEF Saved!Next
  <2>. QED BY <1>1, <1>4, <2>1, <2>2 DEF TakeDown, ListTpgs, RelistTpgs, NextTpg, DisableTpg,
       ListNps, NextNp, DisableIser, DisableIserFails, RmdirNp, ListNacls, ListMapped,
       ListMappedLinks, UnlinkMapped, RmdirMapped, RmdirNacl, ListLuns, ListPortLinks,
       UnlinkPort, RmdirLun, RmdirTpg, RmdirIqn, UnloadModule, saved
<1>5. ASSUME NEW c \in Cli, Start(c) \/ Exit(c) \/ Killed(c) PROVE Saved!Next
  BY <1>1, <1>5 DEF Start, Begin, Exit, Killed, StartAddTpg, StartAddNp,
     StartAddNodeacl, StartAddPort, StartAddLunacl, StartProcessSecondaryMd, StartDelLunacl,
     StartDelNodeacl, StartDelNp, StartDelPort, StartDelTpg, StartDelIqn, StartUnload, saved
<1>6. ASSUME Around PROVE Saved!Next
  <2>1. ASSUME NEW p \in Port, NEW bit \in BOOLEAN, SetOffline(p, bit) PROVE Saved!Next
    BY <1>2, <2>1, OfflineSaves DEF SetOffline, dirs
  <2>. QED BY <1>1, <1>6, <2>1 DEF Around, EnableTpg, SetIser, AddDev, FreeDev, saved
<1>7. CASE UNCHANGED vars
  BY <1>1, <1>7 DEF vars, saved
<1>. QED BY <1>3, <1>4, <1>5, <1>6, <1>7 DEF Next, Run

\* With one invocation at a time the metadata of the ports keeps the promise of SavedState:
\* it is written by a port that exists and forgotten only while it does not.
THEOREM KeepsSavedState == ASSUME OneInvocation PROVE Spec => ImplementsSavedState
<1>1. Init => MdInv /\ Saved!Init
  BY DEF Init, MdInv, MdGuarded, WritersHaveDir, At, Idle, Saved!Init
<1>2. TypeOK /\ TreeOK /\ StagesOK /\ MdInv /\ [Next]_vars =>
        MdInv' /\ [Saved!Next]_<<luns, mdFile>>
  BY StepMd, StepSaved DEF MdInv
<1>. QED BY <1>1, <1>2, TypeCorrect, TreeStaysWhole, StagesKept, PTL
     DEF Spec, ImplementsSavedState, Saved!Spec

=============================================================================
