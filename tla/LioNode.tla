------------------------------ MODULE LioNode ------------------------------
(***************************************************************************)
(* lio-py/lio_node.py: the command line tool that builds and takes down    *)
(* iSCSI targets under /sys/kernel/config/target/iscsi.                    *)
(*                                                                         *)
(* Every invocation is a process of its own.  Nothing locks the tree, so   *)
(* the steps of the processes in Cli interleave; a step is one system      *)
(* call (or one shell command the tool runs: mkdir -p, ln -s, rmdir,       *)
(* rm -rf, echo) with the local decisions that follow it.  A teardown      *)
(* lists a directory once and then works on that snapshot (the ...Left     *)
(* fields), as the Python loops over os.listdir do.                        *)
(*                                                                         *)
(* A command that its own first check refuses (exit 1 before any system    *)
(* call that changes something) is a stuttering step and has no action.    *)
(* What configfs accepts or refuses is the kernel's: it is modelled from   *)
(* what the tool relies on (Removable..., the guards of Link...).  Where   *)
(* no state explains a refusal the tool deals with, it may come at any     *)
(* time (DisableTpg, DisableIser, RestoreFails).                           *)
(***************************************************************************)
EXTENDS Naturals, FiniteSets

CONSTANTS
    Cli,        \* concurrent invocations of lio_node
    IQN,        \* target names
    TPGT,       \* target portal group tags
    Portal,     \* network portals (IP:PORT)
    Initiator,  \* initiator names
    Lun,        \* LUN numbers of a portal group
    MappedLun,  \* LUN numbers seen by an initiator
    Dev,        \* storage objects of target_core_mod (HBA/DEV)
    Status,     \* what a port may say of how its offline bit came about
    NoStatus,   \* the status of a new port
    Used,       \* the commands that are run and the events that happen around them
    None        \* no link, no file

Tpg    == IQN \X TPGT
Port   == Tpg \X Lun
Nacl   == Tpg \X Initiator
Mapped == Tpg \X Initiator \X MappedLun
Np     == Tpg \X Portal

\* The secondary ALUA state of a port: alua_tg_pt_offline and alua_tg_pt_status.
Secondary == [offline : BOOLEAN, status : Status]
Online    == [offline |-> FALSE, status |-> NoStatus]

Commands == {"addtpg", "addnp", "addnodeacl", "addlun", "addlunacl", "aluasecmd",
             "dellunacl", "delnodeacl", "delnp", "dellun", "deltpg", "deliqn", "unload"}
Events == {"kill", "offline"}

ASSUME UsedCommands == Used \subseteq Commands \cup Events
ASSUME SomeNames ==
    /\ IQN # {} /\ TPGT # {} /\ Portal # {} /\ Initiator # {}
    /\ Lun # {} /\ MappedLun # {} /\ Dev # {} /\ NoStatus \in Status
ASSUME NoneIsNoValue == None \notin Dev \cup Lun \cup Secondary

VARIABLES
    \* directories of the iSCSI tree
    iqns, tpgs, nps, luns, nacls, mapped,
    \* symbolic links: LUN -> storage object, mapped LUN -> LUN of its TPG
    dev, lioLun,
    \* attributes: tpgt_N/enable, np/.../iser, alua_tg_pt_write_md, and the two of Secondary
    enabled, iser, writeMd, secondary,
    \* configured storage objects
    devs,
    \* /var/target/alua/iSCSI/IQN+TPGT/ and its lun_N files (the attributes saved there)
    mdDir, mdFile,
    \* the invocations
    cli

dirs  == <<iqns, tpgs, nps, luns, nacls, mapped>>
links == <<dev, lioLun>>
attrs == <<enabled, iser, writeMd, secondary>>
saved == <<mdDir, mdFile>>
vars  == <<dirs, links, attrs, devs, saved, cli>>

-----------------------------------------------------------------------------
(* Invocations *)

\* The commands that only remove.
Teardown == {"dellunacl", "delnodeacl", "delnp", "deltpg", "deliqn", "unload"}

\* The commands that also forget the secondary ALUA metadata of what they remove.
Explicit == {"dellun", "deltpg", "deliqn"}

Stages == {"idle", "ok", "err",
           "mkdir", "link", "rollback", "mdDir", "writeMd", "restore", "status",
           "iqns", "tpgs", "disable", "npList", "nps", "npIser", "npRmdir", "nacls",
           "mappeds", "mappedUnlink", "mappedRmdir",
           "luns", "lunUnlink", "lunRmdir", "lunRmMd", "tpgRmMd"}

Idle == [cmd |-> "none", pc |-> "idle",
         \* no other invocation has run since this one started (an observation only)
         alone |-> FALSE,
         \* what the kernel has refused it of the current TPG (an observation only)
         refused |-> {},
         \* arguments and loop variables
         t |-> CHOOSE t \in Tpg : TRUE,
         n |-> CHOOSE n \in Portal : TRUE,
         i |-> CHOOSE i \in Initiator : TRUE,
         l |-> CHOOSE l \in Lun : TRUE,
         m |-> CHOOSE m \in MappedLun : TRUE,
         d |-> CHOOSE d \in Dev : TRUE,
         \* what was read of the saved file
         md |-> None,
         \* what the current listdir snapshots still hold
         iqnsLeft |-> {}, tpgsLeft |-> {}, npsLeft |-> {}, naclsLeft |-> {},
         mappedLeft |-> {}, lunsLeft |-> {},
         \* unload lists the TPGs of an IQN a second time in __lio_target_del_iqn
         relisted |-> FALSE]

CliState ==
    [cmd : Commands \cup {"none"}, pc : Stages, alone : BOOLEAN,
     refused : SUBSET {"enable", "iser"},
     t : Tpg, n : Portal, i : Initiator, l : Lun, m : MappedLun, d : Dev,
     md : Secondary \cup {None},
     iqnsLeft : SUBSET IQN, tpgsLeft : SUBSET TPGT, npsLeft : SUBSET Portal,
     naclsLeft : SUBSET Initiator, mappedLeft : SUBSET MappedLun, lunsLeft : SUBSET Lun,
     relisted : BOOLEAN]

At(c, pc) == cli[c].pc = pc
Become(c, state) == cli' = [cli EXCEPT ![c] = state]
Goto(c, pc) == Become(c, [cli[c] EXCEPT !.pc = pc])

\* The portal, port, node ACL and mapped LUN the invocation works on.
NpOf(c)     == <<cli[c].t, cli[c].n>>
PortOf(c)   == <<cli[c].t, cli[c].l>>
NaclOf(c)   == <<cli[c].t, cli[c].i>>
MappedOf(c) == <<cli[c].t, cli[c].i, cli[c].m>>

\* A new invocation: it is alone when all the others are idle, and they no longer are.
Begin(c, state) ==
    /\ At(c, "idle")
    /\ state.cmd \in Used
    /\ cli' = [x \in Cli |->
                 IF x = c
                 THEN [state EXCEPT !.alone = \A y \in Cli \ {c} : At(y, "idle")]
                 ELSE [cli[x] EXCEPT !.alone = FALSE]]
    /\ UNCHANGED <<dirs, links, attrs, devs, saved>>

\* An invocation of a single system call runs between the steps of the others.
Interfere == cli' = [c \in Cli |-> [cli[c] EXCEPT !.alone = FALSE]]

-----------------------------------------------------------------------------
(* What configfs refuses: a directory goes only when nothing was made in   *)
(* it and no link points to it.                                            *)

RemovableIqn(iqn)  == iqn \in iqns /\ \A t \in tpgs : t[1] # iqn
RemovableTpg(t)    == /\ t \in tpgs
                      /\ \A x \in nps \cup luns \cup nacls : x[1] # t
\* The tool turns iSER off before it removes a portal, so it must be off.
RemovableNp(x)     == x \in nps /\ x \notin iser
RemovableNacl(x)   == x \in nacls /\ \A y \in mapped : <<y[1], y[2]>> # x
RemovableMapped(x) == x \in mapped /\ lioLun[x] = None
MappedTo(p)        == {x \in mapped : x[1] = p[1] /\ lioLun[x] = p[2]}
RemovableLun(p)    == p \in luns /\ dev[p] = None /\ MappedTo(p) = {}

\* mkdir -p makes the parents too.
MakeTpg(t) == iqns' = iqns \cup {t[1]} /\ tpgs' = tpgs \cup {t}

\* The saved files once the kernel has saved the state of p, if p writes its metadata.
FilesWith(p, state) ==
    IF p \in writeMd /\ p[1] \in mdDir THEN [mdFile EXCEPT ![p] = state] ELSE mdFile

\* A written offline bit is saved, with a status of the kernel's choice.
SetOfflineBit(p, bit) ==
    \E status \in Status :
      LET state == [offline |-> bit, status |-> status] IN
      /\ secondary' = [secondary EXCEPT ![p] = state]
      /\ mdFile' = FilesWith(p, state)

\* A written status may or may not be saved.
SetStatus(p, status) ==
    LET state == [secondary[p] EXCEPT !.status = status] IN
    /\ secondary' = [secondary EXCEPT ![p] = state]
    /\ mdFile' \in {mdFile, FilesWith(p, state)}

-----------------------------------------------------------------------------
(* Starting a command *)

StartAddTpg(c) == \E t \in Tpg \ tpgs :
    Begin(c, [Idle EXCEPT !.cmd = "addtpg", !.pc = "mkdir", !.t = t])

StartAddNp(c) == \E t \in Tpg, n \in Portal :
    Begin(c, [Idle EXCEPT !.cmd = "addnp", !.pc = "mkdir", !.t = t, !.n = n])

StartAddNodeacl(c) == \E t \in Tpg, i \in Initiator :
    Begin(c, [Idle EXCEPT !.cmd = "addnodeacl", !.pc = "mkdir", !.t = t, !.i = i])

StartAddPort(c) == \E t \in Tpg, l \in Lun, d \in Dev :
    /\ <<t, l>> \notin luns
    /\ Begin(c, [Idle EXCEPT !.cmd = "addlun", !.pc = "mkdir", !.t = t, !.l = l, !.d = d])

StartAddLunacl(c) == \E t \in Tpg, i \in Initiator, l \in Lun, m \in MappedLun :
    Begin(c, [Idle EXCEPT !.cmd = "addlunacl", !.pc = "mkdir",
                          !.t = t, !.i = i, !.l = l, !.m = m])

\* --aluasecmd: without a saved file it only prepares for one and exits with 1.
StartProcessSecondaryMd(c) == \E t \in Tpg, l \in Lun :
    Begin(c, [Idle EXCEPT !.cmd = "aluasecmd", !.t = t, !.l = l,
                !.pc  = IF mdFile[<<t, l>>] = None THEN "mdDir" ELSE "restore",
                !.md  = mdFile[<<t, l>>]])

StartDelLunacl(c) == \E x \in mapped :
    Begin(c, [Idle EXCEPT !.cmd = "dellunacl", !.pc = "mappeds",
                          !.t = x[1], !.i = x[2], !.mappedLeft = {x[3]}])

StartDelNodeacl(c) == \E x \in nacls :
    Begin(c, [Idle EXCEPT !.cmd = "delnodeacl", !.pc = "nacls",
                          !.t = x[1], !.naclsLeft = {x[2]}])

StartDelNp(c) == \E x \in nps :
    Begin(c, [Idle EXCEPT !.cmd = "delnp", !.pc = "nps", !.t = x[1], !.npsLeft = {x[2]}])

StartDelPort(c) == \E x \in luns :
    Begin(c, [Idle EXCEPT !.cmd = "dellun", !.pc = "luns", !.t = x[1], !.lunsLeft = {x[2]}])

StartDelTpg(c) == \E t \in tpgs :
    Begin(c, [Idle EXCEPT !.cmd = "deltpg", !.pc = "disable", !.t = t])

StartDelIqn(c) == \E iqn \in iqns :
    Begin(c, [Idle EXCEPT !.cmd = "deliqn", !.pc = "iqns", !.iqnsLeft = {iqn}])

StartUnload(c) ==
    Begin(c, [Idle EXCEPT !.cmd = "unload", !.pc = "iqns", !.iqnsLeft = iqns])

-----------------------------------------------------------------------------
(* Building *)

\* addtpg and addnp: mkdir -p, then the metadata directory.
MkdirTpg(c) ==
    /\ At(c, "mkdir") /\ cli[c].cmd = "addtpg"
    /\ MakeTpg(cli[c].t)
    /\ Goto(c, "mdDir")
    /\ UNCHANGED <<nps, luns, nacls, mapped, links, attrs, devs, saved>>

MkdirNp(c) ==
    /\ At(c, "mkdir") /\ cli[c].cmd = "addnp"
    /\ MakeTpg(cli[c].t)
    /\ nps' = nps \cup {<<cli[c].t, cli[c].n>>}
    /\ Goto(c, "mdDir")
    /\ UNCHANGED <<luns, nacls, mapped, links, attrs, devs, saved>>

MkdirNacl(c) ==
    /\ At(c, "mkdir") /\ cli[c].cmd = "addnodeacl"
    /\ MakeTpg(cli[c].t)
    /\ nacls' = nacls \cup {NaclOf(c)}
    /\ Goto(c, "mdDir")
    /\ UNCHANGED <<nps, luns, mapped, links, attrs, devs, saved>>

MkdirLun(c) ==
    /\ At(c, "mkdir") /\ cli[c].cmd = "addlun"
    /\ MakeTpg(cli[c].t)
    /\ luns' = luns \cup {PortOf(c)}
    /\ Goto(c, "link")
    /\ UNCHANGED <<nps, nacls, mapped, links, attrs, devs, saved>>

MkdirMapped(c) ==
    /\ At(c, "mkdir") /\ cli[c].cmd = "addlunacl"
    /\ MakeTpg(cli[c].t)
    /\ nacls' = nacls \cup {NaclOf(c)}
    /\ mapped' = mapped \cup {MappedOf(c)}
    /\ Goto(c, "link")
    /\ UNCHANGED <<nps, luns, links, attrs, devs, saved>>

\* ln -s of the storage object; the kernel takes one per LUN.
CanLinkPort(c) ==
    PortOf(c) \in luns /\ dev[PortOf(c)] = None /\ cli[c].d \in devs

\* Wrong variant: the bit is set without the directory having been made.
LinkPortThenWrite(c) ==
    /\ At(c, "link") /\ cli[c].cmd = "addlun"
    /\ CanLinkPort(c)
    /\ dev' = [dev EXCEPT ![PortOf(c)] = cli[c].d]
    /\ Goto(c, "writeMd")
    /\ UNCHANGED <<dirs, lioLun, attrs, devs, saved>>

LinkPort(c) ==
    /\ At(c, "link") /\ cli[c].cmd = "addlun"
    /\ CanLinkPort(c)
    /\ dev' = [dev EXCEPT ![PortOf(c)] = cli[c].d]
    /\ Goto(c, "mdDir")
    /\ UNCHANGED <<dirs, lioLun, attrs, devs, saved>>

LinkPortFails(c) ==
    /\ At(c, "link") /\ cli[c].cmd = "addlun"
    /\ ~CanLinkPort(c)
    /\ Goto(c, "rollback")
    /\ UNCHANGED <<dirs, links, attrs, devs, saved>>

\* Wrong variant: the failed --addlun exits without its rmdir.
NoRollbackPort(c) ==
    /\ At(c, "rollback")
    /\ Goto(c, "err")
    /\ UNCHANGED <<dirs, links, attrs, devs, saved>>

\* os.rmdir of the LUN directory; when the kernel refuses, OSError ends the tool.
RollbackPort(c) ==
    /\ At(c, "rollback")
    /\ luns' = IF RemovableLun(PortOf(c)) THEN luns \ {PortOf(c)} ELSE luns
    /\ Goto(c, "err")
    /\ UNCHANGED <<iqns, tpgs, nps, nacls, mapped, links, attrs, devs, saved>>

CanLinkMapped(c) ==
    /\ MappedOf(c) \in mapped /\ lioLun[MappedOf(c)] = None
    /\ PortOf(c) \in luns

LinkMapped(c) ==
    /\ At(c, "link") /\ cli[c].cmd = "addlunacl"
    /\ CanLinkMapped(c)
    /\ lioLun' = [lioLun EXCEPT ![MappedOf(c)] = cli[c].l]
    /\ Goto(c, "mdDir")
    /\ UNCHANGED <<dirs, dev, attrs, devs, saved>>

\* lio_err: the mapped LUN directory stays behind.
LinkMappedFails(c) ==
    /\ At(c, "link") /\ cli[c].cmd = "addlunacl"
    /\ ~CanLinkMapped(c)
    /\ Goto(c, "err")
    /\ UNCHANGED <<dirs, links, attrs, devs, saved>>

\* lio_alua_check_secondary_md
CheckSecondaryMd(c) ==
    /\ At(c, "mdDir")
    /\ mdDir' = mdDir \cup {cli[c].t}
    /\ Goto(c, IF cli[c].cmd \in {"addlun", "aluasecmd"} THEN "writeMd" ELSE "ok")
    /\ UNCHANGED <<dirs, links, attrs, devs, mdFile>>

\* lio_alua_set_secondary_write_md: returns silently when the attribute file is gone; the
\* kernel refuses the write on a LUN without storage object (IOError).  --aluasecmd still
\* ends with lio_err when it had found no metadata file.
SetSecondaryWriteMd(c) ==
    /\ At(c, "writeMd")
    /\ writeMd' = IF dev[PortOf(c)] # None THEN writeMd \cup {PortOf(c)} ELSE writeMd
    /\ Goto(c, IF \/ PortOf(c) \in luns /\ dev[PortOf(c)] = None
                  \/ cli[c].cmd = "aluasecmd" /\ cli[c].md = None
               THEN "err" ELSE "ok")
    /\ UNCHANGED <<dirs, links, enabled, iser, secondary, devs, saved>>

\* Wrong variant: the second attribute in the file is passed over.
RestoreOfflineOnly(c) ==
    /\ At(c, "restore")
    /\ dev[PortOf(c)] # None
    /\ SetOfflineBit(PortOf(c), cli[c].md.offline)
    /\ Goto(c, "writeMd")
    /\ UNCHANGED <<dirs, links, enabled, iser, writeMd, devs, mdDir>>

\* lio_alua_process_secondary_md with a metadata file: the attributes read from it go back
\* into the port one by one, and the kernel may already be writing them to that same file.
RestoreOffline(c) ==
    /\ At(c, "restore")
    /\ dev[PortOf(c)] # None
    /\ SetOfflineBit(PortOf(c), cli[c].md.offline)
    /\ Goto(c, "status")
    /\ UNCHANGED <<dirs, links, enabled, iser, writeMd, devs, mdDir>>

RestoreStatus(c) ==
    /\ At(c, "status")
    /\ dev[PortOf(c)] # None
    /\ SetStatus(PortOf(c), cli[c].md.status)
    /\ Goto(c, "writeMd")
    /\ UNCHANGED <<dirs, links, enabled, iser, writeMd, devs, mdDir>>

\* The attribute is not there, or the kernel refuses what is written: IOError.
RestoreFails(c) ==
    /\ cli[c].pc \in {"restore", "status"}
    /\ Goto(c, "err")
    /\ UNCHANGED <<dirs, links, attrs, devs, saved>>

-----------------------------------------------------------------------------
(* Taking down, from the outermost loop to the innermost *)

\* Wrong variant: the directory names are not split at "_", so no tag comes out.
ListTpgNames(c) ==
    /\ At(c, "iqns")
    /\ \E iqn \in cli[c].iqnsLeft :
         Become(c, [cli[c] EXCEPT
           !.pc       = IF iqn \in iqns THEN "tpgs" ELSE "err",
           !.t        = <<iqn, cli[c].t[2]>>,
           !.iqnsLeft = @ \ {iqn},
           !.tpgsLeft = {t \in tpgs : t[1] = iqn},
           !.relisted = (cli[c].cmd = "deliqn")])
    /\ UNCHANGED <<dirs, links, attrs, devs, saved>>

\* lio_target_unload, __lio_target_del_iqn: list the TPGs of the next IQN.
ListTpgs(c) ==
    /\ At(c, "iqns")
    /\ \E iqn \in cli[c].iqnsLeft :
         Become(c, [cli[c] EXCEPT
           !.pc       = IF iqn \in iqns THEN "tpgs" ELSE "err",
           !.t        = <<iqn, cli[c].t[2]>>,
           !.iqnsLeft = @ \ {iqn},
           !.tpgsLeft = {tpgt \in TPGT : <<iqn, tpgt>> \in tpgs},
           !.relisted = (cli[c].cmd = "deliqn")])
    /\ UNCHANGED <<dirs, links, attrs, devs, saved>>

\* unload: the loop is over, __lio_target_del_iqn lists the TPGs again.
RelistTpgs(c) ==
    /\ At(c, "tpgs") /\ cli[c].tpgsLeft = {} /\ ~cli[c].relisted
    /\ Become(c, [cli[c] EXCEPT
         !.pc       = IF cli[c].t[1] \in iqns THEN "tpgs" ELSE "err",
         !.tpgsLeft = {tpgt \in TPGT : <<cli[c].t[1], tpgt>> \in tpgs},
         !.relisted = TRUE])
    /\ UNCHANGED <<dirs, links, attrs, devs, saved>>

\* deliqn goes through lio_target_del_tpg, which checks that the directory is there.
NextTpg(c) ==
    /\ At(c, "tpgs")
    /\ \E tpgt \in cli[c].tpgsLeft :
         LET t == <<cli[c].t[1], tpgt>> IN
         Become(c, [cli[c] EXCEPT
           !.pc       = IF cli[c].cmd = "deliqn" /\ t \notin tpgs THEN "err" ELSE "disable",
           !.t        = t,
           !.tpgsLeft = @ \ {tpgt}])
    /\ UNCHANGED <<dirs, links, attrs, devs, saved>>

\* Wrong variant: the TPG stays enabled.
NoDisableTpg(c) ==
    /\ At(c, "disable")
    /\ Goto(c, "npList")
    /\ UNCHANGED <<dirs, links, attrs, devs, saved>>

\* echo 0 > enable: that the kernel refuses is printed and ignored.
DisableTpg(c) ==
    /\ At(c, "disable")
    /\ \E refused \in SUBSET ({cli[c].t} \cap enabled) :
         /\ enabled' = (enabled \ {cli[c].t}) \cup refused
         /\ Become(c, [cli[c] EXCEPT
              !.pc = "npList", !.refused = IF refused = {} THEN {} ELSE {"enable"}])
    /\ UNCHANGED <<dirs, links, iser, writeMd, secondary, devs, saved>>

ListNps(c) ==
    /\ At(c, "npList")
    /\ Become(c, [cli[c] EXCEPT
         !.pc      = IF cli[c].t \in tpgs THEN "nps" ELSE "err",
         !.npsLeft = {n \in Portal : <<cli[c].t, n>> \in nps}])
    /\ UNCHANGED <<dirs, links, attrs, devs, saved>>

\* lio_target_del_np: look whether the next portal has iSER on.
NextNp(c) ==
    /\ At(c, "nps")
    /\ \E n \in cli[c].npsLeft :
         Become(c, [cli[c] EXCEPT
           !.pc      = IF <<cli[c].t, n>> \in iser THEN "npIser" ELSE "npRmdir",
           !.n       = n,
           !.npsLeft = @ \ {n}])
    /\ UNCHANGED <<dirs, links, attrs, devs, saved>>

DisableIser(c) ==
    /\ At(c, "npIser") /\ NpOf(c) \in nps
    /\ iser' = iser \ {NpOf(c)}
    /\ Goto(c, "npRmdir")
    /\ UNCHANGED <<dirs, links, enabled, writeMd, secondary, devs, saved>>

\* IOError: the portal is gone, or the kernel refuses.
DisableIserFails(c) ==
    /\ At(c, "npIser")
    /\ Become(c, [cli[c] EXCEPT !.pc = "err", !.refused = @ \cup {"iser"}])
    /\ UNCHANGED <<dirs, links, attrs, devs, saved>>

RmdirNp(c) ==
    /\ At(c, "npRmdir")
    /\ IF RemovableNp(NpOf(c))
       THEN /\ nps' = nps \ {NpOf(c)}
            /\ Goto(c, IF cli[c].cmd = "delnp" THEN "ok" ELSE "nps")
       ELSE /\ Goto(c, "err")
            /\ UNCHANGED nps
    /\ UNCHANGED <<iqns, tpgs, luns, nacls, mapped, links, attrs, devs, saved>>

\* Wrong variant: the LUNs go before the ACLs that map them.
ListLunsFirst(c) ==
    /\ At(c, "nps") /\ cli[c].npsLeft = {}
    /\ Become(c, [cli[c] EXCEPT
         !.pc       = IF cli[c].t \in tpgs THEN "luns" ELSE "err",
         !.lunsLeft = {l \in Lun : <<cli[c].t, l>> \in luns}])
    /\ UNCHANGED <<dirs, links, attrs, devs, saved>>

ListNacls(c) ==
    /\ At(c, "nps") /\ cli[c].npsLeft = {}
    /\ Become(c, [cli[c] EXCEPT
         !.pc        = IF cli[c].t \in tpgs THEN "nacls" ELSE "err",
         !.naclsLeft = {i \in Initiator : <<cli[c].t, i>> \in nacls}])
    /\ UNCHANGED <<dirs, links, attrs, devs, saved>>

\* lio_target_del_nodeacl: list the mapped LUNs of the next node ACL.
ListMapped(c) ==
    /\ At(c, "nacls")
    /\ \E i \in cli[c].naclsLeft :
         Become(c, [cli[c] EXCEPT
           !.pc         = IF <<cli[c].t, i>> \in nacls THEN "mappeds" ELSE "err",
           !.i          = i,
           !.naclsLeft  = @ \ {i},
           !.mappedLeft = {m \in MappedLun : <<cli[c].t, i, m>> \in mapped}])
    /\ UNCHANGED <<dirs, links, attrs, devs, saved>>

\* lio_target_del_lunacl: look for the link of the next mapped LUN.
ListMappedLinks(c) ==
    /\ At(c, "mappeds")
    /\ \E m \in cli[c].mappedLeft :
         LET x == <<cli[c].t, cli[c].i, m>> IN
         Become(c, [cli[c] EXCEPT
           !.pc         = IF x \notin mapped THEN "err"
                             ELSE IF lioLun[x] # None THEN "mappedUnlink" ELSE "mappedRmdir",
           !.m          = m,
           !.mappedLeft = @ \ {m}])
    /\ UNCHANGED <<dirs, links, attrs, devs, saved>>

\* os.unlink raises OSError when the link is gone.
UnlinkMapped(c) ==
    /\ At(c, "mappedUnlink")
    /\ lioLun' = [lioLun EXCEPT ![MappedOf(c)] = None]
    /\ Goto(c, IF lioLun[MappedOf(c)] # None THEN "mappedRmdir" ELSE "err")
    /\ UNCHANGED <<dirs, dev, attrs, devs, saved>>

RmdirMapped(c) ==
    /\ At(c, "mappedRmdir")
    /\ IF RemovableMapped(MappedOf(c))
       THEN /\ mapped' = mapped \ {MappedOf(c)}
            /\ Goto(c, IF cli[c].cmd = "dellunacl" THEN "ok" ELSE "mappeds")
       ELSE /\ Goto(c, "err")
            /\ UNCHANGED mapped
    /\ UNCHANGED <<iqns, tpgs, nps, luns, nacls, links, attrs, devs, saved>>

RmdirNacl(c) ==
    /\ At(c, "mappeds") /\ cli[c].mappedLeft = {}
    /\ IF RemovableNacl(NaclOf(c))
       THEN /\ nacls' = nacls \ {NaclOf(c)}
            /\ Goto(c, IF cli[c].cmd = "delnodeacl" THEN "ok" ELSE "nacls")
       ELSE /\ Goto(c, "err")
            /\ UNCHANGED nacls
    /\ UNCHANGED <<iqns, tpgs, nps, luns, mapped, links, attrs, devs, saved>>

ListLuns(c) ==
    /\ At(c, "nacls") /\ cli[c].naclsLeft = {}
    /\ Become(c, [cli[c] EXCEPT
         !.pc       = IF cli[c].t \in tpgs THEN "luns" ELSE "err",
         !.lunsLeft = {l \in Lun : <<cli[c].t, l>> \in luns}])
    /\ UNCHANGED <<dirs, links, attrs, devs, saved>>

\* __lio_target_del_port: look for the link of the next LUN.
ListPortLinks(c) ==
    /\ At(c, "luns")
    /\ \E l \in cli[c].lunsLeft :
         LET p == <<cli[c].t, l>> IN
         Become(c, [cli[c] EXCEPT
           !.pc       = IF p \notin luns THEN "err"
                           ELSE IF dev[p] # None THEN "lunUnlink" ELSE "lunRmdir",
           !.l        = l,
           !.lunsLeft = @ \ {l}])
    /\ UNCHANGED <<dirs, links, attrs, devs, saved>>

\* The port's attributes live and die with the link.
UnlinkPort(c) ==
    /\ At(c, "lunUnlink")
    /\ dev' = [dev EXCEPT ![PortOf(c)] = None]
    /\ writeMd' = writeMd \ {PortOf(c)}
    /\ secondary' = [secondary EXCEPT ![PortOf(c)] = Online]
    /\ Goto(c, IF dev[PortOf(c)] # None THEN "lunRmdir" ELSE "err")
    /\ UNCHANGED <<dirs, lioLun, enabled, iser, devs, saved>>

\* Wrong variant: --dellun ends like the removals that keep the metadata.
RmdirLunKeepingMd(c) ==
    /\ At(c, "lunRmdir")
    /\ IF RemovableLun(PortOf(c))
       THEN /\ luns' = luns \ {PortOf(c)}
            /\ Goto(c, IF cli[c].cmd = "dellun" THEN "ok" ELSE "luns")
       ELSE /\ Goto(c, "err")
            /\ UNCHANGED luns
    /\ UNCHANGED <<iqns, tpgs, nps, nacls, mapped, links, attrs, devs, saved>>

\* Wrong variant: a refused rmdir does not end the command.
RmdirLunUnchecked(c) ==
    /\ At(c, "lunRmdir")
    /\ luns' = IF RemovableLun(PortOf(c)) THEN luns \ {PortOf(c)} ELSE luns
    /\ Goto(c, IF cli[c].cmd \in Explicit THEN "lunRmMd" ELSE "luns")
    /\ UNCHANGED <<iqns, tpgs, nps, nacls, mapped, links, attrs, devs, saved>>

RmdirLun(c) ==
    /\ At(c, "lunRmdir")
    /\ IF RemovableLun(PortOf(c))
       THEN /\ luns' = luns \ {PortOf(c)}
            /\ Goto(c, IF cli[c].cmd \in Explicit THEN "lunRmMd" ELSE "luns")
       ELSE /\ Goto(c, "err")
            /\ UNCHANGED luns
    /\ UNCHANGED <<iqns, tpgs, nps, nacls, mapped, links, attrs, devs, saved>>

\* lio_alua_delete_secondary_md_port
RmMdFile(c) ==
    /\ At(c, "lunRmMd")
    /\ mdFile' = [mdFile EXCEPT ![PortOf(c)] = None]
    /\ Goto(c, IF cli[c].cmd = "dellun" THEN "ok" ELSE "luns")
    /\ UNCHANGED <<dirs, links, attrs, devs, mdDir>>

\* Wrong variant: every removal of a TPG forgets its metadata, --unload too.
RmdirTpgForgetting(c) ==
    /\ At(c, "luns") /\ cli[c].lunsLeft = {}
    /\ IF RemovableTpg(cli[c].t)
       THEN /\ tpgs' = tpgs \ {cli[c].t}
            /\ enabled' = enabled \ {cli[c].t}
            /\ Goto(c, "tpgRmMd")
       ELSE /\ Goto(c, "err")
            /\ UNCHANGED <<tpgs, enabled>>
    /\ UNCHANGED <<iqns, nps, luns, nacls, mapped, links, iser, writeMd, secondary, devs, saved>>

RmdirTpg(c) ==
    /\ At(c, "luns") /\ cli[c].lunsLeft = {}
    /\ IF RemovableTpg(cli[c].t)
       THEN /\ tpgs' = tpgs \ {cli[c].t}
            /\ enabled' = enabled \ {cli[c].t}
            /\ Goto(c, IF cli[c].cmd \in Explicit THEN "tpgRmMd" ELSE "tpgs")
       ELSE /\ Goto(c, "err")
            /\ UNCHANGED <<tpgs, enabled>>
    /\ UNCHANGED <<iqns, nps, luns, nacls, mapped, links, iser, writeMd, secondary, devs, saved>>

\* lio_alua_delete_secondary_md: rm -rf of the directory.
RmMdDir(c) ==
    /\ At(c, "tpgRmMd")
    /\ mdDir' = mdDir \ {cli[c].t}
    /\ mdFile' = [p \in Port |-> IF p[1] = cli[c].t THEN None ELSE mdFile[p]]
    /\ Goto(c, IF cli[c].cmd = "deltpg" THEN "ok" ELSE "tpgs")
    /\ UNCHANGED <<dirs, links, attrs, devs>>

\* Wrong variant: a refused rmdir is tried again until it succeeds.
RmdirIqnRetrying(c) ==
    /\ At(c, "tpgs") /\ cli[c].tpgsLeft = {} /\ cli[c].relisted
    /\ IF RemovableIqn(cli[c].t[1])
       THEN /\ iqns' = iqns \ {cli[c].t[1]}
            /\ Goto(c, IF cli[c].cmd = "deliqn" THEN "ok" ELSE "iqns")
       ELSE UNCHANGED <<iqns, cli>>
    /\ UNCHANGED <<tpgs, nps, luns, nacls, mapped, links, attrs, devs, saved>>

RmdirIqn(c) ==
    /\ At(c, "tpgs") /\ cli[c].tpgsLeft = {} /\ cli[c].relisted
    /\ IF RemovableIqn(cli[c].t[1])
       THEN /\ iqns' = iqns \ {cli[c].t[1]}
            /\ Goto(c, IF cli[c].cmd = "deliqn" THEN "ok" ELSE "iqns")
       ELSE /\ Goto(c, "err")
            /\ UNCHANGED iqns
    /\ UNCHANGED <<tpgs, nps, luns, nacls, mapped, links, attrs, devs, saved>>

\* rmdir of lio_root and rmmod: failures are printed only, and mkdir -p loads the fabric anew.
UnloadModule(c) ==
    /\ At(c, "iqns") /\ cli[c].iqnsLeft = {}
    /\ Goto(c, "ok")
    /\ UNCHANGED <<dirs, links, attrs, devs, saved>>

-----------------------------------------------------------------------------
(* The end of an invocation, and what happens around it *)

Exit(c) ==
    /\ cli[c].pc \in {"ok", "err"}
    /\ cli' = [cli EXCEPT ![c] = Idle]
    /\ UNCHANGED <<dirs, links, attrs, devs, saved>>

\* A signal, or a system call that fails where the tool has no cleanup (lio_err or an
\* uncaught exception): the process ends where it is.
Killed(c) ==
    /\ "kill" \in Used
    /\ cli[c].pc \notin {"idle", "ok", "err"}
    /\ cli' = [cli EXCEPT ![c] = Idle]
    /\ UNCHANGED <<dirs, links, attrs, devs, saved>>

\* --enabletpg, --disabletpg: one echo.
EnableTpg(t, bit) ==
    /\ t \in tpgs
    /\ enabled' = IF bit THEN enabled \cup {t} ELSE enabled \ {t}
    /\ Interfere
    /\ UNCHANGED <<dirs, links, iser, writeMd, secondary, devs, saved>>

\* The administrator turns iSER on or off: one echo, which lio_dump saves.
SetIser(x, bit) ==
    /\ x \in nps
    /\ iser' = IF bit THEN iser \cup {x} ELSE iser \ {x}
    /\ Interfere
    /\ UNCHANGED <<dirs, links, enabled, writeMd, secondary, devs, saved>>

\* --settgptoff, --cleartgptoff: one echo.
SetOffline(p, bit) ==
    /\ "offline" \in Used
    /\ dev[p] # None
    /\ SetOfflineBit(p, bit)
    /\ Interfere
    /\ UNCHANGED <<dirs, links, enabled, iser, writeMd, devs, mdDir>>

\* tcm_node adds a storage object, or frees one that no LUN links to.
AddDev(d) ==
    /\ d \notin devs
    /\ devs' = devs \cup {d}
    /\ UNCHANGED <<dirs, links, attrs, saved, cli>>

FreeDev(d) ==
    /\ d \in devs /\ \A p \in Port : dev[p] # d
    /\ devs' = devs \ {d}
    /\ UNCHANGED <<dirs, links, attrs, saved, cli>>

Start(c) ==
    \/ StartAddTpg(c) \/ StartAddNp(c) \/ StartAddNodeacl(c) \/ StartAddPort(c)
    \/ StartAddLunacl(c) \/ StartProcessSecondaryMd(c)
    \/ StartDelLunacl(c) \/ StartDelNodeacl(c) \/ StartDelNp(c) \/ StartDelPort(c)
    \/ StartDelTpg(c) \/ StartDelIqn(c) \/ StartUnload(c)

Build(c) ==
    \/ MkdirTpg(c) \/ MkdirNp(c) \/ MkdirNacl(c) \/ MkdirLun(c) \/ MkdirMapped(c)
    \/ LinkPort(c) \/ LinkPortFails(c) \/ RollbackPort(c)
    \/ LinkMapped(c) \/ LinkMappedFails(c)
    \/ CheckSecondaryMd(c) \/ SetSecondaryWriteMd(c)
    \/ RestoreOffline(c) \/ RestoreStatus(c) \/ RestoreFails(c)

TakeDown(c) ==
    \/ ListTpgs(c) \/ RelistTpgs(c) \/ NextTpg(c) \/ DisableTpg(c) \/ ListNps(c)
    \/ NextNp(c) \/ DisableIser(c) \/ DisableIserFails(c) \/ RmdirNp(c)
    \/ ListNacls(c) \/ ListMapped(c) \/ ListMappedLinks(c)
    \/ UnlinkMapped(c) \/ RmdirMapped(c) \/ RmdirNacl(c) \/ ListLuns(c)
    \/ ListPortLinks(c) \/ UnlinkPort(c) \/ RmdirLun(c) \/ RmMdFile(c)
    \/ RmdirTpg(c) \/ RmMdDir(c) \/ RmdirIqn(c) \/ UnloadModule(c)

\* What an invocation does by itself once started.
Run(c) == Build(c) \/ TakeDown(c) \/ Exit(c)

Around ==
    \/ \E t \in Tpg, bit \in BOOLEAN : EnableTpg(t, bit)
    \/ \E x \in Np, bit \in BOOLEAN : SetIser(x, bit)
    \/ \E p \in Port, bit \in BOOLEAN : SetOffline(p, bit)
    \/ \E d \in Dev : AddDev(d) \/ FreeDev(d)

Init ==
    /\ iqns = {} /\ tpgs = {} /\ nps = {} /\ luns = {} /\ nacls = {} /\ mapped = {}
    /\ dev = [p \in Port |-> None]
    /\ lioLun = [x \in Mapped |-> None]
    /\ enabled = {} /\ iser = {} /\ writeMd = {} /\ secondary = [p \in Port |-> Online]
    /\ devs = {}
    /\ mdDir = {} /\ mdFile = [p \in Port |-> None]
    /\ cli = [c \in Cli |-> Idle]

Next ==
    \/ \E c \in Cli : Start(c) \/ Run(c) \/ Killed(c)
    \/ Around

Spec == Init /\ [][Next]_vars

\* Every system call returns and the scheduler runs every process: a started invocation
\* goes on.  Nobody has to start one, and nothing has to be killed.
FairSpec == Spec /\ \A c \in Cli : WF_vars(Run(c))

-----------------------------------------------------------------------------
(* Types *)

\* Every variable holds the directories, links, bits and process states it is meant to.
TypeOK ==
    /\ iqns \subseteq IQN /\ tpgs \subseteq Tpg
    /\ nps \subseteq Np
    /\ luns \subseteq Port /\ nacls \subseteq Nacl /\ mapped \subseteq Mapped
    /\ dev \in [Port -> Dev \cup {None}]
    /\ lioLun \in [Mapped -> Lun \cup {None}]
    /\ enabled \subseteq Tpg /\ iser \subseteq Np
    /\ writeMd \subseteq Port /\ secondary \in [Port -> Secondary]
    /\ devs \subseteq Dev
    /\ mdDir \subseteq Tpg /\ mdFile \in [Port -> Secondary \cup {None}]
    /\ cli \in [Cli -> CliState]

(* What the tool is relied on for *)

\* Whatever failed, killed or racing invocations left behind (half-built LUNs, mapped LUNs
\* without link, portals with iSER on, ...), a removal that runs alone gets through, also past
\* a TPG that cannot be disabled: the order in which __lio_target_del_tpg dismantles is one
\* the kernel never refuses.  Only a portal whose iSER cannot be turned off ends it.
TeardownAloneSucceeds ==
    \A c \in Cli : cli[c].alone /\ cli[c].cmd \in Teardown /\ At(c, "err")
                   => "iser" \in cli[c].refused

\* What an undisturbed removal reports as done is done, over all its loops: nothing it was
\* to remove is left, and --unload leaves no target.
RemovedIsGone ==
    \A c \in Cli : cli[c].alone /\ At(c, "ok") =>
      CASE cli[c].cmd = "dellunacl"  -> MappedOf(c) \notin mapped
        [] cli[c].cmd = "delnodeacl" -> NaclOf(c) \notin nacls
        [] cli[c].cmd = "delnp"      -> NpOf(c) \notin nps
        [] cli[c].cmd = "dellun"     -> PortOf(c) \notin luns
        [] cli[c].cmd = "deltpg"     -> cli[c].t \notin tpgs
        [] cli[c].cmd = "deliqn"     -> cli[c].t[1] \notin iqns
        [] cli[c].cmd = "unload"     -> iqns = {}
        [] OTHER                     -> TRUE

\* However many --addlun, --dellun, --deltpg, --deliqn and --unload race for a LUN, each with
\* its checks and listings out of date, a LUN without storage object is one that somebody is
\* still linking, taking back or removing: none is left half-built.  A killed process may
\* leave one, and so may a mapped LUN, which stops the rmdir.
HalfBuilt == {p \in luns : dev[p] = None}
NoLunLeftHalfBuilt ==
    \A p \in HalfBuilt : \E c \in Cli :
      PortOf(c) = p /\ cli[c].pc \in {"link", "rollback", "lunRmdir"}

\* An --addlun that fails with nobody interfering takes its directory back: the LUN number
\* can be used again.
FailedAddPortLeavesNoLun ==
    \A c \in Cli : cli[c].alone /\ cli[c].cmd = "addlun" /\ At(c, "err") => PortOf(c) \notin luns

\* After an undisturbed --dellun or --deltpg nothing is saved of what was removed, so that
\* a LUN made there later does not start from the state of the old one.
DeletedIsForgotten ==
    \A c \in Cli : cli[c].alone /\ At(c, "ok") =>
      /\ cli[c].cmd = "dellun" => mdFile[PortOf(c)] = None
      /\ cli[c].cmd = "deltpg" => /\ cli[c].t \notin mdDir
                                  /\ \A l \in Lun : mdFile[<<cli[c].t, l>>] = None

\* Wherever the kernel has been told to write the metadata of a port, the directory it
\* writes to is there: lio_alua_check_secondary_md comes before the write_md bit, and rm -rf
\* only after the LUNs are gone.  Holds for one invocation at a time.
WritersHaveDir == \A p \in writeMd : p[1] \in mdDir

\* "to delete all of the secondary ALUA directories for the LIO-Target endpoint when an
\* explict --deliqn is called" (the comment in lio_target_del_iqn).
DelIqnForgetsEndpoint ==
    \A c \in Cli : cli[c].alone /\ At(c, "ok") /\ cli[c].cmd = "deliqn" =>
      \A t \in mdDir : t[1] # cli[c].t[1]

\* --aluasecmd gives a port the state that was saved when it began, although --addlun has the
\* kernel write the same file already and the first attribute restored disturbs the second
\* one: the port has both as they were saved, and the saved file has not lost the bit.
RestoredAsSaved ==
    \A c \in Cli : cli[c].alone /\ cli[c].cmd = "aluasecmd" /\ At(c, "ok") =>
      /\ secondary[PortOf(c)] = cli[c].md
      /\ mdFile[PortOf(c)] # None /\ mdFile[PortOf(c)].offline = cli[c].md.offline

\* A TPG is dismantled with its sessions released: from "This will set TPG Status to
\* INACTIVE" on, an undisturbed removal takes no part of a TPG while it is enabled, on every
\* path to it, unless the kernel has refused to disable that TPG (which is only printed).
Loses(t) ==
    \/ \E x \in nps : x[1] = t /\ x \notin nps'
    \/ \E x \in nacls : x[1] = t /\ x \notin nacls'
    \/ \E x \in luns : x[1] = t /\ x \notin luns'
DismantledOnlyDisabled ==
    [][\A c \in Cli :
         cli[c].alone /\ cli[c].cmd \in {"deltpg", "deliqn", "unload"} /\ cli'[c] # cli[c]
         => \A t \in enabled : Loses(t) => t = cli[c].t /\ "enable" \in cli[c].refused]_vars

\* Saved metadata disappears by an explicit deletion only; --unload and the removals of ACLs
\* and portals keep it for the next start, with any number of invocations at work.
OnlyDeletesForget ==
    [][(\E p \in Port : mdFile[p] # None /\ mdFile'[p] = None) \/ ~(mdDir \subseteq mdDir')
       => \E c \in Cli : cli[c].cmd \in Explicit /\ cli'[c] # cli[c]]_vars

\* With one invocation at a time the tool keeps the promise of SavedState.
Saved == INSTANCE SavedState
           WITH Value <- Secondary, exists <- luns, state <- mdFile
ImplementsSavedState == Saved!Spec

\* Every started invocation ends, also while others go on building what it takes down: the
\* loops run over snapshots.
EveryCommandEnds == \A c \in Cli : ~At(c, "idle") ~> At(c, "idle")

=============================================================================
