# TLA+ models of lio-utils

lio-utils configures the LIO SCSI target of the Linux kernel. Its programs are short-lived: each
invocation of `tcm_node`, `lio_node`, `tcm_fabric` or `tcm_loop` makes or removes directories and
links in configfs (`/sys/kernel/config/target`) and files under `/var/target`, and ends. The state
of the system is in these two trees; the first is lost with the machine, the second stays. Nothing
locks either, so invocations interleave system call by system call, and every command can be
refused, fail or be killed between two of them. The dump tools write start scripts from the
running configuration, the init script replays them after a boot, and an SNMP sub-agent reads what
the kernel reports.

## Inventory

| Component | State | Operations | What is hard | What makes it correct |
|---|---|---|---|---|
| `lio-py/lio_node.py` | iSCSI part of configfs: IQNs, portal groups (TPGs), portals, LUNs and their link to a storage object, node ACLs, mapped LUNs and their link to a LUN; the attributes `enable`, `iser`, `alua_tg_pt_write_md`, `alua_tg_pt_offline` and `alua_tg_pt_status`; `/var/target/alua/iSCSI/IQN+TPGT/lun_N` | `--add*`, `--del*`, `--enabletpg`, `--aluasecmd`, `--unload` | the dismantling order configfs accepts; listings taken once and used after the tree has changed; a failed step with and without rollback; the same code path with and without deletion of the saved state; refusals that are printed only; restoring from a file that the kernel is writing | no LUN is left half-built by racing commands; what one invocation leaves behind another can remove, and has removed when it says so; saved state is restored whole and forgotten exactly when it should be |
| `tcm-py/tcm_node.py` | HBAs, storage objects, target port groups, logical unit groups in configfs; unit serials; group identifiers, access states and statuses, `alua_write_metadata`; `/var/target/alua/tpgs_SERIAL/GROUP`, `/var/target/pr/aptpl_SERIAL` | `--createdev`, `--establishdev`, `--setunitserial[withmd]`, `--praptpl`, `--addtgptgp[withmd]`, `--addlungp`, `--del*`, `--freedev`, `--unload` | state saved under a key (the serial) that is itself set by a command; errors swallowed by `tcm_write`; ignored return values of the plugins; restoring before writing is allowed | a group writes only over its own saved state; reservations return with the serial; removals cope with every leftover |
| plugins `tcm_pscsi`, `tcm_iblock`, `tcm_fileio`, `tcm_ramdisk` | none of their own | `createvirtdev`, `*_get_params` | half-configured objects | an object whose creation raises is taken back |
| `tcm-py/tcm_dump.py`, `lio-py/lio_dump.py` | the saved start scripts and their numbered backups | dump, `--s` (save) | a configuration that changes while it is read; two files replaced one after the other | a start from the saved scripts rebuilds what was saved |
| `tcm-py/tcm_fabric.py`, `tcm_loop.py` | the configfs parts of the other fabrics | unload, dump, loopback nexus and LUNs | errors that are printed and passed over | what is unloaded is gone, or the module stays loaded |
| `scripts/rc.target`, `rc.target.suse` | `/var/lock/subsys/target`, `/var/crash/target.fault`, loaded modules | start, stop, restart, status | a machine that dies during the start because of the configuration itself | such a configuration is not tried a second time; an ordinary failure does not block the next start |
| SNMP sub-agent: `iscsiAuthData.c`, `ipsAuthMib.c` | the list of authorised initiators with their indices, its modification time, six tables built from it | reload of the file, loads of the tables | a file replaced between stat, fopen and the next stat; loads that are skipped by a remembered time or address; half-built lists | an index keeps meaning the same initiator; what is not loaded again is current |
| SNMP sub-agent: `iscsiMib.c`, `scsiMib.c` | 27 tables read from `/proc` (with those of `ipsAuthMib.c`), remembered failure counters and statuses | table loads through caches, get-next, notification pollers | tables loaded anew in the middle of a walk; records of several lines that break off; counters compared with remembered ones of a changed set of targets | a walk misses no row that stays; answers are not too old; every failure is notified, and once |
| `tools/iscsi_name.c`, `md5.c`, `autoconfig`, packaging, MIB texts | - | - | - | not modelled, see below |

The tools interact through the trees only: a LUN of `lio_node` is a link to a storage object of
`tcm_node`, which configfs then refuses to remove; the kernel writes the saved files from the moment
a tool has set the write bit; the init script and the dump tools run the other tools as commands.

## Modules

| Module | Models | Extends / instances |
|---|---|---|
| `SavedState` | what the ALUA metadata promises, abstractly: saved only by a port that exists, forgotten only when it does not | |
| `LioNode` | `lio_node.py` | instances `SavedState` |
| `LioNode_proofs` | theorems about it: types, races for a LUN, undisturbed invocations | `LioNode`, `TLAPS` |
| `TcmNode` | `tcm_node.py` and the plugins | instances `SavedState` |
| `TcmNode_proofs` | theorems about it: types, undisturbed invocations, what is saved | `TcmNode`, `TLAPS` |
| `InitScript` | `rc.target` and `rc.target.suse` | |
| `InitScript_proofs` | theorems about it | `InitScript`, `TLAPS` |
| `AuthIndex` | what the authentication MIB promises of an index, abstractly: given once, to one name, kept while the name stays in the list | |
| `AuthData` | `iscsiAuthData.c` and the loads of the tables built from its list | instances `AuthIndex` |
| `AuthData_proofs` | theorems about it | `AuthData`, `TLAPS` |
| `MibData` | the words in the kernel's files and what the loads make of them | |
| `IscsiMib`, `ScsiMib`, `IpsAuthMib` | the tables of `iscsiMib.c`, `scsiMib.c`, `ipsAuthMib.c`: columns, index, file, handler, load | `MibData` |
| `MibAgent` | the tables at work: caches, walks, polls, notifications | the three above |
| `LeftFolds` | what a fold over a sequence computes, step by step | `WellFoundedInduction`, `TLAPS` |
| `MibAgent_proofs` | theorems about it: caches, loads, walks | `MibAgent`, `TLAPS`; instances `LeftFolds` |
| `MibAgent_poll_proofs` | theorems about the polls, and the types | `MibAgent_proofs`; instances `LeftFolds` |
| `MibAgent_column_proofs` | the theorem about the columns of answers | `MibAgent_poll_proofs` |
| `MCLioNode`, `MCTcmNode`, `MCInitScript`, `MCAuthData`, `MCMibAgent` | the commands, files and shapes the runs use, and their symmetry | |

### How a step of a model corresponds to the code

`cli` maps each concurrent invocation to a record: the command, the stage it has reached (`pc`), its
arguments and loop variables, and what its directory listings still hold (the `...Left` fields). One
action is one system call, or one shell command the tool runs, with the local decisions up to the
next one: a check with `os.path.isdir` immediately before a call it protects is a step of its own
where another invocation can come in between (`StartAddPort` checks, `MkdirLun` makes), as are the
`listdir` of each loop and the removal of each entry. A stage is named after what is done next.
`err` is `lio_err`, `tcm_err` or an exception, `ok` a return; `Exit` ends the invocation in both
cases. `Killed` ends it anywhere: it stands for signals and for the failures the code has no cleanup
for. `alone` is an observation: nothing else has happened since the invocation began. Properties
that the code promises only to an undisturbed command are stated with it, and the state such a
command starts from may have been left by any others.

What the kernel may refuse without any state of the model to explain it is a choice, and `refused`
records it (an observation too), so that a property can say what follows from a refusal and what
does not. In `LioNode` these are `enable` (`DisableTpg`: printed only, and the portal group is taken
apart enabled), `iser` of a portal (`DisableIserFails`: an `IOError` ends the tool) and the two
attributes that `--aluasecmd` restores (`RestoreFails`). In `TcmNode` it is every write through
`tcm_write`, which hides all errors but a missing file (`Swallowed`): group identifiers, access
states and statuses, `alua_write_metadata`, registrations; and the `rmmod`s of `UnloadModules`, which
end `--unload` with an error, since a fabric may be in use without any LUN. `aptpl` says of each
saved file of registrations whether it is absent, has none (`"void"`: `ProcessAptpl` returns), or has
some (`"held"`).

A restored attribute is itself written to the saved file when the write bit is set, and the kernel
may give the other attribute of the pair a value of its own on that occasion (`SetOfflineBit`,
`SetAccess`); hence the order in which the two go back matters. `Events` in `Used` are what goes on
around the commands: kills, ports set offline, access states changed, exports, registrations that
come (`"register"`) and go (`"deregister"`), reboots.

`InitScript` has the same layout: `sh` maps each invocation to its command, its stage and the fabric
scripts its `ls` has left. It keeps `sema`, the fault file as programs see it, apart from
`semaDisk`, what of it survives a crash: `Sync` and the kernel's own `WriteBack` copy one to the
other, `GoDown` the other way. A start script is a single step that configures its part, fails, or
takes the machine down (`Panic`); which scripts do the last is arbitrary and changes only when a
script does (`ScriptsChange`). Both variants are one module, as their commands are the same up to
the steps that say `suse`: `rc.target.suse` does not sync, passes over missing scripts, ignores a
failed `modprobe`, and takes an already loaded module for success. `fatal` is an observation: a
start has died in a script, nobody has changed a script or removed the file since, and `stop` has
(`"stopped"`) or has not (`"yes"`) been called.

The sub-agent has one thread, so its models have no interleaving of its own code; what comes in
between its steps is the world. In `AuthData` that is the administrator, who may replace or remove
`/etc/sysconfig/target_auth` between any two calls: `Request` is the cache handler that calls the
load of a table, `Stat`, `StatFails`, `Open`, `OpenFails`, one action per line (`SkipLine`,
`KnownName`, `NewName`, `NullEntry`) and `LoadEnds` are `load_auth_data`, and `Return` hands the list
to its caller. `find_authId_index` calls it once per line of `tgt_auth`, so the table
`iscsiTgtAuthAttributes` may be built from several lists. `mtime`, `list`, `head`, `freed` and `next`
are the statics; the list is a function of names, with the address of its head kept apart, since
two tables compare it. `owner`, `reused` and `blind` are observations.

`MibAgent` is about one table at a time, `tab`, as tables share nothing: a behaviour chooses one and
sticks to it. A table is data (`X_table`: its index, its timeout, the lines of a record), an operator
for its load (`X_load`, from the words of a record to a row) and one for its handler; `Refresh`,
`ReadLine`, `Iterate` and the polls are the code that all tables repeat. `Change` is the kernel
writing the file of a cached table; those of polled tables change by `Create`, `Delete`, `Module`
(the kernel's module is loaded or not) and the failures and changes of status that the polls are
about. `loaded`, `lag`, `pending`, `news` and `known` are observations: what a list was made of, for
how long that has not been so, which rows a walk still owes, what no poll has seen yet, and what a
manager believes.

What configfs does is not in this repository and is modelled from how the tools use it: a directory
goes only when nothing is in it and no link points to it (`Removable...`), `mkdir -p` makes parents,
a link needs its target and its place, attributes go with what they belong to (`NewDev`,
`ForgetDev`, `FilesWith`). These definitions are marked external in `PROJECT.json`.

Deliberate simplifications, all of data or of single reads:

* a file's `isfile` test and the read after it are one step, as is `isdir` with the `makedirs` of
  the metadata directories;
* pSCSI objects get no generated serial: their `--createdev` behaves as `--establishdev` does here;
* the last registration goes as a whole (`Deregister`), in the run that restores them;
* a saved file is whole: one that a crash cut short makes the tool raise while it reads it, as
  `Killed` does, and a line that is absent leaves an attribute as it is;
* `uuid.uuid4` returns a serial in no use (`Fresh`); when a small instance has none left, the
  creation stays at that point until one is;
* `--addnp`, `--addtpg` and `--addnodeacl` have no check before the `mkdir -p` other than the one
  its guard states, and shell errors that no state explains are `Killed`;
* in `InitScript`, the loaded module and its configfs directory are one bit (`core`), what a part
  has configured is a bit per part, and `tcm_node --unload` is refused exactly when something is
  left of a fabric or, for any reason, by the module itself. `/var/lock` may or may not survive a
  reboot. The operator removes the fault file only while no script runs. The `lsmod` test of
  `start` compares `"x "` with `x` and never holds, so only the directory test counts;
  `PGM_SET_TNAME` is set nowhere and its branch cannot be taken;
* in `AuthData`, the contents of a file are read when it is opened. The enforcement bits of the
  kernel's `ips_auth` are arbitrary at each load. After a `stat` that fails, the uninitialised time
  is any value; `malloc` returns any address but that of the list that is still there. A process
  that uses memory it has freed is `undefined` and is only stopped;
* in `MibAgent`, opening, reading and closing a file of the kernel is one step, since such a file is
  made when it is read. A kind of word has two values: those that a load or handler tells apart, or
  any two. A first line that does not parse is skipped, and the lines after it are not taken for
  first ones, since none begins with a number. Time goes by five seconds for cached tables, whose timeouts are five and
  ten, and by one poll for polled ones; a poll is served before the next is due. `GetNext` stands for
  a get as well, which differs in the row it asks for. `failType` words are the sub-identifiers of the
  MIB. The tables of `ipsAuthMib.c` are loaded there from any list; the list itself, and failures of
  `malloc` while they are built, are in `AuthData`. `numFailures` has room for one instance and one
  node: a second node makes the agent `undefined`.

## Runs

| Run | Instance | Checks | States |
|---|---|---|---|
| `lio_race` | two invocations of all commands, one name of each kind, kills and refusals | `TypeOK`, `TeardownAloneSucceeds`, `RemovedIsGone`, `FailedAddPortLeavesNoLun`, `DismantledOnlyDisabled` | 3.0 M |
| `lio_single` | one invocation of the commands on LUNs, two LUNs, two statuses, ports set offline, kills | `WritersHaveDir`, `RestoredAsSaved`, `DeletedIsForgotten`, `OnlyDeletesForget`, refinement of `SavedState` | 2.5 M |
| `lio_live` | two invocations that make and remove targets and LUNs, fair, no kills | `NoLunLeftHalfBuilt`, `EveryCommandEnds` | 0.12 M |
| `lio_deliqn` | one invocation of `--addtpg`, `--unload`, `--deliqn`, two TPGs, no kills | refutes `DelIqnForgetsEndpoint` | |
| `tcm_devs` | two invocations, default group and one more, plugins that fail or raise, refusals | `TypeOK`, `TeardownAloneSucceeds`, `RemovedIsGone`, `FailedCreateLeavesNoDev` | 2.0 M |
| `tcm_restore` | one invocation, two serials, identifiers, access states and statuses, reboots, refusals | `WriterStartsFromSaved`, refinement of `SavedState`, `OnlyDeletesForget` | 1.1 M |
| `tcm_serials` | two invocations, two serials, registrations that come and go, reboots, refusals | `RestoresReservations`, `OnlyDeletesForget` | 2.3 M |
| `tcm_freedev` | one invocation | refutes `FreedIsForgotten` | |
| `init_script` | one invocation of either script, one fabric, any scripts and backups | `TypeOK`, `FaultFileGuardsScripts`, `ScriptsRunOnce`, `StoppedIsClean`, `StartIsRefused` | 1.4 M |
| `init_fault` | the same, `rc.target` | refutes `FatalNotRepeated` | |
| `auth_data` | two initiators, one portal group, two users, two addresses; four files, two edits, two seconds, one failed `malloc`, one restart; three pairs of tables | `TypeOK`, `IndexMeansOneName`, `IdentityRowsCurrent`, `SkipsOnlyCurrent`, `CrashesOnlyOnRepeat`, refinement of `AuthIndex` | 1.9 M |
| `mib_agent` | every table, with and without the cache handler; no, one or two records in seven shapes; one alias line, one failed `malloc`; two initiators, two failures per node | `TypeOK`, `WalkComplete`, `LoadTakesWholePrefix`, `EveryColumnFilled`, `ManagerKnowsStatus`, `AnswersAreRecent`, `FailuresAreTold`, `TrapsAreNews` | 0.26 M |

Bounds. Two invocations are enough for the races in question: each is between a check or a listing
of one and a change by the other, and a third does what the second can do once more. That no LUN is
left half-built, where three could each hold a part of it, is also proved, for any number. The
states of groups (`tcm_restore`) are checked with one invocation and two of everything that is saved,
the registrations (`tcm_serials`) with two invocations and without groups, since neither bears on the
other; likewise ports save their states in `lio_single` and none does in `lio_race`. The theorem that
only deletions forget is for any number of invocations in both tools. One name of each
kind is enough where the properties relate an object to its own parents, links and files; where
they relate two of a kind (LUNs of one TPG in `SavedState`, TPGs of one IQN in `--deliqn`, serials,
saved identifiers, access states and statuses) the run has two. Where two invocations differ in nothing but their
names the runs use that symmetry; `lio_live`, a liveness check, does not. The init script is run
one invocation at a time, as init does: nothing in it keeps two apart, and two take the fault file
away from each other. One fabric script beside `tcm_start.sh` and `lio_start.sh` has every case of
the loop; its three kinds of script may each be missing, harmless or deadly at any time.
Leftovers of earlier failures need no bound: the models are closed under failing, being killed and
starting again. What depends on several names at once is covered by the proofs, which bound nothing.

`auth_data`: the four files are one without entries, one that drops the initiator that got the first
index, one with both, and one that repeats a credential before a new name; two edits make every pair
of them follow each other, within one second or not. Two addresses are enough for `malloc` to put a
list where an older one was. Two tables are read in each behaviour, of which one compares addresses
and the other does not, so that each may be older than the list. Deadlock is not checked: an agent
that crashed after its last start stays down.

`mib_agent`: the shapes are files without a record,
with one of either kind of words, with two in either order of their index, with one whose first line
is bad and one whose second is, each before a good one. Two records are enough for a walk to lose
one while the other is answered, for an alias to be counted off wrongly, and for a device to be taken
for another. Failures of logins are at one node at a time (there is room for no more), each with one
of three types, of which two are notified; `Quiet` is two polls where the code has forty, and the
clock goes to two: a repetition may come within or after it. The counters of the kernel stop at two.

Fairness is assumed in `lio_live` only, as weak fairness of what a started invocation does
(`Run(c)`): system calls return and the scheduler runs every process. No command need be started or
be killed.

### What the violations show

* `lio_deliqn`: the comment in `lio_target_del_iqn` promises that an explicit `--deliqn` deletes all
  metadata directories of the endpoint. It deletes those of the portal groups configured at that
  moment. The run has neither kills nor deletions of single groups; TLC's trace is `--addtpg` of one
  group, `--unload`, which keeps the group's directory (as it should for the next start), `--addtpg`
  of another group of the same target, and `--deliqn`, which leaves the directory of the first.
* `tcm_freedev`: the comment in `tcm_freevirtdev` promises that an explicit `--freedev` deletes the
  remaining metadata. `shutil.rmtree` is called on a regular file, which raises and removes
  nothing; what follows is not run. TLC's trace is an object whose registrations were saved; that
  `os.rmdir` would not remove a directory with the files of groups is the second half of it.
* `init_fault`: the fault file says that it must be removed by hand before the next start, and a
  comment that it prevents multiple panics. `stop` removes it first thing, whoever made it, and
  `restart` stops before it starts: after a crash in a start script `restart` runs it again.
  `StartIsRefused` of `init_script` is the same promise as far as it is kept: without a `stop`.

## Proofs

For every value of the constants (any sets of names, any number of invocations):

* `LioNode_proofs!TypeCorrect`, `TcmNode_proofs!TypeCorrect`: `Spec => []TypeOK`. One lemma for
  starting, one for building, one for taking down, one step per action; each well-formedness of a
  new process record is shown field by field.
* `LioNode_proofs!OnlyDeletesForgetAlways`, `TcmNode_proofs!OnlyDeletesForgetAlways`: however
  the invocations interleave, saved state is removed by a step of an explicit deletion only. What
  the step is known by is the stage its process is at, so the invariant is that each process keeps to
  the stages of its command (`StagesOK`): the stages are shared between the commands, and a removal
  of saved state is reached through the same loops as `--unload`, which must not get there.
* `TeardownSucceeds` and `RemovalsComplete` for both tools, `LioNode_proofs!FailedAddPortRollsBack`,
  `DeletionForgets`, `DismantledAfterDisable` and `RestoresBothAttributes`,
  `TcmNode_proofs!FailedCreateRollsBack` and `ReservationsRestored`: the
  properties of a command that nothing disturbs, from any tree that other commands, failed and
  killed ones included, may have left, and whatever the kernel refuses. Their invariant is that the
  others are idle (`SolitudeOK`) and that the tree is at each stage what the process takes it to be
  (`AloneOK`), one conjunct per level of the loop nest: what a listing still holds is there, it is
  all there is, and what an inner loop has finished is gone (`IqnLevel`, `TpgLevel`, `LunLevel`,
  `NaclLevel`, `MappedLevel`, `NpLevel`; `HbaLevel`, `DevLevel`, `GroupLevel`). A removal is refused by
  the kernel where something is left below it, so that it never is follows from knowing that nothing
  is; that what is reported is done is one more conjunct at the end of each loop (`GoneLevel`,
  `DoneLevel`). `RestoreLevel` says what `--aluasecmd` has put back so far and that the file it has
  read, although the kernel may have written it since, still has the bit; `PrLevel` that reservations
  are held, or were refused. `DismantledOnlyDisabled` is an action property: the step that takes a
  part of a portal group away is at a stage after the one that disables it, or that failed to. What
  the kernel alone keeps true of the tree (no directory without parent, no link without its ends,
  `TreeOK`) is a lemma for these proofs and not a result about the tools.
* `LioNode_proofs!NoHalfBuiltLuns`, for any number of invocations and names, assuming that nothing is
  killed and no mapped LUNs are made (the proof's two assumptions on `Used`; either may leave a LUN that
  cannot be taken back). `HalfBuiltInv` relates the LUNs to the stages of all processes at once: where
  two `mkdir -p` made the same LUN, one gets its link in and the other fails and tries to roll
  back, while a third may remove the link under both; each LUN without link has a process at a
  stage from which it goes on to link or remove it, whatever the others do in between.
* `LioNode_proofs!WritersKeepDir` and `KeepsSavedState`, assuming `OneInvocation`: the kernel
  writes the metadata of a port only where there is a directory for it, and `LioNode` implements
  `SavedState`: every step is a step of it or leaves it alone. The invariant `MdInv` says that the
  directory is there from the check to the write, and that what is to be forgotten has been
  removed. The assumption is what these two need: with two invocations one may take the directory
  away between the check and the write of the other (see the hazards in `PROJECT.json`).
  `TcmNode_proofs!KeepsSavedState`, the refinement of `SavedState` by the group states, needs no such
  assumption: a file is written only by a group that exists (`OwnersOK` of `TreeOK`), and no command
  gets as far as to remove one.
* `TcmNode_proofs!WritersStartFromSaved`: an undisturbed `--addtgptgpwithmd` that is refused nothing
  lets its group write only over a file that says what the group is: identifier, access state and
  status. Where the kernel refuses one of them, `tcm_write` goes on regardless and the group writes
  over what it could not restore; the property excepts the invocation that met the refusal and
  nothing else, so refusals of earlier commands are in it. `DefaultsKept`, that the default group and
  its identifier stay, is used for it.

* `InitScript_proofs!TypeCorrect`, for any number of invocations; and, assuming `OneInvocation`,
  `ScriptsAreGuarded`, `ConfiguredOnce`, `StopIsClean` and `CrashIsNotRepeated`, one for each
  safety property of `init_script`, for any fabrics. They follow from one inductive invariant,
  `IInv`: the fault file is there from `writeSema` to `rmSema` and on disk from `sync` on
  (`FaultFileMade`), which the guard needs because the scripts come several steps later; nothing is
  configured without the module, and a start is past its first test only without it
  (`StartsFromNothing`), from which follows that what a start finds to be run is not configured;
  after a crash the file is in both places and no start is beyond `checkSema` (`FatalBlocks`),
  which is kept by reboots because the disk has the file; and a stop's later stages know what its
  earlier ones achieved (`StopMakesClean`).

* `AuthData_proofs!TypeCorrect`, `IndicesMeanOneName`, `KeepsPromise` (the refinement of `AuthIndex`)
  and `CrashesNeedRepeat`, for any names, files, addresses and bounds. The indices need more than
  `IndexMeansOneName`: the list in use, the list being built and six tables loaded at different times
  all hold indices, and nothing in the code relates them. The invariant goes through `owner`, the
  names in the order they were given indices: `next` is one more than its length, every entry and
  row is owned by its name (`IndicesOwned`, `TablesOwned`), and a name in the list being built has
  the index that it has in the one in use (`IndicesKept`), which is what the refinement needs when
  the one replaces the other. For the crash, `BuiltFromLines` says that the list being built is that of the
  lines before `pos`, and `FoundMeansRepeat` that the flag is set only when the line before
  repeated one of them.
* `AuthData_proofs!SkippedRowsCurrent`: a table of identities that was not loaded, as the head is the
  one it remembers, has the rows of the list, unless `malloc` has put a list where an older one was
  (`reused`). `RInv` adds to this that an address is null for the empty list alone (`HeadsMean`).
* `AuthData_proofs!SkippedFileCurrent`: where the time compares equal, the list is that of the file as
  it is, unless an edit fell in the second of the load, or memory failed. The invariant `CInv` says
  how the times follow each other (`TimesInOrder`), what the half-built list has of the lines read so
  far (`BuiltSoFar`), and that one time is one contents (`CurrentWhenEqual`), also while a file is
  open and its successor is written.
* `MibAgent_proofs!AnswersNotOld`: `Spec => [][GetNext /\ tab \notin Polled => lag' < Timeout(tab)]_vars`
  for every table, any shapes and any aliases. The invariant is that a valid cache has not been
  wrong for longer than its age (`LagInv`); a request for an expired one loads it, and what is loaded
  is right at that moment.
* `MibAgent_proofs!LoadsTakeWholePrefix`: what a load makes of a file are the rows of the whole records
  before the first bad one, whatever the shape of the file. A load reads line by line and keeps the
  record, its line and the rows in variables, so the proof says what these are after each line
  of each record, for any number of records and lines; `LoadInv` carries it to the requests.
* `MibAgent_proofs!WalksAreComplete`: no row that stays is skipped by a walk, and none is answered
  twice, though the list is made anew between two requests. `WalkInv` says that no two records of a
  file, and no two rows of a list, have one index (`FilesInv`, `RowOK`), which each load needs for
  itself, and that the rows a walk owes are behind the last answer (`PendingLater`).
* `MibAgent_poll_proofs!ManagerIsToldStatus`, `TrapsTellNews` and `FailuresReachManager`: after each
  poll the manager believes the status that the row of a device has, as long as there is memory, a trap tells a failure that
  no poll has seen before, and a failure that is notified is told by the next poll. `PollsInv` relates
  four things that are each changed by other code: the records of the kernel (`PolledInv`), the counters
  that the agent remembers for instances, sessions and devices (`LoginsInv`, `SessionsInv`,
  `DevicesInv`), and what the manager was told (`ManagerInv`). The kernel may change any number of
  records between two polls; one lemma (`Follows`) says what all its steps have in common. A poll
  is a fold over the records, of which each may append a trap, and the proof follows it record
  by record.
* `MibAgent_poll_proofs!TypeCorrect`: `Spec => []TypeOK`, by `TypesInv`; the type of the counters of
  failures depends on what the poll of another table has seen.
* `MibAgent_column_proofs!ColumnsFilled`, assuming `UnsetIsApart`: no column of an answer is what
  `memset` left, but for the five that the property names. The assumption says what a model
  value is to TLC: `Unset` is neither a number, nor a word of the kernel's files, an alias or a name,
  nor a function. The words of a record that the kernel makes are of the kinds of its lines
  (`RecordFits`); what each of the 27 loads stores, and each handler reads, from words that are is
  something in each column (`IscsiFilled`, `ScsiFilled`, `IpsAuthFilled`, and `NodesFilled` and
  `DevicesFilled` for the polled ones). `FilledInv` says so of the rows of the list and of the last
  answer, and of the records of polled files (`StoredFile`), which change word by word.
* `LeftFolds!FoldSteps`: a fold over a sequence has a value for each prefix, which begins with the
  base and goes by one application of the operator per element. This is an induction over the data.
  The induction theorems of the library take a predicate, which the provers cannot be given; here it
  is done for a set instead: the set of numbers where it fails would have a smallest one
  (`NatSetInduction`, from `WFMin`). The folds of `MibAgent` are used through it.

The assumptions are the named `ASSUME`s of the modules. The
kinds of names of the tools are not empty, `None` is none of the values, `Used` names commands, the
fabrics are not called `tcm` or `lio`, and `Suse` selects at least one script. In `AuthData`, files
are sequences of lines, tags are numbers and `Null` is no address. In `MibAgent`, shapes are
sequences of records and the bounds are numbers.

Only model-checked: `EveryCommandEnds`, as liveness is outside what the prover does, and what the
violation runs refute. All other properties of the passing runs are theorems.

## Plan

1. `LioNode`, `TcmNode` and `SavedState` with their proofs: done.
2. `InitScript` with its proofs: done.
3. `AuthIndex` and `AuthData` with their proofs: done.
4. `MibData`, the tables, `MibAgent` and its first theorem: done.
5. The undisturbed commands, the action properties and the refinements of `LioNode` and `TcmNode`,
   the skipped loads of `AuthData`, the loads, walks, polls and columns of `MibAgent`: proved.
6. `Fabric`, the unload of the other fabrics, would compose with `TcmNode` through `Link` and
   `Unlink`; nothing in its code says how far an unload that meets an error must get.

## Remarks on the code

What the models of the sub-agent show beside their properties, at the line concerned:

* `iscsiAuthData.c:114`: `found` is cleared before the search for a credential only. A line with a
  new name after a line that repeats a credential dereferences a null pointer (`NullEntry`);
  `CrashesOnlyOnRepeat` says that nothing else does.
* `iscsiAuthData.c:116-128`: when `stat` fails the list is freed but still pointed to, and the time
  compared is uninitialised. Every further use of the list is of freed memory (`UseFreed`).
* `iscsiAuthData.c:128`: an edit in the second of the last load is not seen (`blind`).
* `iscsiAuthData.c:171`: a list that was cut short by `malloc` is taken for the whole file until the
  file is changed. The tables have no such memory but the two of identities, which compare heads.
* `ipsAuthMib.c:868`: the index of a credential is its portal group's tag plus one, so two users of
  one portal group have one index (`LIO-IPS-AUTH-MIB.txt:553` asks for a unique one).
* `iscsiMib.c:2412` and `2444`: the row pointer to the identity lacks the instance, the first index of that
  table. The model has it as the code makes it.
* `iscsiMib.c:1769`: the counters are updated without the test of the indices at 1759.
* `iscsiMib.c:1765`: a failure that is notified is not, when another of a kind that is not follows
  before the poll: only the last failure is in the file. `FailuresAreTold` is about the last one.
* `iscsiMib.c:1473`: polls every three seconds allow four notifications in ten seconds, of
  alternating initiators; `LIO-ISCSI-MIB.txt:2579-2584` recommends at most three.
* `iscsiMib.c:859`: the secondary data digest is taken from the words of the header digest.
* `iscsiMib.c:310`, and wherever a record has several lines: one that does not parse ends the load,
  so all later records are missing, where a bad first line costs one (`LoadTakesWholePrefix`).
* Never stored: `scsiLuInResets` and `scsiLuOutTaskSetFullStatus`, and the types of addresses that
  are not IPv4 (`EveryColumnFilled` lists them).

## Not modelled

* `tcm_dump.py`, `lio_dump.py`: they print the commands that make what they read. What is right about
  them is the text they print.
* `tcm_fabric.py`, `tcm_loop.py`: removal loops like those of `lio_node` over other modules, without
  saved state; their links are in `TcmNode`.
* The attribute and CHAP setters and all list and show commands of the tools: a single write, or
  none.
* What the plugins format and parse.
* `iscsi_name.c` and `md5.c`: a sequential formatter around a hash of time and random bytes.
* The message that logs the version of the sub-agent; `autoconfig`, packaging, and the MIB texts.
