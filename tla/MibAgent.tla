------------------------------ MODULE MibAgent -------------------------------
(***************************************************************************)
(* The tables of the SNMP sub-agent at work: the kernel writes files, the  *)
(* agent loads them into lists when a request finds them too old, or when  *)
(* an alarm polls them every three seconds, and a manager walks the lists  *)
(* and is sent notifications.  Tables share nothing, so a behaviour is     *)
(* about one, "tab".                                                       *)
(*                                                                         *)
(* A file is as the kernel left it at some moment: the agent opens, reads  *)
(* and closes it in one go.  Time goes by in steps of five seconds for the *)
(* tables that are cached, and of three for those that are polled.         *)
(***************************************************************************)
EXTENDS IscsiMib, ScsiMib, IpsAuthMib, FiniteSets, SequencesExt

CONSTANTS
    None,
    Shapes,     \* what a file may say: sequences of [last, variant, bad]
    Aliases,    \* the lines of /etc/iscsi.alias
    Initiator,  \* names of initiators
    Quiet,      \* polls within which a failure is not told again: 40
    MaxTime, MaxFails,   \* bounds of the clock and of the kernel's counters
    MaxFailures          \* bound of the calls of malloc that fail

SsnFailure == "iscsiInstSessionFailure"   \* not a table, but polled like one
TgtAttr    == "iscsiTargetAttributes"
TgtDev     == "scsiTgtDevTable"

Polled == {SsnFailure, TgtAttr, TgtDev}
Tables == init_iscsiMib \cup init_scsiMib \cup init_ipsAuthMib \cup {SsnFailure}

ASSUME AgentAssumption ==
    /\ \A s \in Shapes : s \in Seq([last : {1, 2}, variant : {1, 2}, bad : 0 .. 4])
    /\ Quiet \in Nat \ {0}
    /\ {MaxTime, MaxFails, MaxFailures} \subseteq Nat

-----------------------------------------------------------------------------
(* Tables and the records of their files *)

\* The poll for failed sessions reads the file of the instances.
Table(t) ==
    CASE t \in init_iscsiMib -> Iscsi_table[t]
      [] t \in init_scsiMib -> Scsi_table[t]
      [] t \in init_ipsAuthMib -> IpsAuth_table[t]
      [] t = SsnFailure -> iscsiInstAttributes_table

Load(t, k) ==
    CASE t \in init_iscsiMib -> Iscsi_load(t, k)
      [] t \in init_scsiMib -> Scsi_load(t, k)
      [] t \in init_ipsAuthMib -> IpsAuth_load(t, k)

Handler(t, row, c) ==
    CASE t \in init_iscsiMib -> Iscsi_handler(t, row, c)
      [] t \in init_scsiMib -> Scsi_handler(t, row, c)
      [] t \in init_ipsAuthMib -> IpsAuth_handler(t, row, c)

Columns(t) == Table(t).columns
Index(t, row) == [i \in DOMAIN Table(t).index |-> row[Table(t).index[i]]]

\* How many of the words of a record name it.
Keys(t) == Cardinality({i \in DOMAIN Table(t).line : Table(t).line[i] = Key})
KeyOf(t, r) == SubSeq(r.words, 1, Keys(t))

\* The record of table t that a shape stands for: names differ in their last word, the
\* other words are all of one variant.
Record(t, s) ==
    [words |-> [i \in DOMAIN Table(t).line |->
                  IF i < Keys(t) THEN 1
                  ELSE IF i = Keys(t) THEN s.last ELSE Table(t).line[i][s.variant]],
     bad |-> s.bad]

\* The lines of a record are numbered from zero; "bad" is one more than the number of the
\* line that does not have its words, or zero.  The entries of the list of identities have
\* no lines: a bad one is a credential that is not enforced, and so not seen.
WorstLine(t) ==
    IF t \notin init_ipsAuthMib THEN Table(t).more + 1
    ELSE IF t = "ipsAuthCredChapAttr" THEN 1 ELSE 0

Contents(t) ==
    LET shapes == {s \in Shapes : \A i \in DOMAIN s : s[i].bad <= WorstLine(t)}
        files  == {[i \in DOMAIN s |-> Record(t, s[i])] : s \in shapes}
    IN  IF t = "ipsAuthInstAttr" THEN {f \in files : Len(f) = 1}
        ELSE IF t \in init_ipsAuthMib THEN files ELSE files \cup {None}

Lines(t, f) ==
    FlattenSeq([i \in DOMAIN f |->
        [n \in 1 .. Table(t).more + 1 |-> [record |-> f[i], number |-> n - 1]]])

\* What a load has so far: the rows, how many records it met, which line it expects next.
Nothing == [rows |-> {}, met |-> 0, expects |-> 0, stopped |-> FALSE]

\* A record takes the next line of the aliases, if the table has them and there is one.
AliasOf(t, n) ==
    IF ~Table(t).alias THEN <<>> ELSE IF n < Len(Aliases) THEN <<Aliases[n + 1]>> ELSE <<"">>

\* The row of a record whose lines were all read, the last of "full" that there is memory for.
AddRow(t, acc, r, full) ==
    IF acc.met = full THEN [acc EXCEPT !.stopped = TRUE]
    ELSE [acc EXCEPT !.rows = @ \cup {Load(t, r.words \o AliasOf(t, acc.met))},
                     !.met = @ + 1, !.expects = 0]

\* Mutant: a bad line in the middle of a record only costs that record.
ReadLineGoingOn(t, acc, l, full) ==
    LET parses == l.number = acc.expects /\ l.record.bad # l.number + 1
    IN  IF acc.stopped \/ (acc.expects = 0 /\ ~parses) THEN acc
        ELSE IF ~parses THEN [acc EXCEPT !.expects = 0]
        ELSE IF l.number = Table(t).more THEN AddRow(t, acc, l.record, full)
        ELSE [acc EXCEPT !.expects = @ + 1]

\* A first line that does not parse is skipped, any other ends the load.
ReadLine(t, acc, l, full) ==
    LET parses == l.number = acc.expects /\ l.record.bad # l.number + 1
    IN  IF acc.stopped \/ (acc.expects = 0 /\ ~parses) THEN acc
        ELSE IF ~parses THEN [acc EXCEPT !.stopped = TRUE]
        ELSE IF l.number = Table(t).more THEN AddRow(t, acc, l.record, full)
        ELSE [acc EXCEPT !.expects = @ + 1]

RowsOf(t, f, full) ==
    LET Read(acc, l) == ReadLine(t, acc, l, full)
    IN  FoldLeft(Read, Nothing, Lines(t, f)).rows

-----------------------------------------------------------------------------
VARIABLES
    tab,       \* the table that this behaviour is about
    handler,   \* HAVE_CACHE_HANDLER: net-snmp caches the tables, or they do it themselves
    file,      \* what the file says, None when the kernel's module is not there
    clock,     \* only for the times of failures
    failures,  \* the calls of malloc that failed
    \* the agent
    agent,
    list,      \* the rows that the head of the table leads to
    valid,     \* the cache is valid; without the handler, its marker is set
    age,       \* seconds since that was loaded; of a polled table, the polls that are due
    numFailures, lastTrap, ssnFailureData,
    \* the manager
    answer,    \* the last answer: the row it was about and the columns that it had nothing for,
               \* with an empty index before the first row and after the last
    sent,      \* the notifications of the last poll, until time goes by
    told,      \* the login failures it was notified of
    \* history
    loaded,    \* what the file of a cached table said when the list was made
    lag,       \* for how many seconds it has said something else
    pending,   \* the rows that were there at every request of this walk and not answered yet
    news,      \* what happened to a record since a poll last saw it
    known      \* the status of a device that the manager was told last, or found first

kernel == <<file, clock>>
statics == <<list, valid, age, numFailures, lastTrap, ssnFailureData>>
walk == <<answer, pending>>
notified == <<sent, told, known>>
vars == <<tab, handler, kernel, failures, agent, statics, walk, notified, loaded, lag, news>>

NoAnswer == [index |-> <<>>, unfilled |-> {}]
NoTrap   == [key |-> <<>>, name |-> None, type |-> 0, time |-> 0]
NoStatus == [k \in {} |-> 0]

\* The counters kept of failed logins have room for one instance and one node.
numFailures_indices == {<<1, 1>>}

\* The record of the first or second of what a polled table is about, as it is made.
Fresh(t, i) ==
    LET r == Record(t, [last |-> i, variant |-> 1, bad |-> 0])
    IN  CASE t = TgtAttr ->
               [r EXCEPT !.words[3] = 0, !.words[4] = 0, !.words[5] = 0, !.words[6] = None]
          [] t = SsnFailure -> [r EXCEPT !.words[7] = 0, !.words[8] = 0, !.words[9] = None]
          [] OTHER -> r

PolledKeys(t) == {KeyOf(t, Fresh(t, i)) : i \in {1, 2}}

Init ==
    /\ tab \in Tables
    /\ handler \in IF tab \in Polled THEN {TRUE} ELSE BOOLEAN
    /\ file \in IF tab \in Polled THEN {None, <<>>} ELSE Contents(tab)
    /\ clock = 0 /\ failures = 0
    /\ agent = "down"
    /\ list = {} /\ valid = FALSE /\ age = 0
    /\ numFailures = [k \in numFailures_indices |-> 0]
    /\ lastTrap = NoTrap /\ ssnFailureData = 0
    /\ answer = NoAnswer /\ sent = {} /\ told = {}
    /\ loaded = None /\ lag = 0 /\ pending = {}
    /\ news = [k \in IF tab \in Polled THEN PolledKeys(tab) ELSE {} |-> "reset"]
    /\ known = NoStatus

-----------------------------------------------------------------------------
(* The kernel, for as long as the agent is defined *)

Writes(f) ==
    /\ agent # "undefined"
    /\ file' = f
    /\ lag' = IF f = loaded THEN 0 ELSE lag
    /\ UNCHANGED <<tab, handler, failures, agent, statics, walk, notified, loaded, clock>>

Change ==
    /\ tab \notin Polled
    /\ \E f \in Contents(tab) \ {file} : Writes(f)
    /\ UNCHANGED news

\* The module goes, with all that its files were about, or comes.
Module ==
    /\ tab \in Polled
    /\ Writes(IF file = None THEN <<>> ELSE None)
    /\ news' = [k \in DOMAIN news |-> "reset"]

Has(k) == file # None /\ \E j \in DOMAIN file : KeyOf(tab, file[j]) = k

\* A node, a device or the instance is made or removed.
Create(i) ==
    LET r == Fresh(tab, i)
    IN  /\ tab \in Polled /\ file # None /\ ~Has(KeyOf(tab, r))
        /\ tab = SsnFailure => i = 1
        /\ Writes(Append(file, r))
        /\ news' = [news EXCEPT ![KeyOf(tab, r)] = "reset"]

Delete(i) ==
    LET k == KeyOf(tab, Fresh(tab, i))
    IN  /\ tab \in Polled /\ file # None
        /\ \E j \in DOMAIN file : KeyOf(tab, file[j]) = k /\ Writes(RemoveAt(file, j))
        /\ news' = [news EXCEPT ![k] = "reset"]

\* Something happens to the record with number j.
Happens(j, words) ==
    /\ Writes([file EXCEPT ![j].words = words])
    /\ news' = [news EXCEPT ![KeyOf(tab, file[j])] =
                  IF @ \in {"seen", "new"} THEN "new" ELSE "newAfterReset"]

\* MaxFails bounds the count of a node, and no two nodes have one.
LoginFails(j, n, type) ==
    /\ tab = TgtAttr /\ file # None /\ j \in DOMAIN file
    /\ file[j].words[3] < MaxFails
    /\ \A i \in DOMAIN file \ {j} : file[i].words[3] = 0
    /\ Happens(j, [file[j].words EXCEPT ![3] = @ + 1, ![4] = clock, ![5] = type, ![6] = n])

SessionFails(j, n, type) ==
    /\ tab = SsnFailure /\ file # None /\ j \in DOMAIN file
    /\ file[j].words[7] < MaxFails
    /\ Happens(j, [file[j].words EXCEPT ![7] = @ + 1, ![8] = type, ![9] = n])

StatusChanges(j) ==
    /\ tab = TgtDev /\ file # None /\ j \in DOMAIN file
    /\ \E w \in {DevStatus[1], DevStatus[2]} \ {file[j].words[4]} :
         Happens(j, [file[j].words EXCEPT ![4] = w])

-----------------------------------------------------------------------------
(* The agent *)

Statics(l, v, a) == list' = l /\ valid' = v /\ age' = a

\* A process that ends forgets everything.
Stop ==
    /\ agent # "down"
    /\ agent' = "down"
    /\ Statics({}, FALSE, 0)
    /\ numFailures' = [k \in numFailures_indices |-> 0]
    /\ lastTrap' = NoTrap /\ ssnFailureData' = 0
    /\ sent' = {} /\ told' = {} /\ known' = NoStatus
    /\ loaded' = None /\ lag' = 0
    /\ UNCHANGED <<tab, handler, kernel, failures, walk, news>>

\* The loads that may come of a file: the rows there is memory for, all or the first few.
\* AuthData has the failures of malloc in the tables of ipsAuthMib.
Loads(t, f) ==
    {RowsOf(t, f, full) :
       full \in IF failures < MaxFailures /\ t \notin init_ipsAuthMib THEN 0 .. Len(f)
                ELSE {Len(f)}}

Timeout(t) == Table(t).timeout

\* Mutant: the time of the last request is kept instead of that of the last load.
RefreshMarksRequests ==
    IF valid /\ age < Timeout(tab)
    THEN age' = 0 /\ UNCHANGED <<list, valid, failures, loaded, lag>>
    ELSE /\ age' = 0 /\ loaded' = file /\ lag' = 0
         /\ valid' = (file # None \/ ~handler)
         /\ IF file = None THEN list' = {} /\ UNCHANGED failures
            ELSE /\ list' \in Loads(tab, file)
                 /\ failures' = failures + IF list' = RowsOf(tab, file, Len(file)) THEN 0 ELSE 1

\* Before a request is answered.  The list is freed in any case; a load that does not find
\* its file is tried again at the next request, but not before the timeout when the table
\* keeps the marker itself.
Refresh ==
    IF valid /\ age < Timeout(tab)
    THEN UNCHANGED <<list, valid, age, failures, loaded, lag>>
    ELSE /\ age' = 0 /\ loaded' = file /\ lag' = 0
         /\ valid' = (file # None \/ ~handler)
         /\ IF file = None THEN list' = {} /\ UNCHANGED failures
            ELSE /\ list' \in Loads(tab, file)
                 /\ failures' = failures + IF list' = RowsOf(tab, file, Len(file)) THEN 0 ELSE 1

\* net-snmp gives expired caches back from time to time; three tables do not let it.
Release ==
    /\ agent = "up" /\ tab \notin Polled
    /\ handler /\ valid /\ age >= Timeout(tab)
    /\ list' = IF tab \in {"ipsAuthInstAttr", "ipsAuthIdentAttr", "ipsAuthIdentNameAttr"}
               THEN list ELSE {}
    /\ valid' = FALSE
    /\ UNCHANGED <<tab, handler, kernel, failures, agent, age, numFailures, lastTrap,
                   ssnFailureData, walk, notified, loaded, lag, news>>

\* The order of indices.
Less(a, b) ==
    \E i \in DOMAIN b :
      /\ \A j \in 1 .. i - 1 : j <= Len(a) /\ a[j] = b[j]
      /\ i > Len(a) \/ a[i] < b[i]

\* What tells the rows of a table apart, as the MIBs have it.
IndexObjects ==
    {"iscsiInstIndex", "iscsiPortalIndex", "iscsiTgtPortalNodeIndexOrZero", "iscsiNodeIndex",
     "iscsiTgtAuthIndex", "iscsiSsnNodeIndex", "iscsiSsnIndex", "iscsiCxnIndex",
     "scsiInstIndex", "scsiDeviceIndex", "scsiPortIndex", "scsiTransportIndex",
     "scsiAuthIntrTgtPortIndex", "scsiAuthIntrIndex", "scsiAttIntrPortIndex", "scsiLuIndex",
     "ipsAuthInstIndex", "ipsAuthIdentIndex", "ipsAuthIdentNameIndex", "ipsAuthCredIndex"}
Id(row) == [o \in IndexObjects \cap DOMAIN row |-> row[o]]

\* The iterator finds the row with the next index, whatever the order of the list.
Iterate(rows) ==
    LET later == {r \in rows : Less(answer.index, Index(tab, r))}
        here  == {Id(r) : r \in rows}
        there == IF answer.index = <<>> THEN here ELSE pending \cap here
    IN  \/ /\ later = {}
           /\ answer' = NoAnswer /\ pending' = there
        \/ \E r \in later :
             /\ \A o \in later : ~Less(Index(tab, o), Index(tab, r))
             /\ answer' = [index |-> Index(tab, r),
                           unfilled |-> {Columns(tab)[c] :
                                           c \in {c \in DOMAIN Columns(tab) : Handler(tab, r, c) = Unset}}]
             /\ pending' = there \ {Id(r)}

\* A request for what comes after the last answer.
GetNext ==
    /\ agent = "up" /\ tab # SsnFailure
    /\ IF tab \in Polled THEN UNCHANGED <<list, valid, age, failures, loaded, lag>> ELSE Refresh
    /\ Iterate(list')
    /\ UNCHANGED <<tab, handler, kernel, agent, numFailures, lastTrap, ssnFailureData, notified,
                   news>>

-----------------------------------------------------------------------------
(* The alarms.  A poll hears with "clientreg" # 0, the load at the start does not. *)

SeesThose(ks) ==
    news' = [k \in DOMAIN news |-> IF k \in ks THEN "seen" ELSE news[k]]

Notifiable == {4, 5, 6}   \* ISCSI_LOGIN_FAIL_AUTHORIZE, _AUTHENTICATE and _NEGOTIATE

\* Two failures that are told once.
SameTrap(t, u) == t.name = u.name /\ t.type = u.type /\ t.time - u.time < Quiet

LoginTrap(r) ==
    [key |-> KeyOf(TgtAttr, r), name |-> r.words[6], type |-> r.words[5], time |-> r.words[4]]

Tells(acc, r, clientreg) ==
    LET t == LoginTrap(r)
    IN  /\ r.words[3] > acc.numFailures[t.key]
        /\ clientreg /\ t.type \in Notifiable
        /\ ~SameTrap(t, acc.lastTrap)

Noted(acc, r, tells, count) ==
    LET t == LoginTrap(r)
    IN  [acc EXCEPT !.numFailures[t.key] = count,
                    !.lastTrap = IF tells THEN t ELSE @,
                    !.sent = IF tells THEN @ \cup {t} ELSE @]

\* Mutant: a count that fell is not written down.
NoteRisingFailures(acc, r, clientreg) ==
    Noted(acc, r, Tells(acc, r, clientreg),
          LET n == acc.numFailures[KeyOf(TgtAttr, r)] IN IF n < r.words[3] THEN r.words[3] ELSE n)

\* Mutant: the load at the start leaves the counts to the first poll.
NoteFailuresOfPolls(acc, r, clientreg) ==
    IF ~clientreg THEN acc ELSE Noted(acc, r, Tells(acc, r, clientreg), r.words[3])

NoteFailures(acc, r, clientreg) == Noted(acc, r, Tells(acc, r, clientreg), r.words[3])

ReadFailures(acc, r, clientreg) ==
    IF ~acc.inBounds \/ KeyOf(TgtAttr, r) \notin numFailures_indices
    THEN [acc EXCEPT !.inBounds = FALSE]
    ELSE NoteFailures(acc, r, clientreg)

\* A notification goes out before there turns out to be no memory for the row.  A node that
\* numFailures has no room for leaves the agent undefined, and is not followed further.
PollTargetAttributes(clientreg, full) ==
    LET recs == IF file = None THEN <<>> ELSE file
        read == SubSeq(recs, 1, IF full < Len(recs) THEN full + 1 ELSE full)
        Read(acc, r) == ReadFailures(acc, r, clientreg)
        end  == FoldLeft(Read, [numFailures |-> numFailures, lastTrap |-> lastTrap, sent |-> {},
                                inBounds |-> TRUE], read)
    IN  /\ agent' = IF end.inBounds THEN "up" ELSE "undefined"
        /\ numFailures' = end.numFailures /\ lastTrap' = end.lastTrap
        /\ list' = RowsOf(TgtAttr, recs, full)
        /\ sent' = end.sent /\ told' = told \cup end.sent
        /\ SeesThose({KeyOf(TgtAttr, read[j]) : j \in DOMAIN read})
        /\ UNCHANGED <<ssnFailureData, known>>

\* Only the first line is read, and no list is made.
PollSessionFailure(clientreg) ==
    /\ IF file = None \/ file = <<>> THEN sent' = {} /\ UNCHANGED <<ssnFailureData, news>>
       ELSE LET r == file[1]
                t == [key |-> KeyOf(SsnFailure, r), name |-> r.words[9], type |-> r.words[8],
                      failures |-> r.words[7]]
            IN  /\ ssnFailureData' = t.failures
                /\ sent' = IF t.failures # ssnFailureData /\ clientreg /\ t.failures # 0
                           THEN {t} ELSE {}
                /\ SeesThose({t.key})
    /\ agent' = "up"
    /\ UNCHANGED <<list, numFailures, lastTrap, told, known>>

\* Mutant: the old table is freed before it is searched.
ChangedInFreedTable(old, r) == FALSE

\* Whether the status of a device is not what it was in the old table.
ChangedStatus(old, r) ==
    LET row == Load(TgtDev, r.words)
    IN  \E o \in old : /\ Id(o) = Id(row)
                       /\ o.scsiTgtDeviceStatus # row.scsiTgtDeviceStatus

PollTgtDev(full) ==
    LET recs == IF file = None THEN <<>> ELSE file
        read == SubSeq(recs, 1, IF full < Len(recs) THEN full + 1 ELSE full)
        StatusOf(r) == DevStatusOf(r.words[4])
        changed == {j \in DOMAIN read : ChangedStatus(list, read[j])}
    IN  /\ list' = RowsOf(TgtDev, recs, full)
        /\ sent' = {[key |-> KeyOf(TgtDev, read[j]), status |-> StatusOf(read[j])] : j \in changed}
        /\ known' = [k \in {KeyOf(TgtDev, recs[j]) : j \in DOMAIN recs} |->
             LET r == recs[CHOOSE j \in DOMAIN recs : KeyOf(TgtDev, recs[j]) = k]
             IN  IF k \in DOMAIN known /\ \A t \in sent' : t.key # k THEN known[k]
                 ELSE StatusOf(r)]
        /\ SeesThose({KeyOf(TgtDev, read[j]) : j \in DOMAIN read})
        /\ agent' = "up"
        /\ UNCHANGED <<numFailures, lastTrap, ssnFailureData, told>>

PollLoad(clientreg) ==
    /\ \E full \in IF file = None THEN {0}
                    ELSE IF failures < MaxFailures /\ tab # SsnFailure THEN 0 .. Len(file)
                    ELSE {Len(file)} :
         /\ \/ tab = TgtAttr /\ PollTargetAttributes(clientreg, full)
            \/ tab = SsnFailure /\ PollSessionFailure(clientreg)
            \/ tab = TgtDev /\ PollTgtDev(full)
         /\ failures' = failures + IF file # None /\ full < Len(file) THEN 1 ELSE 0
    /\ age' = 0
    /\ UNCHANGED <<tab, handler, kernel, walk, valid, loaded, lag>>

\* init_iscsiTargetMib: the tables are registered, and those that are polled loaded.
Start ==
    /\ agent = "down"
    /\ IF tab \in Polled THEN PollLoad(FALSE)
       ELSE /\ agent' = "up"
            /\ UNCHANGED <<tab, handler, kernel, failures, statics, walk, notified, loaded, lag,
                           news>>

Poll == agent = "up" /\ tab \in Polled /\ age = 1 /\ PollLoad(TRUE)

\* Time goes by.  An alarm that is due is served before the next one: the agent does nothing
\* that takes seconds.
AtMost(bound, n) == IF n < bound THEN n ELSE bound

Tick ==
    /\ agent # "undefined"
    /\ IF tab \in Polled
       THEN /\ agent = "up" => age = 0
            /\ age' = IF agent = "up" THEN 1 ELSE 0
            /\ UNCHANGED lag
       ELSE /\ age' = IF valid THEN AtMost(10, age + 5) ELSE 0
            /\ lag' = IF file = loaded THEN 0 ELSE AtMost(10, lag + 5)
    /\ IF tab = TgtAttr THEN clock < MaxTime /\ clock' = clock + 1 ELSE UNCHANGED clock
    /\ sent' = {}
    /\ UNCHANGED <<tab, handler, file, failures, agent, list, valid, numFailures, lastTrap,
                   ssnFailureData, walk, told, known, loaded, news>>

Next ==
    \/ Change \/ Module
    \/ \E i \in {1, 2} : Create(i) \/ Delete(i)
    \/ \E j \in {1, 2} : StatusChanges(j)
    \/ \E j \in {1, 2}, n \in Initiator, type \in {2, 4, 5} : LoginFails(j, n, type)
    \/ \E j \in {1, 2}, n \in Initiator, type \in {2, 4} : SessionFails(j, n, type)
    \/ Tick \/ Start \/ Stop \/ Poll \/ Release \/ GetNext

Spec == Init /\ [][Next]_vars

-----------------------------------------------------------------------------
(* Properties *)

\* The rows have the fields that the load gives them, the cache has no more than its file,
\* and a status that was told is one of those that the MIB has.
TypeOK ==
    /\ tab \in Tables /\ agent \in {"down", "up", "undefined"}
    /\ file = None \/ \A j \in DOMAIN file : Len(file[j].words) = Len(Table(tab).line)
    /\ clock \in 0 .. MaxTime /\ failures \in 0 .. MaxFailures
    /\ age \in 0 .. 10 /\ lag \in 0 .. 10 /\ valid \in BOOLEAN
    /\ tab \notin Polled => 
         list = {} \/ (loaded # None /\ Cardinality(list) <= Len(loaded))
    /\ \A k \in numFailures_indices : numFailures[k] \in 0 .. MaxFails
    /\ \A k \in DOMAIN known : known[k] \in 1 .. 8
    /\ \A k \in DOMAIN news : news[k] \in {"reset", "new", "newAfterReset", "seen"}

\* A walk, one request after another while the list is loaded anew, freed and released under
\* it, answers with every row that was there at all of its requests.
WalkComplete == answer.index = <<>> => pending = {}

\* An answer from a cached table never says what was no longer so a timeout ago.
AnswersAreRecent == [][GetNext /\ tab \notin Polled => lag' < Timeout(tab)]_vars

\* The rows are those of the file, up to the first record that breaks off in its middle: such
\* a line costs all the records after it, whereas one that does not begin well costs itself
\* only.  Records are counted off against the aliases in this order.
LoadTakesWholePrefix ==
    valid /\ failures = 0 =>
      LET recs == IF loaded = None THEN <<>> ELSE loaded
          read == {j \in DOMAIN recs : recs[j].bad = 0 /\ \A i \in 1 .. j : recs[i].bad <= 1}
          Before(j) == Cardinality({i \in read : i < j})
      IN  list = {Load(tab, recs[j].words \o AliasOf(tab, Before(j))) : j \in read}

\* No column of an answer is what memset left, but for the two counters of logical units that
\* the kernel has no word for, and the type of an address that is not IPv4, where zero is
\* "unknown".
EveryColumnFilled ==
    answer.unfilled \subseteq
      {"scsiLuInResets", "scsiLuOutTaskSetFullStatus",
       "iscsiPortalAddrType", "iscsiTgtLastIntrFailureAddrType", "iscsiCxnAddrType"}

\* A failure since the last poll is told by the next one: a session's always, a login's when it
\* is of a kind that is told, and if not now then as one that was, of the same initiator and
\* kind and not long ago.  The counts of a node that was made anew start from what is there.
FailuresAreTold ==
    [][\A j \in DOMAIN news :
         /\ Poll /\ agent' = "up" /\ news[j] = "new" /\ news'[j] = "seen"
         => LET r == file[CHOOSE i \in DOMAIN file : KeyOf(tab, file[i]) = j]
            IN  /\ tab = SsnFailure =>
                     \E t \in sent' : /\ t.failures = r.words[7] /\ t.type = r.words[8]
                                     /\ t.name = r.words[9]
                /\ tab = TgtAttr /\ r.words[5] \in Notifiable =>
                     \E t \in told' : SameTrap(LoginTrap(r), t)]_vars

\* A notification is about something that happened since a poll last saw what it is about: a
\* failure is not told twice, nor one of before the agent was restarted.
TrapsAreNews == [][Poll => \A t \in sent' : news[t.key] # "seen"]_vars

\* The last notification about a device, or else what was found at first, is its status.
ManagerKnowsStatus ==
    tab = TgtDev /\ failures = 0 =>
      \A row \in list : LET k == Index(TgtDev, row)
                        IN  k \in DOMAIN known /\ known[k] = row.scsiTgtDeviceStatus
=============================================================================
