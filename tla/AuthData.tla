------------------------------ MODULE AuthData ------------------------------
(***************************************************************************)
(* The authentication data of the SNMP sub-agent: the list of identities   *)
(* and credentials that iscsiAuthData.c keeps of /etc/sysconfig/target_auth*)
(* and the tables built from it, the five of ipsAuthMib.c and              *)
(* iscsiTgtAuthAttributes of iscsiMib.c.                                   *)
(*                                                                         *)
(* The agent has one thread, but an administrator replaces or removes the  *)
(* file between any two of its calls, so load_auth_data is taken apart at  *)
(* its stat, its fopen and its lines.  The kernel's files, which are only  *)
(* read, have any contents whenever they are.                              *)
(* A list is a function of names, since the order of its entries is only   *)
(* seen in the address of its head, which the tables compare.  An agent    *)
(* that used memory it had freed is not followed any further.              *)
(***************************************************************************)
EXTENDS Naturals, Sequences, FiniteSets

CONSTANTS
    Name,        \* names of initiators
    Tpgt,        \* tags of portal groups, numbers
    User,        \* CHAP user names; a quoted one is the empty name
    Skipped,     \* a line that is a comment or does not parse
    Files,       \* what the administrator writes into the file
    Watches,     \* the sets of tables a manager may read
    Addr, Null,  \* where malloc may put the entry at the head of a list
    MaxTime, MaxEdits, MaxStarts, \* bounds of the administrator's steps, ...
    MaxFailures                   \* ... and of the calls of malloc that fail

Line == [name : Name, tpgt : Tpgt, user : User]

Caller == {"ident", "idName", "cred", "chap", "tgtAuth"}

ASSUME DataAssumption ==
    /\ Watches \subseteq SUBSET Caller
    /\ Skipped \notin Line
    /\ Files \subseteq Seq(Line \cup {Skipped})
    /\ Tpgt \subseteq Nat
    /\ Null \notin Addr
    /\ MaxTime \in Nat \ {0} /\ {MaxEdits, MaxStarts, MaxFailures} \subseteq Nat

VARIABLES
    \* the machine
    file,      \* /etc/sysconfig/target_auth
    clock,     \* seconds, as fine as modification times are
    edits, starts,
    watched,   \* the tables a manager reads
    failures,  \* the calls of malloc that failed
    \* the statics of iscsiAuthData.c
    mtime,     \* auth_conf_mtime
    list,      \* the entries of authId_list, ...
    head,      \* ... where the pointer points to, ...
    freed,     \* ... and whether that memory has been given back
    next,      \* authIdIndex
    \* the locals of load_auth_data
    pc, caller, sbuf, conf, pos, tmp, found,
    \* the tables, and the prev_authId_head of two of them
    ident, identPrev, idName, idNamePrev, cred, chap, tgtAuth,
    intrs,     \* the lines of tgt_auth that are still to be looked up
    \* history
    owner,     \* whom each index was given to
    reused,    \* malloc returned an address that a table still compares with
    blind      \* two contents of the file went under one time, or the time is garbage

admin  == <<file, clock, edits, starts, watched>>
statics == <<mtime, list, head, freed, next>>
locals == <<pc, caller, sbuf, conf, pos, tmp, found>>
tables == <<ident, identPrev, idName, idNamePrev, cred, chap, tgtAuth, intrs>>
history == <<owner, reused, blind>>
vars == <<admin, failures, statics, locals, tables, history>>

Empty == [n \in {} |-> 0]

Cred   == Tpgt \X User

\* L is a list: names with their indices and credentials, each enforced or not.
IsList(L) ==
    /\ L = [n \in DOMAIN L |-> [index |-> L[n].index, creds |-> L[n].creds]]
    /\ DOMAIN L \subseteq Name
    /\ \A n \in DOMAIN L :
         /\ L[n].index \in Nat \ {0}
         /\ DOMAIN L[n].creds \subseteq Cred
         /\ L[n].creds \in [DOMAIN L[n].creds -> BOOLEAN]

TypeOK ==
    /\ file \in [here : BOOLEAN, mtime : Nat, lines : Files \cup {<<>>}]
    /\ watched \in Watches
    /\ clock \in Nat /\ edits \in Nat /\ starts \in Nat /\ failures \in Nat
    /\ mtime \in Nat /\ IsList(list) /\ head \in Addr \cup {Null}
    /\ freed \in BOOLEAN /\ next \in Nat \ {0}
    /\ pc \in {"idle", "stat", "open", "lines", "down", "crashed", "undefined"}
    /\ caller \in Caller
    /\ sbuf \in Nat /\ conf \in Files \cup {<<>>} /\ pos \in Nat \ {0}
    /\ IsList(tmp) /\ found \in BOOLEAN
    /\ ident \subseteq [index : Nat, descr : Name]
    /\ idName \subseteq [index : Nat, name : Name]
    /\ cred \subseteq [index : Nat, cred : Nat, chap : BOOLEAN]
    /\ chap \subseteq [index : Nat, cred : Nat, user : User]
    /\ tgtAuth \subseteq [intr : Name, identity : Nat]
    /\ identPrev \in Addr \cup {Null} /\ idNamePrev \in Addr \cup {Null}
    /\ intrs \subseteq Name
    /\ owner \in Seq(Name) /\ reused \in BOOLEAN /\ blind \in BOOLEAN

Init ==
    /\ file = [here |-> FALSE, mtime |-> 0, lines |-> <<>>]
    /\ watched \in Watches
    /\ clock = 1 /\ edits = 0 /\ starts = 0 /\ failures = 0
    /\ pc = "idle"
    /\ mtime = 0 /\ list = Empty /\ head = Null /\ freed = FALSE /\ next = 1
    /\ caller = "ident" /\ sbuf = 0 /\ conf = <<>> /\ pos = 1 /\ tmp = Empty /\ found = FALSE
    /\ ident = {} /\ idName = {} /\ cred = {} /\ chap = {} /\ tgtAuth = {}
    /\ identPrev = Null /\ idNamePrev = Null /\ intrs = {}
    /\ owner = <<>> /\ reused = FALSE /\ blind = FALSE

-----------------------------------------------------------------------------
(* The administrator *)

Edit(f) ==
    /\ edits < MaxEdits
    /\ file' = [here |-> TRUE, mtime |-> clock, lines |-> f]
    /\ edits' = edits + 1
    /\ blind' = (blind \/ file.mtime = clock)
    /\ UNCHANGED <<clock, starts, watched, failures, statics, locals, tables, owner, reused>>

Remove ==
    /\ file.here
    /\ file' = [file EXCEPT !.here = FALSE]
    /\ UNCHANGED <<clock, edits, starts, watched, failures, statics, locals, tables, history>>

Tick ==
    /\ clock < MaxTime
    /\ clock' = clock + 1
    /\ UNCHANGED <<file, edits, starts, watched, failures, statics, locals, tables, history>>

\* The process ends, and with it everything it remembered.
Die(how) ==
    /\ pc' = how
    /\ mtime' = 0 /\ list' = Empty /\ head' = Null /\ freed' = FALSE /\ next' = 1
    /\ caller' = "ident" /\ sbuf' = 0 /\ conf' = <<>> /\ pos' = 1 /\ tmp' = Empty /\ found' = FALSE
    /\ ident' = {} /\ idName' = {} /\ cred' = {} /\ chap' = {} /\ tgtAuth' = {}
    /\ identPrev' = Null /\ idNamePrev' = Null /\ intrs' = {}
    /\ owner' = <<>> /\ reused' = FALSE /\ blind' = FALSE
    /\ UNCHANGED <<admin, failures>>

Stop == pc \notin {"down", "crashed"} /\ starts < MaxStarts /\ Die("down")

Start ==
    /\ pc \in {"down", "crashed"}
    /\ starts < MaxStarts
    /\ starts' = starts + 1
    /\ pc' = "idle"
    /\ UNCHANGED <<file, clock, edits, watched, failures, statics, caller, sbuf, conf, pos,
                   tmp, found, tables, history>>

-----------------------------------------------------------------------------
(* The tables: what each makes of a list L that load_auth_data returned at address h *)

MallocFails == failures < MaxFailures /\ failures' = failures + 1

\* The table is made of the rows, all of them or those made before malloc fails.
Fill(table, rows) ==
    \/ table = rows /\ failures' = failures
    \/ table \in SUBSET rows \ {rows} /\ MallocFails

\* Mutant: an empty list ends the load before the address is remembered.
ForgetsEmptyList(L, h) ==
    /\ pc' = "idle"
    /\ identPrev' = IF h = Null THEN identPrev ELSE h
    /\ IF h = identPrev THEN UNCHANGED <<ident, failures>>
       ELSE Fill(ident', {[index |-> L[n].index, descr |-> n] : n \in DOMAIN L})
    /\ UNCHANGED <<idName, idNamePrev, cred, chap, tgtAuth, intrs>>

\* Skipped when the address is the one of the last time.
ipsAuthIdentAttr_load(L, h) ==
    /\ pc' = "idle"
    /\ identPrev' = h
    /\ IF h = identPrev THEN UNCHANGED <<ident, failures>>
       ELSE Fill(ident', {[index |-> L[n].index, descr |-> n] : n \in DOMAIN L})
    /\ UNCHANGED <<idName, idNamePrev, cred, chap, tgtAuth, intrs>>

ipsAuthIdentNameAttr_load(L, h) ==
    /\ pc' = "idle"
    /\ idNamePrev' = h
    /\ IF h = idNamePrev THEN UNCHANGED <<idName, failures>>
       ELSE Fill(idName', {[index |-> L[n].index, name |-> n] : n \in DOMAIN L})
    /\ UNCHANGED <<ident, identPrev, cred, chap, tgtAuth, intrs>>

\* The credentials of a list with the indices of their identities.
Credentials(L) == UNION {{n} \X DOMAIN L[n].creds : n \in DOMAIN L}

ipsAuthCredAttr_load(L) ==
    /\ pc' = "idle"
    /\ Fill(cred', {[index |-> L[c[1]].index, cred |-> c[2][1] + 1,
                       chap |-> L[c[1]].creds[c[2]]] : c \in Credentials(L)})
    /\ UNCHANGED <<ident, identPrev, idName, idNamePrev, chap, tgtAuth, intrs>>

\* Only of credentials that are enforced.
ipsAuthCredChapAttr_load(L) ==
    /\ pc' = "idle"
    /\ Fill(chap', {[index |-> L[c[1]].index, cred |-> c[2][1] + 1, user |-> c[2][2]] :
                          c \in {d \in Credentials(L) : L[d[1]].creds[d[2]]}})
    /\ UNCHANGED <<ident, identPrev, idName, idNamePrev, cred, tgtAuth, intrs>>

\* The search of the list for a name, zero when it is not there.
find_authId_index(L, n) == IF n \in DOMAIN L THEN L[n].index ELSE 0

\* One more line of tgt_auth is looked up; without memory for its row the rest is left out.
iscsiTgtAuthAttributes_load(L) ==
    /\ \E n \in intrs :
         \/ /\ tgtAuth' = tgtAuth \cup {[intr |-> n, identity |-> find_authId_index(L, n)]}
            /\ intrs' = intrs \ {n} /\ failures' = failures
         \/ MallocFails /\ tgtAuth' = tgtAuth /\ intrs' = {}
    /\ pc' = IF intrs' = {} THEN "idle" ELSE "stat"
    /\ UNCHANGED <<ident, identPrev, idName, idNamePrev, cred, chap>>

\* load_auth_data returns to whoever called it, and its locals are gone.
Return(L, h) ==
    /\ \/ caller = "ident"   /\ ipsAuthIdentAttr_load(L, h)
       \/ caller = "idName"  /\ ipsAuthIdentNameAttr_load(L, h)
       \/ caller = "cred"    /\ ipsAuthCredAttr_load(L)
       \/ caller = "chap"    /\ ipsAuthCredChapAttr_load(L)
       \/ caller = "tgtAuth" /\ iscsiTgtAuthAttributes_load(L)
    /\ sbuf' = 0 /\ conf' = <<>> /\ pos' = 1 /\ tmp' = Empty /\ found' = FALSE
    /\ UNCHANGED caller

\* A request that finds the cache of a table expired has it loaded.  The two tables of
\* identities keep their rows until the list is there, the others free them at once.
Request(c) ==
    /\ pc = "idle" /\ c \in watched
    /\ caller' = c
    /\ cred' = IF c = "cred" THEN {} ELSE cred
    /\ chap' = IF c = "chap" THEN {} ELSE chap
    /\ tgtAuth' = IF c = "tgtAuth" THEN {} ELSE tgtAuth
    /\ intrs' \in IF c = "tgtAuth" THEN SUBSET Name ELSE {{}}
    /\ pc' = IF c = "tgtAuth" /\ intrs' = {} THEN "idle" ELSE "stat"
    /\ UNCHANGED <<admin, failures, statics, sbuf, conf, pos, tmp, found, ident, identPrev,
                   idName, idNamePrev, history>>

-----------------------------------------------------------------------------
(* load_auth_data *)

\* What ips_auth may say: of some portal groups, whether they enforce CHAP.
Auths == UNION {[D -> BOOLEAN] : D \in SUBSET Tpgt}

\* What the kernel enforces, in every credential of a portal group it lists.
update_enforce_auth(L, auth) ==
    [n \in DOMAIN L |-> [L[n] EXCEPT !.creds =
        [c \in DOMAIN @ |-> IF c[1] \in DOMAIN auth THEN auth[c[1]] ELSE @[c]]]]

\* The time is the one of the list, which is then good enough unless it was freed.
Unchanged(time) ==
    /\ time = mtime
    /\ \E auth \in Auths : list' = update_enforce_auth(list, auth)
    /\ Return(list', head)
    /\ UNCHANGED <<admin, mtime, head, freed, next, owner, reused>>

GoOpen(time) ==
    /\ time # mtime
    /\ pc' = "open" /\ sbuf' = time
    /\ UNCHANGED <<admin, failures, mtime, list, head, next, caller, conf, pos, tmp, found,
                   tables, owner, reused>>

\* stat finds the file.
Stat ==
    /\ pc = "stat" /\ file.here
    /\ \/ ~freed /\ Unchanged(file.mtime)
       \/ GoOpen(file.mtime) /\ freed' = freed
    /\ blind' = blind

\* stat fails: the list is freed, and the time compared is whatever the stack holds.
StatFails ==
    /\ pc = "stat" /\ ~file.here /\ ~freed
    /\ \E garbage \in 0 .. MaxTime :
         \/ list = Empty /\ Unchanged(garbage)
         \/ GoOpen(garbage) /\ freed' = (list # Empty)
    /\ blind' = TRUE

\* Mutant: the time of the load is remembered instead of the time of the file.
OpenAtClock ==
    /\ pc = "open" /\ file.here
    /\ pc' = "lines" /\ mtime' = clock /\ conf' = file.lines
    /\ pos' = 1 /\ tmp' = Empty /\ found' = FALSE
    /\ UNCHANGED <<admin, failures, list, head, freed, next, caller, sbuf, tables, history>>

Open ==
    /\ pc = "open" /\ file.here
    /\ pc' = "lines" /\ mtime' = sbuf /\ conf' = file.lines
    /\ pos' = 1 /\ tmp' = Empty /\ found' = FALSE
    /\ UNCHANGED <<admin, failures, list, head, freed, next, caller, sbuf, tables, history>>

OpenFails ==
    /\ pc = "open" /\ ~file.here
    /\ Return(Empty, Null)
    /\ UNCHANGED <<admin, statics, history>>

AtLine == pc = "lines" /\ pos <= Len(conf)

SkipLine ==
    /\ AtLine /\ conf[pos] = Skipped
    /\ pos' = pos + 1
    /\ UNCHANGED <<admin, failures, statics, pc, caller, sbuf, conf, tmp, found, tables, history>>

\* The entry for a name, from the list that is being built or a new one.
EntryOf(n, i) == IF n \in DOMAIN tmp THEN tmp[n] ELSE [index |-> i, creds |-> Empty]

WithCred(e, c) ==
    [e EXCEPT !.creds = [d \in DOMAIN @ \cup {c} |-> IF d \in DOMAIN @ THEN @[d] ELSE FALSE]]

\* Mutant: the flag is not cleared before the search for the credential.
AddLineKeepsFound(l, i) ==
    LET c == <<l.tpgt, l.user>>
        e == EntryOf(l.name, i)
        Add(entry) == [n \in DOMAIN tmp \cup {l.name} |-> IF n = l.name THEN entry ELSE tmp[n]]
    IN  /\ found' = (l.name \in DOMAIN tmp \/ c \in DOMAIN e.creds)
        /\ \/ tmp' = Add(WithCred(e, c)) /\ pos' = pos + 1 /\ failures' = failures
           \/ /\ MallocFails /\ c \notin DOMAIN e.creds
              /\ tmp' \in {tmp, Add(e)} /\ pos' = Len(conf) + 1

\* The line l goes into the list, under index i if its name is new: all of it, or, when
\* malloc fails, without its credential or not at all, and the rest of the file is left out.
\* "found" stays set when the credential was there already.
AddLine(l, i) ==
    LET c == <<l.tpgt, l.user>>
        e == EntryOf(l.name, i)
        Add(entry) == [n \in DOMAIN tmp \cup {l.name} |-> IF n = l.name THEN entry ELSE tmp[n]]
    IN  /\ found' = (c \in DOMAIN e.creds)
        /\ \/ tmp' = Add(WithCred(e, c)) /\ pos' = pos + 1 /\ failures' = failures
           \/ /\ MallocFails /\ c \notin DOMAIN e.creds
              /\ tmp' \in {tmp, Add(e)} /\ pos' = Len(conf) + 1

KnownName ==
    /\ AtLine /\ conf[pos] # Skipped
    /\ conf[pos].name \in DOMAIN tmp
    /\ AddLine(conf[pos], 0)
    /\ UNCHANGED <<admin, statics, pc, caller, sbuf, conf, tables, history>>

\* Mutants: indices count from zero, they number the list, and a name gets a new one each time.
IndexFromZero(n) == IF n \in DOMAIN list THEN list[n].index ELSE next - 1
IndexByPlace(n) == IF n \in DOMAIN list THEN list[n].index ELSE Cardinality(DOMAIN tmp) + 1
IndexAlwaysNext(n) == next

\* The index of a new name: the one it had in the old list, or the next one.
get_authId_index(n) ==
    IF n \in DOMAIN list THEN list[n].index ELSE next

NewName ==
    /\ AtLine /\ conf[pos] # Skipped
    /\ conf[pos].name \notin DOMAIN tmp /\ ~found /\ ~freed
    /\ LET n == conf[pos].name
           i == get_authId_index(n)
       IN  /\ AddLine(conf[pos], i)
           /\ IF n \in DOMAIN list THEN UNCHANGED <<next, owner>>
              ELSE next' = next + 1 /\ owner' = Append(owner, n)
    /\ UNCHANGED <<admin, mtime, list, head, freed, pc, caller, sbuf, conf, tables, reused, blind>>

\* "found" is still set from the line before: the search for the name ended without an
\* entry, and the pointer that is used is NULL.
NullEntry ==
    /\ AtLine /\ conf[pos] # Skipped
    /\ conf[pos].name \notin DOMAIN tmp /\ found
    /\ Die("crashed")

\* Where the head of a new list may be: the old list is still there.
HeadOf(L) == IF L = Empty THEN {Null} ELSE Addr \ {head}

\* The end of the file: the new list takes the place of the old one.
LoadEnds ==
    /\ pc = "lines" /\ pos > Len(conf) /\ ~freed
    /\ \E auth \in Auths : list' = update_enforce_auth(tmp, auth)
    /\ head' \in HeadOf(tmp)
    /\ reused' = (reused \/ head' \in {identPrev, idNamePrev} \ {Null})
    /\ Return(list', head')
    /\ UNCHANGED <<admin, mtime, freed, next, owner, blind>>

\* A list that was freed is freed again, returned or searched.
UseFreed ==
    /\ list # Empty
    /\ \/ pc = "stat" /\ ~file.here
       \/ pc = "stat" /\ freed /\ file.mtime = mtime
       \/ AtLine /\ freed /\ conf[pos] # Skipped /\ conf[pos].name \notin DOMAIN tmp /\ ~found
       \/ pc = "lines" /\ pos > Len(conf) /\ freed
    /\ Die("undefined")

-----------------------------------------------------------------------------
Next ==
    \/ \E f \in Files : Edit(f)
    \/ Remove \/ Tick \/ Stop \/ Start
    \/ \E c \in Caller : Request(c)
    \/ Stat \/ StatFails \/ Open \/ OpenFails
    \/ SkipLine \/ KnownName \/ NewName \/ NullEntry \/ LoadEnds \/ UseFreed

Spec == Init /\ [][Next]_vars

-----------------------------------------------------------------------------
(* Properties *)

\* Every use of an index, in the list, in the one being built and in the tables that were
\* loaded at other times, is for the name that the index was given to: an index is never
\* changed or used again while the agent runs, as LIO-IPS-AUTH-MIB asks.
Uses ==
    {<<n, list[n].index>> : n \in DOMAIN list} \cup {<<n, tmp[n].index>> : n \in DOMAIN tmp}
    \cup {<<r.descr, r.index>> : r \in ident} \cup {<<r.name, r.index>> : r \in idName}
    \cup {<<r.intr, r.identity>> : r \in {a \in tgtAuth : a.identity # 0}}

IndexMeansOneName ==
    \A u, v \in Uses : u[2] = v[2] => u[1] = v[1]

\* The list refines the promise of AuthIndex.
Promise == INSTANCE AuthIndex WITH
    index <- [n \in DOMAIN list |-> list[n].index]

ImplementsAuthIndex == Promise!Spec

\* A table of identities that would skip its next load has the rows of the list, unless
\* malloc put a later list where the one it was built from had been.
IdentityRowsCurrent ==
    ~reused /\ failures = 0 =>
      /\ identPrev = head =>
           ident = {[index |-> list[n].index, descr |-> n] : n \in DOMAIN list}
      /\ idNamePrev = head =>
           idName = {[index |-> list[n].index, name |-> n] : n \in DOMAIN list}

\* A list whose time is that of the file, so that the next request will not read it, has
\* the names and credentials of the file, unless the times could not tell its contents
\* apart or memory ran out.
Names(lines) == {lines[i].name : i \in {j \in DOMAIN lines : lines[j] # Skipped}}
CredsOf(lines, n) ==
    {<<lines[i].tpgt, lines[i].user>> :
       i \in {j \in DOMAIN lines : lines[j] # Skipped /\ lines[j].name = n}}

SkipsOnlyCurrent ==
    pc = "idle" /\ file.mtime = mtime /\ ~blind /\ failures = 0 =>
      /\ DOMAIN list = Names(file.lines)
      /\ \A n \in DOMAIN list : DOMAIN list[n].creds = CredsOf(file.lines, n)

\* Loading uses an entry that is not there only on a file that repeats a credential.
Repeats(lines) == \E i, j \in DOMAIN lines : i < j /\ lines[i] = lines[j] /\ lines[i] # Skipped

CrashesOnlyOnRepeat == [][pc' = "crashed" /\ pc # pc' => Repeats(conf)]_vars
=============================================================================
