--------------------------- MODULE AuthData_proofs ---------------------------
(* Theorems about AuthData: an index of an identity means one name wherever it is used, the  *)
(* list keeps the promise of AuthIndex, only a file that repeats itself crashes a load, and  *)
(* what is not loaded again is what a load would make.                                       *)
EXTENDS AuthData, TLAPS

\* The index i was given to the name n.
Owned(n, i) == i \in DOMAIN owner /\ owner[i] = n

\* Indices are given out one after another, and whatever has one has it by right.
IndicesOwned ==
    /\ next = Len(owner) + 1
    /\ \A n \in DOMAIN list : Owned(n, list[n].index)
    /\ \A n \in DOMAIN tmp : Owned(n, tmp[n].index)

TablesOwned ==
    /\ \A r \in ident : Owned(r.descr, r.index)
    /\ \A r \in idName : Owned(r.name, r.index)
    /\ \A r \in tgtAuth : r.identity # 0 => Owned(r.intr, r.identity)

\* A name that stays keeps its index, also when it had another before it was once removed.
IndicesKept == \A n \in DOMAIN tmp \cap DOMAIN list : tmp[n].index = list[n].index

IInv == TypeOK /\ IndicesOwned /\ TablesOwned /\ IndicesKept

\* The list that is being built is what the lines up to here say; "found" after a line is
\* that it said nothing new.
BuiltFromLines ==
    \A n \in DOMAIN tmp : \A c \in DOMAIN tmp[n].creds :
      \E i \in DOMAIN conf : i < pos /\ conf[i] = [name |-> n, tpgt |-> c[1], user |-> c[2]]
FoundMeansRepeat == found => Repeats(conf)

LInv == TypeOK /\ BuiltFromLines /\ FoundMeansRepeat

TableTypes ==
    /\ ident \subseteq [index : Nat, descr : Name]
    /\ idName \subseteq [index : Nat, name : Name]
    /\ cred \subseteq [index : Nat, cred : Nat, chap : BOOLEAN]
    /\ chap \subseteq [index : Nat, cred : Nat, user : User]
    /\ tgtAuth \subseteq [intr : Name, identity : Nat]
    /\ identPrev \in Addr \cup {Null} /\ idNamePrev \in Addr \cup {Null}
    /\ intrs \subseteq Name

-----------------------------------------------------------------------------
(* Lists *)

LEMMA EmptyList == IsList(Empty) /\ DOMAIN Empty = {}
BY DEF IsList, Empty

\* What the kernel enforces changes no name, index or credential.
LEMMA UpdatedList ==
    ASSUME NEW L, IsList(L), NEW auth \in Auths
    PROVE  LET U == update_enforce_auth(L, auth)
           IN  /\ IsList(U) /\ DOMAIN U = DOMAIN L
               /\ \A n \in DOMAIN L : /\ U[n].index = L[n].index
                                      /\ DOMAIN U[n].creds = DOMAIN L[n].creds
<1> DEFINE U == update_enforce_auth(L, auth)
           C(n) == [c \in DOMAIN L[n].creds |->
                      IF c[1] \in DOMAIN auth THEN auth[c[1]] ELSE L[n].creds[c]]
<1>1. \A n \in DOMAIN L : L[n] = [index |-> L[n].index, creds |-> L[n].creds]
  BY DEF IsList
<1>2. DOMAIN U = DOMAIN L
  BY DEF update_enforce_auth
<1>3. \A n \in DOMAIN L : U[n] = [index |-> L[n].index, creds |-> C(n)]
  BY <1>1 DEF update_enforce_auth
<1>4. \A D : auth \in [D -> BOOLEAN] => \A d \in DOMAIN auth : auth[d] \in BOOLEAN
  OBVIOUS
<1>5. \A d \in DOMAIN auth : auth[d] \in BOOLEAN
  BY <1>4 DEF Auths
<1>6. \A n \in DOMAIN L : C(n) \in [DOMAIN C(n) -> BOOLEAN]
  BY <1>5 DEF IsList
<1>7. U = [n \in DOMAIN U |-> U[n]]
  BY DEF update_enforce_auth
<1>8. U = [n \in DOMAIN U |-> [index |-> U[n].index, creds |-> U[n].creds]]
  BY <1>2, <1>3, <1>7
<1>9. \A n \in DOMAIN L : DOMAIN C(n) = DOMAIN L[n].creds
  OBVIOUS
<1>. HIDE DEF U, C
<1>. QED BY <1>2, <1>3, <1>6, <1>8, <1>9 DEF IsList, U

\* A line adds at most its name, under the index i, and its credential.
LEMMA AddedLine ==
    ASSUME IsList(tmp), NEW l \in Line, NEW i, i \in Nat \ {0} \/ l.name \in DOMAIN tmp,
           AddLine(l, i)
    PROVE  /\ IsList(tmp')
           /\ \A n \in DOMAIN tmp : n \in DOMAIN tmp' /\ tmp'[n].index = tmp[n].index
           /\ \A n \in DOMAIN tmp' : n \in DOMAIN tmp \/ (n = l.name /\ tmp'[n].index = i)
           /\ \A n \in DOMAIN tmp' : \A c \in DOMAIN tmp'[n].creds :
                \/ n \in DOMAIN tmp /\ c \in DOMAIN tmp[n].creds
                \/ n = l.name /\ c = <<l.tpgt, l.user>>
           /\ found' \in BOOLEAN
           /\ found' => l.name \in DOMAIN tmp /\ <<l.tpgt, l.user>> \in DOMAIN tmp[l.name].creds
           /\ pos' \in {pos + 1, Len(conf) + 1}
           /\ failures' \in {failures, failures + 1}
<1> DEFINE c == <<l.tpgt, l.user>>
           e == EntryOf(l.name, i)
           w == [d \in DOMAIN e.creds \cup {c} |-> IF d \in DOMAIN e.creds THEN e.creds[d] ELSE FALSE]
           Add(entry) == [n \in DOMAIN tmp \cup {l.name} |-> IF n = l.name THEN entry ELSE tmp[n]]
           IsEntry(x) == /\ x = [index |-> x.index, creds |-> x.creds]
                         /\ x.index \in Nat \ {0} /\ DOMAIN x.creds \subseteq Cred
                         /\ x.creds \in [DOMAIN x.creds -> BOOLEAN]
<1>1. l.name \in Name /\ c \in Cred
  BY DEF Line, Cred
<1>2. \A n \in DOMAIN tmp : IsEntry(tmp[n])
  BY DEF IsList
<1>3. l.name \notin DOMAIN tmp => e = [index |-> i, creds |-> Empty] /\ i \in Nat \ {0}
  BY DEF EntryOf
<1>4. l.name \in DOMAIN tmp => e = tmp[l.name]
  BY DEF EntryOf
<1>5. IsEntry(e)
  <2>1. DOMAIN Empty = {} /\ Empty \in [{} -> BOOLEAN]
    BY DEF Empty
  <2>2. CASE l.name \in DOMAIN tmp
    <3>. HIDE DEF e
    <3>. QED BY <1>2, <1>4, <2>2
  <2>3. CASE l.name \notin DOMAIN tmp
    <3>1. e = [index |-> i, creds |-> Empty] /\ i \in Nat \ {0}
      BY <1>3, <2>3
    <3>2. e.index = i /\ e.creds = Empty
      BY <3>1
    <3>3. e = [index |-> e.index, creds |-> e.creds]
      BY <3>1, <3>2
    <3>. HIDE DEF e
    <3>4. DOMAIN e.creds = {} /\ e.creds \in [DOMAIN e.creds -> BOOLEAN]
      BY <2>1, <3>2
    <3>. QED BY <3>1, <3>2, <3>3, <3>4
  <2>. QED BY <2>2, <2>3
<1>6. WithCred(e, c) = [index |-> e.index, creds |-> w]
  <2>1. e = [index |-> e.index, creds |-> e.creds]
    BY <1>5
  <2>2. WithCred(e, c) = [e EXCEPT !.creds = w]
    BY DEF WithCred
  <2>. HIDE DEF e, w
  <2>. QED BY <2>1, <2>2
<1>7. w \in [DOMAIN w -> BOOLEAN] /\ DOMAIN w = DOMAIN e.creds \cup {c}
  BY <1>5
<1>8. IsEntry(WithCred(e, c)) /\ WithCred(e, c).index = e.index
      /\ DOMAIN WithCred(e, c).creds = DOMAIN e.creds \cup {c}
  <2>. HIDE DEF w
  <2>. QED BY <1>1, <1>5, <1>6, <1>7
<1>9. DOMAIN e.creds = {} \/ (l.name \in DOMAIN tmp /\ e = tmp[l.name])
  BY <1>3, <1>4 DEF Empty
<1>10. e.index = IF l.name \in DOMAIN tmp THEN tmp[l.name].index ELSE i
  BY <1>3, <1>4
<1>11. /\ found' = (c \in DOMAIN e.creds)
       /\ tmp' \in {tmp, Add(e), Add(WithCred(e, c))}
       /\ pos' \in {pos + 1, Len(conf) + 1}
       /\ failures' \in {failures, failures + 1}
  BY DEF AddLine, MallocFails
<1>12. ASSUME NEW x \in {e, WithCred(e, c)}, tmp' = Add(x)
       PROVE  /\ IsList(tmp')
              /\ \A n \in DOMAIN tmp : n \in DOMAIN tmp' /\ tmp'[n].index = tmp[n].index
              /\ \A n \in DOMAIN tmp' : n \in DOMAIN tmp \/ (n = l.name /\ tmp'[n].index = i)
              /\ \A n \in DOMAIN tmp' : \A d \in DOMAIN tmp'[n].creds :
                   \/ n \in DOMAIN tmp /\ d \in DOMAIN tmp[n].creds
                   \/ n = l.name /\ d = <<l.tpgt, l.user>>
  <2>1. IsEntry(x) /\ x.index = e.index /\ DOMAIN x.creds \subseteq DOMAIN e.creds \cup {c}
    BY <1>5, <1>8
  <2>2. DOMAIN tmp' = DOMAIN tmp \cup {l.name}
    BY <1>12
  <2>3. \A n \in DOMAIN tmp' : tmp'[n] = IF n = l.name THEN x ELSE tmp[n]
    BY <1>12
  <2>4. tmp' = [n \in DOMAIN tmp' |-> tmp'[n]]
    BY <1>12
  <2>5. \A n \in DOMAIN tmp' : IsEntry(tmp'[n])
    <3>. HIDE DEF e, IsEntry
    <3>. QED BY <1>2, <2>1, <2>2, <2>3
  <2>6. tmp' = [n \in DOMAIN tmp' |-> [index |-> tmp'[n].index, creds |-> tmp'[n].creds]]
    BY <2>4, <2>5
  <2>7. DOMAIN tmp' \subseteq Name
    BY <1>1, <2>2 DEF IsList
  <2>8. IsList(tmp')
    BY <2>5, <2>6, <2>7 DEF IsList
  <2>. HIDE DEF e, IsEntry
  <2>. QED BY <1>9, <1>10, <2>1, <2>2, <2>3, <2>8
<1>13. ASSUME tmp' = tmp
       PROVE  /\ IsList(tmp')
              /\ \A n \in DOMAIN tmp : n \in DOMAIN tmp' /\ tmp'[n].index = tmp[n].index
              /\ \A n \in DOMAIN tmp' : n \in DOMAIN tmp \/ (n = l.name /\ tmp'[n].index = i)
              /\ \A n \in DOMAIN tmp' : \A d \in DOMAIN tmp'[n].creds :
                   \/ n \in DOMAIN tmp /\ d \in DOMAIN tmp[n].creds
                   \/ n = l.name /\ d = <<l.tpgt, l.user>>
  BY <1>13
<1>14. /\ found' \in BOOLEAN
       /\ found' => l.name \in DOMAIN tmp /\ c \in DOMAIN tmp[l.name].creds
  <2>1. found' = (c \in DOMAIN e.creds)
    BY <1>11
  <2>2. c \in DOMAIN e.creds => l.name \in DOMAIN tmp /\ c \in DOMAIN tmp[l.name].creds
    BY <1>9
  <2>. HIDE DEF e, c
  <2>3. found' \in BOOLEAN
    BY <2>1
  <2>4. found' => c \in DOMAIN e.creds
    BY <2>1, Zenon
  <2>. QED BY <2>2, <2>3, <2>4, Zenon
<1>15. tmp' = tmp \/ \E x \in {e, WithCred(e, c)} : tmp' = Add(x)
  BY <1>11
<1>. HIDE DEF e, IsEntry, Add
<1>16. /\ IsList(tmp')
       /\ \A n \in DOMAIN tmp : n \in DOMAIN tmp' /\ tmp'[n].index = tmp[n].index
       /\ \A n \in DOMAIN tmp' : n \in DOMAIN tmp \/ (n = l.name /\ tmp'[n].index = i)
       /\ \A n \in DOMAIN tmp' : \A d \in DOMAIN tmp'[n].creds :
            \/ n \in DOMAIN tmp /\ d \in DOMAIN tmp[n].creds
            \/ n = l.name /\ d = <<l.tpgt, l.user>>
  BY <1>12, <1>13, <1>15
<1>17. pos' \in {pos + 1, Len(conf) + 1} /\ failures' \in {failures, failures + 1}
  BY <1>11
<1>. QED BY <1>14, <1>16, <1>17, Zenon

-----------------------------------------------------------------------------
(* Returns *)

\* A load of a table leaves it well-formed, with indices that are owned if the list's are.
LEMMA Returned ==
    ASSUME TypeOK, NEW L, IsList(L), NEW h \in Addr \cup {Null}, Return(L, h)
    PROVE  /\ TableTypes'
           /\ failures' \in Nat /\ pc' \in {"idle", "stat"}
           /\ caller' = caller /\ sbuf' = 0 /\ conf' = <<>> /\ pos' = 1 /\ tmp' = Empty
           /\ found' \in BOOLEAN /\ ~found'
<1> DEFINE I == {[index |-> L[n].index, descr |-> n] : n \in DOMAIN L}
           N == {[index |-> L[n].index, name |-> n] : n \in DOMAIN L}
           R == {[index |-> L[c[1]].index, cred |-> c[2][1] + 1,
                  chap |-> L[c[1]].creds[c[2]]] : c \in Credentials(L)}
           H == {[index |-> L[c[1]].index, cred |-> c[2][1] + 1, user |-> c[2][2]] :
                     c \in {d \in Credentials(L) : L[d[1]].creds[d[2]]}}
<1>1. DOMAIN L \subseteq Name /\ \A n \in DOMAIN L : L[n].index \in Nat
  BY DEF IsList
<1>2. \A c \in Credentials(L) :
        /\ c[1] \in DOMAIN L /\ c[2] \in DOMAIN L[c[1]].creds
        /\ c[2][1] \in Tpgt /\ c[2][2] \in User
  <2>1. ASSUME NEW c \in Credentials(L)
        PROVE  c[1] \in DOMAIN L /\ c[2] \in DOMAIN L[c[1]].creds
    BY DEF Credentials
  <2>2. \A n \in DOMAIN L : DOMAIN L[n].creds \subseteq Tpgt \X User
    BY DEF IsList, Cred
  <2>. QED BY <2>1, <2>2
<1>3. Tpgt \subseteq Nat
  BY DataAssumption
<1>4. I \subseteq [index : Nat, descr : Name] /\ N \subseteq [index : Nat, name : Name]
  BY <1>1
<1>5. R \subseteq [index : Nat, cred : Nat, chap : BOOLEAN]
  <2>1. \A n \in DOMAIN L : \A c \in DOMAIN L[n].creds : L[n].creds[c] \in BOOLEAN
    BY DEF IsList
  <2>2. \A c \in Credentials(L) : c[2][1] + 1 \in Nat
    BY <1>2, <1>3
  <2>. QED BY <1>1, <1>2, <2>1, <2>2
<1>6. H \subseteq [index : Nat, cred : Nat, user : User]
  <2>1. \A c \in Credentials(L) : c[2][1] + 1 \in Nat
    BY <1>2, <1>3
  <2>. QED BY <1>1, <1>2, <2>1
<1>7. /\ ident \subseteq [index : Nat, descr : Name] /\ idName \subseteq [index : Nat, name : Name]
      /\ cred \subseteq [index : Nat, cred : Nat, chap : BOOLEAN]
      /\ chap \subseteq [index : Nat, cred : Nat, user : User]
      /\ tgtAuth \subseteq [intr : Name, identity : Nat]
      /\ identPrev \in Addr \cup {Null} /\ idNamePrev \in Addr \cup {Null}
      /\ intrs \subseteq Name /\ failures \in Nat
  BY DEF TypeOK
<1>8. /\ sbuf' = 0 /\ conf' = <<>> /\ pos' = 1 /\ tmp' = Empty
      /\ caller' = caller /\ found' \in BOOLEAN /\ ~found'
  BY DEF Return
<1>. HIDE DEF I, N, R, H
<1>9. CASE caller = "ident" /\ ipsAuthIdentAttr_load(L, h)
  BY <1>4, <1>7, <1>8, <1>9 DEF ipsAuthIdentAttr_load, Fill, MallocFails, TableTypes, I
<1>10. CASE caller = "idName" /\ ipsAuthIdentNameAttr_load(L, h)
  BY <1>4, <1>7, <1>8, <1>10 DEF ipsAuthIdentNameAttr_load, Fill, MallocFails, TableTypes, N
<1>11. CASE caller = "cred" /\ ipsAuthCredAttr_load(L)
  BY <1>5, <1>7, <1>8, <1>11 DEF ipsAuthCredAttr_load, Fill, MallocFails, TableTypes, R
<1>12. CASE caller = "chap" /\ ipsAuthCredChapAttr_load(L)
  BY <1>6, <1>7, <1>8, <1>12 DEF ipsAuthCredChapAttr_load, Fill, MallocFails, TableTypes, H
<1>13. CASE caller = "tgtAuth" /\ iscsiTgtAuthAttributes_load(L)
  <2>1. \A n : find_authId_index(L, n) \in Nat
    BY <1>1 DEF find_authId_index
  <2>. QED BY <1>7, <1>8, <1>13, <2>1 DEF iscsiTgtAuthAttributes_load, MallocFails, TableTypes
<1>. QED BY <1>9, <1>10, <1>11, <1>12, <1>13 DEF Return

LEMMA ReturnedOwned ==
    ASSUME TypeOK, TablesOwned, NEW L, IsList(L), NEW h, Return(L, h), owner' = owner,
           \A n \in DOMAIN L : Owned(n, L[n].index)
    PROVE  TablesOwned'
<1>. USE DEF Owned, TablesOwned
<1>1. CASE ipsAuthIdentAttr_load(L, h)
  BY <1>1 DEF ipsAuthIdentAttr_load, Fill
<1>2. CASE ipsAuthIdentNameAttr_load(L, h)
  BY <1>2 DEF ipsAuthIdentNameAttr_load, Fill
<1>3. CASE ipsAuthCredAttr_load(L)
  BY <1>3 DEF ipsAuthCredAttr_load
<1>4. CASE ipsAuthCredChapAttr_load(L)
  BY <1>4 DEF ipsAuthCredChapAttr_load
<1>5. CASE iscsiTgtAuthAttributes_load(L)
  BY <1>5 DEF iscsiTgtAuthAttributes_load, find_authId_index
<1>. QED BY <1>1, <1>2, <1>3, <1>4, <1>5 DEF Return

-----------------------------------------------------------------------------
(* Types *)

LEMMA EmptyLines ==
    /\ <<>> \in Files \cup {<<>>} /\ \A S : <<>> \in Seq(S)
    /\ Files \cup {<<>>} \subseteq Seq(Line \cup {Skipped})
<1>1. \A S : <<>> \in Seq(S)
  OBVIOUS
<1>2. Files \subseteq Seq(Line \cup {Skipped})
  BY DataAssumption
<1>. QED BY <1>1, <1>2

LEMMA FileType ==
    ASSUME TypeOK, AtLine
    PROVE  /\ conf \in Seq(Line \cup {Skipped}) /\ pos \in DOMAIN conf
           /\ conf[pos] # Skipped => conf[pos] \in Line /\ conf[pos].name \in Name
<1>1. conf \in Seq(Line \cup {Skipped}) /\ pos \in Nat \ {0}
  BY EmptyLines DEF TypeOK
<1>2. pos \in DOMAIN conf
  BY <1>1 DEF AtLine
<1>. QED BY <1>1, <1>2 DEF Line

LEMMA DieType == ASSUME TypeOK, NEW how \in {"down", "crashed", "undefined"}, Die(how)
                 PROVE  TypeOK'
<1>1. IsList(list') /\ IsList(tmp')
  BY EmptyList DEF Die
<1>2. freed' \in BOOLEAN /\ found' \in BOOLEAN /\ reused' \in BOOLEAN /\ blind' \in BOOLEAN
  BY DEF Die
<1>3. conf' \in Files \cup {<<>>} /\ owner' \in Seq(Name)
  BY EmptyLines DEF Die
<1>. QED BY <1>1, <1>2, <1>3 DEF TypeOK, Die, admin, Caller

\* The steps that end in Return: what the list and the rest are now.
LEMMA UnchangedType ==
    ASSUME TypeOK, NEW time \in Nat, Unchanged(time), blind' \in BOOLEAN
    PROVE  TypeOK'
<1>1. PICK auth \in Auths : list' = update_enforce_auth(list, auth)
  BY DEF Unchanged
<1>2. IsList(list')
  BY <1>1, UpdatedList DEF TypeOK
<1>3. head \in Addr \cup {Null} /\ Return(list', head)
  BY DEF TypeOK, Unchanged
<1>4. /\ TableTypes' /\ failures' \in Nat /\ pc' \in {"idle", "stat"}
      /\ caller' = caller /\ sbuf' = 0 /\ conf' = <<>> /\ pos' = 1 /\ tmp' = Empty
      /\ found' \in BOOLEAN /\ ~found'
  BY <1>2, <1>3, Returned
<1>. QED BY <1>2, <1>4, EmptyList, EmptyLines DEF TypeOK, TableTypes, Unchanged, admin

LEMMA GoOpenType ==
    ASSUME TypeOK, NEW time \in Nat, GoOpen(time), freed' \in BOOLEAN, blind' \in BOOLEAN
    PROVE  TypeOK'
BY DEF TypeOK, GoOpen, admin, tables

LEMMA StepType == TypeOK /\ [Next]_vars => TypeOK'
<1>. SUFFICES ASSUME TypeOK, [Next]_vars PROVE TypeOK'
  OBVIOUS
<1>. USE DEF TypeOK, admin, statics, locals, tables, history
<1>1. ASSUME NEW f \in Files, Edit(f) PROVE TypeOK'
  BY <1>1 DEF Edit
<1>2. CASE Remove \/ Tick \/ Start
  <2>1. CASE Remove
    <3>1. file' \in [here : BOOLEAN, mtime : Nat, lines : Files \cup {<<>>}]
      BY <2>1 DEF Remove
    <3>. QED BY <2>1, <3>1 DEF Remove
  <2>2. CASE Tick
    BY <2>2 DEF Tick
  <2>3. CASE Start
    BY <2>3 DEF Start
  <2>. QED BY <1>2, <2>1, <2>2, <2>3
<1>3. CASE Stop \/ NullEntry \/ UseFreed
  <2>. HIDE DEF TypeOK, admin, statics, locals, tables, history
  <2>. QED BY <1>3, DieType DEF Stop, NullEntry, UseFreed
<1>4. ASSUME NEW c \in Caller, Request(c) PROVE TypeOK'
  BY <1>4 DEF Request
<1>5. CASE Stat
  <2>1. file.mtime \in Nat
    OBVIOUS
  <2>2. freed \in BOOLEAN /\ blind' \in BOOLEAN
    BY <1>5 DEF Stat
  <2>. HIDE DEF TypeOK, admin, statics, locals, tables, history
  <2>. QED BY <1>5, <2>1, <2>2, UnchangedType, GoOpenType DEF Stat
<1>6. CASE StatFails
  <2>1. PICK garbage \in 0 .. MaxTime :
           \/ list = Empty /\ Unchanged(garbage)
           \/ GoOpen(garbage) /\ freed' = (list # Empty)
    BY <1>6 DEF StatFails
  <2>2. garbage \in Nat /\ blind' \in BOOLEAN
    BY <1>6, DataAssumption DEF StatFails
  <2>. HIDE DEF TypeOK, admin, statics, locals, tables, history
  <2>3. CASE Unchanged(garbage)
    BY <2>2, <2>3, UnchangedType
  <2>4. CASE GoOpen(garbage) /\ freed' = (list # Empty)
    <3>1. freed' \in BOOLEAN
      BY <2>4
    <3>. QED BY <2>2, <2>4, <3>1, GoOpenType
  <2>. QED BY <2>1, <2>3, <2>4
<1>7. CASE Open
  <2>1. IsList(tmp')
    BY <1>7, EmptyList DEF Open
  <2>2. conf' \in Files \cup {<<>>}
    BY <1>7 DEF Open
  <2>3. found' \in BOOLEAN
    BY <1>7 DEF Open
  <2>. QED BY <1>7, <2>1, <2>2, <2>3 DEF Open
<1>8. CASE OpenFails
  <2>1. /\ TableTypes' /\ failures' \in Nat /\ pc' \in {"idle", "stat"}
        /\ caller' = caller /\ sbuf' = 0 /\ conf' = <<>> /\ pos' = 1 /\ tmp' = Empty
        /\ found' \in BOOLEAN /\ ~found'
    BY <1>8, EmptyList, Returned DEF OpenFails
  <2>. QED BY <1>8, <2>1, EmptyList, EmptyLines DEF OpenFails, TableTypes
<1>9. CASE SkipLine
  BY <1>9 DEF SkipLine
<1>10. CASE KnownName
  <2>1. conf[pos] \in Line /\ conf[pos].name \in DOMAIN tmp /\ AddLine(conf[pos], 0)
        /\ conf \in Seq(Line \cup {Skipped})
    BY <1>10, FileType DEF KnownName
  <2>2. /\ IsList(tmp') /\ found' \in BOOLEAN /\ pos' \in {pos + 1, Len(conf) + 1}
        /\ failures' \in {failures, failures + 1}
    BY <2>1, AddedLine
  <2>3. pos' \in Nat \ {0} /\ failures' \in Nat
    BY <2>1, <2>2
  <2>. QED BY <1>10, <2>2, <2>3 DEF KnownName
<1>11. CASE NewName
  <2> DEFINE n == conf[pos].name
             i == get_authId_index(n)
  <2>1. conf[pos] \in Line /\ n \in Name /\ conf \in Seq(Line \cup {Skipped})
    BY <1>11, FileType DEF NewName
  <2>2. i \in Nat \ {0}
    BY DEF get_authId_index, IsList
  <2>3. AddLine(conf[pos], i)
    BY <1>11 DEF NewName
  <2>4. next' \in Nat \ {0} /\ owner' \in Seq(Name)
    <3>1. owner \in Seq(Name) /\ next + 1 \in Nat \ {0}
      OBVIOUS
    <3>2. Append(owner, n) \in Seq(Name)
      BY <2>1, <3>1
    <3>. QED BY <1>11, <3>1, <3>2 DEF NewName
  <2>. HIDE DEF i
  <2>5. /\ IsList(tmp') /\ found' \in BOOLEAN /\ pos' \in {pos + 1, Len(conf) + 1}
        /\ failures' \in {failures, failures + 1}
    BY <2>1, <2>2, <2>3, AddedLine
  <2>6. pos' \in Nat \ {0} /\ failures' \in Nat
    BY <2>1, <2>5
  <2>. QED BY <1>11, <2>4, <2>5, <2>6 DEF NewName
<1>12. CASE LoadEnds
  <2>1. PICK auth \in Auths : list' = update_enforce_auth(tmp, auth)
    BY <1>12 DEF LoadEnds
  <2>2. IsList(list')
    BY <2>1, UpdatedList
  <2>3. head' \in Addr \cup {Null} /\ Return(list', head')
    BY <1>12 DEF LoadEnds, HeadOf
  <2>4. /\ TableTypes' /\ failures' \in Nat /\ pc' \in {"idle", "stat"}
        /\ caller' = caller /\ sbuf' = 0 /\ conf' = <<>> /\ pos' = 1 /\ tmp' = Empty
        /\ found' \in BOOLEAN /\ ~found'
    BY <2>2, <2>3, Returned
  <2>5. reused' \in BOOLEAN
    BY <1>12 DEF LoadEnds
  <2>. QED BY <1>12, <2>2, <2>3, <2>4, <2>5, EmptyList, EmptyLines DEF LoadEnds, TableTypes
<1>13. CASE UNCHANGED vars
  BY <1>13 DEF vars
<1>. QED BY <1>1, <1>2, <1>3, <1>4, <1>5, <1>6, <1>7, <1>8, <1>9, <1>10, <1>11, <1>12, <1>13
     DEF Next

LEMMA InitType == Init => TypeOK
<1>. SUFFICES ASSUME Init PROVE TypeOK
  OBVIOUS
<1>1. IsList(list) /\ IsList(tmp)
  BY EmptyList DEF Init
<1>2. freed \in BOOLEAN /\ found \in BOOLEAN /\ reused \in BOOLEAN /\ blind \in BOOLEAN
  BY DEF Init
<1>3. conf \in Files \cup {<<>>} /\ owner \in Seq(Name)
  BY EmptyLines DEF Init
<1>4. file \in [here : BOOLEAN, mtime : Nat, lines : Files \cup {<<>>}]
  BY EmptyLines DEF Init
<1>. QED BY <1>1, <1>2, <1>3, <1>4 DEF Init, TypeOK, Caller

\* The statics, the list under construction and the tables stay what they should be, whatever
\* the administrator and the manager do in between.
THEOREM TypeCorrect == Spec => []TypeOK
BY InitType, StepType, PTL DEF Spec

-----------------------------------------------------------------------------
(* Indices *)

LEMMA DieOwned == ASSUME NEW how, Die(how) PROVE IndicesOwned' /\ TablesOwned' /\ IndicesKept'
BY EmptyList DEF Die, IndicesOwned, TablesOwned, IndicesKept

\* A list that is used from now on, with its indices; what was built is gone.
LEMMA NewListOwned ==
    ASSUME IInv, IsList(list'), NEW h \in Addr \cup {Null}, Return(list', h),
           next' = next, owner' = owner, \A n \in DOMAIN list' : Owned(n, list'[n].index)
    PROVE  IndicesOwned' /\ TablesOwned' /\ IndicesKept'
<1>1. DOMAIN tmp' = {}
  BY EmptyList DEF Return
<1>2. TablesOwned'
  BY ReturnedOwned DEF IInv
<1>. QED BY <1>1, <1>2 DEF IInv, IndicesOwned, IndicesKept, Owned

LEMMA UnchangedOwned ==
    ASSUME IInv, NEW time, Unchanged(time)
    PROVE  IndicesOwned' /\ TablesOwned' /\ IndicesKept'
<1>1. PICK auth \in Auths : list' = update_enforce_auth(list, auth)
  BY DEF Unchanged
<1>2. IsList(list')
  BY <1>1, UpdatedList DEF IInv, TypeOK
<1>3. \A n \in DOMAIN list' : n \in DOMAIN list /\ list'[n].index = list[n].index
  BY <1>1, UpdatedList DEF IInv, TypeOK
<1>4. \A n \in DOMAIN list' : Owned(n, list'[n].index)
  BY <1>3 DEF IInv, IndicesOwned
<1>5. /\ head \in Addr \cup {Null} /\ Return(list', head)
      /\ next' = next /\ owner' = owner
  BY DEF IInv, TypeOK, Unchanged
<1>. QED BY <1>2, <1>4, <1>5, NewListOwned

\* Steps that leave the indices alone.
LEMMA SameOwned ==
    ASSUME IInv, list' = list, next' = next, owner' = owner, DOMAIN tmp' = {} \/ tmp' = tmp,
           ident' = ident, idName' = idName, tgtAuth' = tgtAuth \/ tgtAuth' = {}
    PROVE  IndicesOwned' /\ TablesOwned' /\ IndicesKept'
BY DEF IInv, IndicesOwned, TablesOwned, IndicesKept, Owned

LEMMA StepOwned == IInv /\ [Next]_vars => IInv'
<1>. SUFFICES ASSUME IInv, [Next]_vars PROVE IndicesOwned' /\ TablesOwned' /\ IndicesKept'
  BY StepType DEF IInv
<1>. USE DEF admin, statics, locals, tables, history
<1>1. CASE (\E f \in Files : Edit(f)) \/ Remove \/ Tick \/ Start \/ SkipLine
  BY <1>1, SameOwned DEF Edit, Remove, Tick, Start, SkipLine
<1>2. CASE Stop \/ NullEntry \/ UseFreed
  BY <1>2, DieOwned DEF Stop, NullEntry, UseFreed
<1>3. ASSUME NEW c \in Caller, Request(c) PROVE IndicesOwned' /\ TablesOwned' /\ IndicesKept'
  BY <1>3, SameOwned DEF Request
<1>4. CASE Stat \/ StatFails
  <2>1. ASSUME NEW time, GoOpen(time) PROVE IndicesOwned' /\ TablesOwned' /\ IndicesKept'
    BY <2>1, SameOwned DEF GoOpen
  <2>. QED BY <1>4, <2>1, UnchangedOwned DEF Stat, StatFails
<1>5. CASE Open
  BY <1>5, SameOwned, EmptyList DEF Open
<1>6. CASE OpenFails
  <2>1. TablesOwned'
    BY <1>6, EmptyList, ReturnedOwned DEF IInv, OpenFails
  <2>2. DOMAIN tmp' = {}
    BY <1>6, EmptyList DEF OpenFails, Return
  <2>. QED BY <1>6, <2>1, <2>2 DEF OpenFails, IInv, IndicesOwned, IndicesKept, Owned
<1>7. CASE KnownName
  <2> DEFINE l == conf[pos]
  <2>1. l \in Line /\ l.name \in DOMAIN tmp /\ AddLine(l, 0) /\ IsList(tmp)
    BY <1>7, FileType DEF KnownName, IInv, TypeOK
  <2>. HIDE DEF l
  <2>2. /\ \A n \in DOMAIN tmp : tmp'[n].index = tmp[n].index
        /\ \A n \in DOMAIN tmp' : n \in DOMAIN tmp
    BY <2>1, AddedLine
  <2>3. UNCHANGED <<list, next, owner, ident, idName, tgtAuth>>
    BY <1>7 DEF KnownName
  <2>. QED BY <2>2, <2>3 DEF IInv, IndicesOwned, TablesOwned, IndicesKept, Owned
<1>8. CASE NewName
  <2> DEFINE l == conf[pos]
             i == get_authId_index(l.name)
  <2>1. l \in Line /\ l.name \in Name /\ l.name \notin DOMAIN tmp /\ AddLine(l, i)
        /\ IsList(tmp) /\ IsList(list) /\ owner \in Seq(Name) /\ next \in Nat \ {0}
    BY <1>8, FileType DEF NewName, IInv, TypeOK
  <2>2. i \in Nat \ {0}
    BY <2>1 DEF get_authId_index, IsList
  <2>3. \/ /\ l.name \in DOMAIN list /\ i = list[l.name].index
           /\ next' = next /\ owner' = owner
        \/ /\ l.name \notin DOMAIN list /\ i = next
           /\ next' = next + 1 /\ owner' = Append(owner, l.name)
    BY <1>8 DEF NewName, get_authId_index
  <2>4. UNCHANGED <<list, ident, idName, tgtAuth>>
    BY <1>8 DEF NewName
  <2>. HIDE DEF l, i
  <2>5. /\ \A n \in DOMAIN tmp : tmp'[n].index = tmp[n].index
        /\ \A n \in DOMAIN tmp' : n \in DOMAIN tmp \/ (n = l.name /\ tmp'[n].index = i)
    BY <2>1, <2>2, AddedLine
  <2>6. next' = Len(owner') + 1
    BY <2>1, <2>3 DEF IInv, IndicesOwned
  <2>7. \A n, j : Owned(n, j) => j \in DOMAIN owner' /\ owner'[j] = n
    BY <2>1, <2>3 DEF Owned
  <2>8. i \in DOMAIN owner' /\ owner'[i] = l.name
    BY <2>1, <2>3 DEF IInv, IndicesOwned, Owned
  <2>9. \A n \in DOMAIN tmp' : tmp'[n].index \in DOMAIN owner' /\ owner'[tmp'[n].index] = n
    BY <2>5, <2>7, <2>8 DEF IInv, IndicesOwned
  <2>10. \A n \in DOMAIN list : list[n].index \in DOMAIN owner' /\ owner'[list[n].index] = n
    BY <2>7 DEF IInv, IndicesOwned
  <2>11. IndicesOwned'
    BY <2>4, <2>6, <2>9, <2>10 DEF IndicesOwned, Owned
  <2>12. TablesOwned'
    BY <2>4, <2>7 DEF IInv, TablesOwned, Owned
  <2>13. IndicesKept'
    BY <2>3, <2>4, <2>5 DEF IInv, IndicesKept
  <2>. QED BY <2>11, <2>12, <2>13
<1>9. CASE LoadEnds
  <2>1. PICK auth \in Auths : list' = update_enforce_auth(tmp, auth)
    BY <1>9 DEF LoadEnds
  <2>2. IsList(list')
    BY <2>1, UpdatedList DEF IInv, TypeOK
  <2>3. \A n \in DOMAIN list' : n \in DOMAIN tmp /\ list'[n].index = tmp[n].index
    BY <2>1, UpdatedList DEF IInv, TypeOK
  <2>4. \A n \in DOMAIN list' : Owned(n, list'[n].index)
    BY <2>3 DEF IInv, IndicesOwned
  <2>5. /\ head' \in Addr \cup {Null} /\ Return(list', head')
        /\ next' = next /\ owner' = owner
    BY <1>9 DEF LoadEnds, HeadOf
  <2>. QED BY <2>2, <2>4, <2>5, NewListOwned
<1>10. CASE UNCHANGED vars
  BY <1>10, SameOwned DEF vars
<1>. QED BY <1>1, <1>2, <1>3, <1>4, <1>5, <1>6, <1>7, <1>8, <1>9, <1>10 DEF Next

LEMMA InitOwned == Init => IInv
BY InitType, EmptyList DEF Init, IInv, IndicesOwned, TablesOwned, IndicesKept, Owned

LEMMA OwnedMeansOneName == IInv => IndexMeansOneName
<1>1. IInv => \A u \in Uses : Owned(u[1], u[2])
  BY DEF IInv, IndicesOwned, TablesOwned, Uses
<1>. QED BY <1>1 DEF IndexMeansOneName, Owned

\* However the tables were loaded and the file was replaced in between, and whatever malloc
\* refused, no index is found with two names.
THEOREM IndicesMeanOneName == Spec => []IndexMeansOneName
BY InitOwned, StepOwned, OwnedMeansOneName, PTL DEF Spec

-----------------------------------------------------------------------------
(* Refinement *)

IndexOf(L) == [n \in DOMAIN L |-> L[n].index]

LEMMA InitPromise == Init => Promise!Init
BY EmptyList DEF Init, Promise!Init, Promise!Nothing

LEMMA DiePromise == ASSUME NEW how, Die(how) PROVE Promise!Restart
BY EmptyList DEF Die, Promise!Restart, Promise!Nothing

\* A new list is one that the promise allows.
LEMMA ReplacePromise ==
    ASSUME IInv, IsList(list'), owner' = owner,
           \A n \in DOMAIN list' : Owned(n, list'[n].index),
           \A n \in DOMAIN list' \cap DOMAIN list : list'[n].index = list[n].index
    PROVE  \E names \in SUBSET Name : Promise!Replace(names)
<1>1. DOMAIN list' \in SUBSET Name
  BY DEF IsList
<1> DEFINE names == DOMAIN list'
<1>2. /\ \A n \in names : list'[n].index \in DOMAIN owner /\ owner[list'[n].index] = n
      /\ \A n \in names \cap DOMAIN list : list'[n].index = list[n].index
  BY DEF Owned
<1>. QED BY <1>1, <1>2 DEF Promise!Replace

LEMMA StepPromise == IInv /\ [Next]_vars => [Promise!Next]_<<owner, IndexOf(list)>>
<1>. SUFFICES ASSUME IInv, [Next]_vars
             PROVE  Promise!Next \/ UNCHANGED <<owner, IndexOf(list)>>
  OBVIOUS
<1>. USE DEF admin, statics, locals, tables, history
<1>1. CASE UNCHANGED <<owner, list>>
  BY <1>1 DEF IndexOf
<1>2. CASE Stop \/ NullEntry \/ UseFreed
  BY <1>2, DiePromise DEF Stop, NullEntry, UseFreed, Promise!Next
<1>3. ASSUME NEW time, Unchanged(time) PROVE Promise!Next
  <2>1. PICK auth \in Auths : list' = update_enforce_auth(list, auth)
    BY <1>3 DEF Unchanged
  <2>2. /\ IsList(list')
        /\ \A n \in DOMAIN list' : n \in DOMAIN list /\ list'[n].index = list[n].index
    BY <2>1, UpdatedList DEF IInv, TypeOK
  <2>3. owner' = owner /\ \A n \in DOMAIN list' : Owned(n, list'[n].index)
    BY <1>3, <2>2 DEF Unchanged, IInv, IndicesOwned
  <2>. QED BY <2>2, <2>3, ReplacePromise DEF Promise!Next
<1>4. CASE LoadEnds
  <2>1. PICK auth \in Auths : list' = update_enforce_auth(tmp, auth)
    BY <1>4 DEF LoadEnds
  <2>2. /\ IsList(list')
        /\ \A n \in DOMAIN list' : n \in DOMAIN tmp /\ list'[n].index = tmp[n].index
    BY <2>1, UpdatedList DEF IInv, TypeOK
  <2>3. owner' = owner /\ \A n \in DOMAIN list' : Owned(n, list'[n].index)
    BY <1>4, <2>2 DEF LoadEnds, IInv, IndicesOwned
  <2>4. \A n \in DOMAIN list' \cap DOMAIN list : list'[n].index = list[n].index
    BY <2>2 DEF IInv, IndicesKept
  <2>. QED BY <2>2, <2>3, <2>4, ReplacePromise DEF Promise!Next
<1>5. CASE NewName
  <2>1. conf[pos].name \in Name /\ list' = list
    BY <1>5, FileType DEF NewName, IInv
  <2>2. owner' = owner \/ owner' = Append(owner, conf[pos].name)
    BY <1>5 DEF NewName
  <2>3. IndexOf(list)' = IndexOf(list)
    BY <2>1 DEF IndexOf
  <2>4. owner' = Append(owner, conf[pos].name) => Promise!Give(conf[pos].name)
    BY <2>1 DEF Promise!Give
  <2>. QED BY <2>1, <2>2, <2>3, <2>4 DEF Promise!Next
<1>6. CASE Stat \/ StatFails
  BY <1>1, <1>3, <1>6 DEF Stat, StatFails, GoOpen
<1>7. CASE (\E f \in Files : Edit(f)) \/ Remove \/ Tick \/ Start \/ SkipLine \/ Open
           \/ OpenFails \/ KnownName \/ (\E c \in Caller : Request(c)) \/ UNCHANGED vars
  BY <1>1, <1>7 DEF Edit, Remove, Tick, Start, SkipLine, Open, OpenFails, KnownName, Request, vars
<1>. QED BY <1>2, <1>4, <1>5, <1>6, <1>7 DEF Next

\* The indices of the list are given once, to one name, and kept.
THEOREM KeepsPromise == Spec => ImplementsAuthIndex
<1>1. IInv /\ [Next]_vars => [Promise!Next]_<<owner, [n \in DOMAIN list |-> list[n].index]>>
  BY StepPromise DEF IndexOf
<1>. QED BY <1>1, InitPromise, InitOwned, StepOwned, PTL
     DEF Spec, ImplementsAuthIndex, Promise!Spec

-----------------------------------------------------------------------------
(* Crashes *)

\* Steps after which there is nothing under construction, or what there was.
LEMMA SameLines ==
    ASSUME LInv, \/ DOMAIN tmp' = {} /\ ~found'
                 \/ tmp' = tmp /\ conf' = conf /\ found' = found /\ pos' \in {pos, pos + 1}
    PROVE  BuiltFromLines' /\ FoundMeansRepeat'
<1>1. CASE DOMAIN tmp' = {} /\ ~found'
  BY <1>1 DEF BuiltFromLines, FoundMeansRepeat
<1>2. CASE tmp' = tmp /\ conf' = conf /\ found' = found /\ pos' \in {pos, pos + 1}
  <2>1. conf \in Seq(Line \cup {Skipped}) /\ pos \in Nat
    BY EmptyLines DEF LInv, TypeOK
  <2>2. DOMAIN conf \subseteq Nat
    BY <2>1
  <2>3. FoundMeansRepeat'
    BY <1>2 DEF LInv, FoundMeansRepeat
  <2>4. BuiltFromLines'
    BY <1>2, <2>1, <2>2 DEF LInv, BuiltFromLines
  <2>. QED BY <2>3, <2>4
<1>. QED BY <1>1, <1>2

\* A line that is read, known or new.
LEMMA AddedFromLine ==
    ASSUME LInv, AtLine, conf[pos] # Skipped, conf' = conf, NEW i,
           i \in Nat \ {0} \/ conf[pos].name \in DOMAIN tmp, AddLine(conf[pos], i)
    PROVE  BuiltFromLines' /\ FoundMeansRepeat'
<1> DEFINE l == conf[pos]
<1>1. l \in Line /\ conf \in Seq(Line \cup {Skipped}) /\ pos \in DOMAIN conf /\ pos \in Nat
  BY FileType DEF LInv, TypeOK
<1>2. l = [name |-> l.name, tpgt |-> l.tpgt, user |-> l.user]
  BY <1>1 DEF Line
<1>3. IsList(tmp) /\ (i \in Nat \ {0} \/ l.name \in DOMAIN tmp) /\ AddLine(l, i)
  BY DEF LInv, TypeOK
<1>. HIDE DEF l
<1>4. /\ \A n \in DOMAIN tmp' : \A c \in DOMAIN tmp'[n].creds :
           \/ n \in DOMAIN tmp /\ c \in DOMAIN tmp[n].creds
           \/ n = l.name /\ c = <<l.tpgt, l.user>>
      /\ found' => l.name \in DOMAIN tmp /\ <<l.tpgt, l.user>> \in DOMAIN tmp[l.name].creds
      /\ pos' \in {pos + 1, Len(conf) + 1}
  BY <1>1, <1>3, AddedLine
<1>5. pos' > pos /\ DOMAIN conf \subseteq Nat
  BY <1>1, <1>4
<1>6. BuiltFromLines'
  <2>. SUFFICES ASSUME NEW n \in DOMAIN tmp', NEW c \in DOMAIN tmp'[n].creds
               PROVE  \E j \in DOMAIN conf :
                        j < pos' /\ conf[j] = [name |-> n, tpgt |-> c[1], user |-> c[2]]
    BY DEF BuiltFromLines
  <2>1. CASE n \in DOMAIN tmp /\ c \in DOMAIN tmp[n].creds
    <3>1. PICK j \in DOMAIN conf :
             j < pos /\ conf[j] = [name |-> n, tpgt |-> c[1], user |-> c[2]]
      BY <2>1 DEF LInv, BuiltFromLines
    <3>2. j < pos'
      BY <1>1, <1>4, <1>5, <3>1
    <3>. QED BY <3>1, <3>2
  <2>2. CASE n = l.name /\ c = <<l.tpgt, l.user>>
    <3>1. conf[pos] = [name |-> n, tpgt |-> c[1], user |-> c[2]]
      BY <1>2, <2>2 DEF l
    <3>. QED BY <1>1, <1>5, <3>1
  <2>. QED BY <1>4, <2>1, <2>2
<1>7. FoundMeansRepeat'
  <2>. SUFFICES ASSUME found' PROVE Repeats(conf)
    BY DEF FoundMeansRepeat
  <2>1. l.name \in DOMAIN tmp /\ <<l.tpgt, l.user>> \in DOMAIN tmp[l.name].creds
    BY <1>4
  <2>2. PICK j \in DOMAIN conf :
           j < pos /\ conf[j] = [name |-> l.name, tpgt |-> l.tpgt, user |-> l.user]
    BY <2>1 DEF LInv, BuiltFromLines
  <2>. QED BY <1>1, <1>2, <2>2 DEF Repeats, l
<1>. QED BY <1>6, <1>7

LEMMA StepLines == LInv /\ [Next]_vars => LInv'
<1>. SUFFICES ASSUME LInv, [Next]_vars PROVE BuiltFromLines' /\ FoundMeansRepeat'
  BY StepType DEF LInv
<1>. USE DEF admin, statics, locals, tables, history
<1>1. CASE (\E f \in Files : Edit(f)) \/ Remove \/ Tick \/ Start \/ SkipLine
           \/ (\E c \in Caller : Request(c)) \/ UNCHANGED vars
  BY <1>1, SameLines DEF Edit, Remove, Tick, Start, SkipLine, Request, vars
<1>2. CASE Stop \/ NullEntry \/ UseFreed \/ Open
  BY <1>2, SameLines, EmptyList DEF Stop, NullEntry, UseFreed, Die, Open
<1>3. CASE Stat \/ StatFails \/ OpenFails \/ LoadEnds
  <2>1. ASSUME NEW L, NEW h, Return(L, h) PROVE BuiltFromLines' /\ FoundMeansRepeat'
    BY <2>1, SameLines, EmptyList DEF Return
  <2>2. ASSUME NEW time, GoOpen(time) PROVE BuiltFromLines' /\ FoundMeansRepeat'
    BY <2>2, SameLines DEF GoOpen
  <2>. QED BY <1>3, <2>1, <2>2 DEF Stat, StatFails, Unchanged, OpenFails, LoadEnds
<1>4. CASE KnownName
  BY <1>4, AddedFromLine DEF KnownName
<1>5. CASE NewName
  <2>1. get_authId_index(conf[pos].name) \in Nat \ {0}
    BY DEF get_authId_index, LInv, TypeOK, IsList
  <2>. QED BY <1>5, <2>1, AddedFromLine DEF NewName
<1>. QED BY <1>1, <1>2, <1>3, <1>4, <1>5 DEF Next

LEMMA InitLines == Init => LInv
BY InitType, EmptyList DEF Init, LInv, BuiltFromLines, FoundMeansRepeat

LEMMA StepCrashes == LInv /\ [Next]_vars => (pc' = "crashed" /\ pc # pc' => Repeats(conf))
<1>. SUFFICES ASSUME LInv, [Next]_vars, pc' = "crashed", pc # pc' PROVE Repeats(conf)
  OBVIOUS
<1>. USE DEF admin, statics, locals, tables, history
<1>1. ASSUME NEW L, NEW h, Return(L, h) PROVE pc' # "crashed"
  BY <1>1 DEF Return, ipsAuthIdentAttr_load, ipsAuthIdentNameAttr_load, ipsAuthCredAttr_load,
     ipsAuthCredChapAttr_load, iscsiTgtAuthAttributes_load
<1>2. ~(Stat \/ StatFails \/ OpenFails \/ LoadEnds)
  BY <1>1 DEF Stat, StatFails, Unchanged, GoOpen, OpenFails, LoadEnds
<1>3. ~(Stop \/ UseFreed \/ Start \/ Open \/ \E c \in Caller : Request(c))
  BY DEF Stop, UseFreed, Die, Start, Open, Request
<1>4. ~((\E f \in Files : Edit(f)) \/ Remove \/ Tick \/ SkipLine \/ KnownName \/ NewName
        \/ UNCHANGED vars)
  BY DEF Edit, Remove, Tick, SkipLine, KnownName, NewName, vars
<1>5. NullEntry
  BY <1>2, <1>3, <1>4 DEF Next
<1>. QED BY <1>5 DEF NullEntry, LInv, FoundMeansRepeat

\* A load follows a NULL pointer only in a file that has some line twice.
THEOREM CrashesNeedRepeat == Spec => CrashesOnlyOnRepeat
BY InitLines, StepLines, StepCrashes, PTL DEF Spec, CrashesOnlyOnRepeat

-----------------------------------------------------------------------------
(* What the agent does not load again is what a load would make: a list whose time is that  *)
(* of the file has its names and credentials, and a table that compares equal with the head  *)
(* of the list has its rows.                                                                  *)

DescrRows(L) == {[index |-> L[n].index, descr |-> n] : n \in DOMAIN L}
NameRows(L) == {[index |-> L[n].index, name |-> n] : n \in DOMAIN L}

\* The pointer is NULL for the empty list alone, and so is one that a table remembers.
HeadsMean ==
    /\ DOMAIN list = {} <=> head = Null
    /\ identPrev = Null => ident = {}
    /\ idNamePrev = Null => idName = {}

RInv == TypeOK /\ HeadsMean /\ IdentityRowsCurrent

\* The list L has the names and credentials of the lines.
Listed(L, lines) ==
    /\ DOMAIN L = Names(lines)
    /\ \A n \in DOMAIN L : DOMAIN L[n].creds = CredsOf(lines, n)

\* The times are those of contents that the file had, in their order.
TimesInOrder ==
    /\ clock >= 1 /\ file.mtime <= clock
    /\ file.mtime = 0 => file.lines = <<>>
    /\ ~blind => mtime <= file.mtime /\ (pc = "open" => sbuf <= file.mtime)

\* The list that is being built has all that the lines before pos say, and nothing else.
NamesBefore(p) == {conf[i].name : i \in {j \in DOMAIN conf : j < p /\ conf[j] # Skipped}}
CredsBefore(p, n) ==
    {<<conf[i].tpgt, conf[i].user>> :
       i \in {j \in DOMAIN conf : j < p /\ conf[j] # Skipped /\ conf[j].name = n}}
BuiltSoFar ==
    pc = "lines" /\ failures = 0 =>
      /\ DOMAIN tmp = NamesBefore(pos)
      /\ \A n \in DOMAIN tmp : DOMAIN tmp[n].creds = CredsBefore(pos, n)

\* At one time there is one contents: what is read is the file, and so is what was loaded.
CurrentWhenEqual ==
    ~blind /\ file.mtime = mtime =>
      /\ pc = "lines" => conf = file.lines
      /\ pc # "lines" /\ failures = 0 => Listed(list, file.lines)

CInv == TypeOK /\ TimesInOrder /\ BuiltSoFar /\ CurrentWhenEqual

-----------------------------------------------------------------------------
(* Rows *)

\* Lists with the same names and indices make the same rows.
LEMMA SameRows ==
    ASSUME NEW K, NEW L, DOMAIN K = DOMAIN L, \A n \in DOMAIN L : K[n].index = L[n].index
    PROVE  DescrRows(K) = DescrRows(L) /\ NameRows(K) = NameRows(L)
<1>1. \A n \in DOMAIN L : [index |-> K[n].index, descr |-> n] = [index |-> L[n].index, descr |-> n]
  OBVIOUS
<1>2. \A n \in DOMAIN L : [index |-> K[n].index, name |-> n] = [index |-> L[n].index, name |-> n]
  OBVIOUS
<1>3. DescrRows(K) = DescrRows(L)
  BY <1>1 DEF DescrRows
<1>4. NameRows(K) = NameRows(L)
  BY <1>2 DEF NameRows
<1>. QED BY <1>3, <1>4

\* The empty list makes no rows.
LEMMA NoRows == ASSUME NEW L, DOMAIN L = {} PROVE DescrRows(L) = {} /\ NameRows(L) = {}
BY DEF DescrRows, NameRows

\* A filled table has all the rows, unless malloc failed.
LEMMA Filled ==
    ASSUME TypeOK, NEW table, NEW rows, Fill(table, rows)
    PROVE  /\ failures' \in Nat /\ (failures' = 0 => failures = 0 /\ table = rows)
           /\ table \subseteq rows
BY DEF Fill, MallocFails, TypeOK

\* A load of the list L at the address h leaves rows that are current: it is skipped only
\* where they were so already, and the rows of the tables that were not loaded are current too.
LEMMA ReturnedRows ==
    ASSUME RInv, NEW L, NEW h, Return(L, h),
           failures = 0 /\ ~reused' =>
             /\ identPrev = h => ident = DescrRows(L)
             /\ idNamePrev = h => idName = NameRows(L)
             /\ identPrev = head' => ident = DescrRows(list')
             /\ idNamePrev = head' => idName = NameRows(list'),
           h = head' => DescrRows(L) = DescrRows(list') /\ NameRows(L) = NameRows(list'),
           h = Null => DescrRows(L) = {} /\ NameRows(L) = {},
           DOMAIN list' = {} <=> head' = Null
    PROVE  HeadsMean' /\ IdentityRowsCurrent'
<1>1. /\ identPrev = Null => ident = {}
      /\ idNamePrev = Null => idName = {}
      /\ failures \in Nat
  BY DEF RInv, HeadsMean, TypeOK
<1> DEFINE Current == /\ identPrev' = Null => ident' = {}
                      /\ idNamePrev' = Null => idName' = {}
                      /\ ~reused' /\ failures' = 0 =>
                           /\ identPrev' = head' => ident' = DescrRows(list')
                           /\ idNamePrev' = head' => idName' = NameRows(list')
<1>. SUFFICES Current
  <2>1. ASSUME Current PROVE HeadsMean' /\ IdentityRowsCurrent'
    BY <2>1 DEF HeadsMean, IdentityRowsCurrent, DescrRows, NameRows
  <2>. QED BY <2>1
<1>2. CASE ipsAuthIdentAttr_load(L, h)
  <2>1. identPrev' = h /\ UNCHANGED <<idName, idNamePrev>>
    BY <1>2 DEF ipsAuthIdentAttr_load
  <2>2. CASE h = identPrev
    <3>1. UNCHANGED <<ident, failures>>
      BY <1>2, <2>2 DEF ipsAuthIdentAttr_load
    <3>. QED BY <1>1, <2>1, <2>2, <3>1
  <2>3. CASE h # identPrev
    <3>1. Fill(ident', DescrRows(L))
      BY <1>2, <2>3 DEF ipsAuthIdentAttr_load, DescrRows
    <3>2. (failures' = 0 => failures = 0 /\ ident' = DescrRows(L)) /\ ident' \subseteq DescrRows(L)
      BY <3>1, Filled DEF RInv
    <3>. QED BY <1>1, <2>1, <3>2
  <2>. QED BY <2>2, <2>3
<1>3. CASE ipsAuthIdentNameAttr_load(L, h)
  <2>1. idNamePrev' = h /\ UNCHANGED <<ident, identPrev>>
    BY <1>3 DEF ipsAuthIdentNameAttr_load
  <2>2. CASE h = idNamePrev
    <3>1. UNCHANGED <<idName, failures>>
      BY <1>3, <2>2 DEF ipsAuthIdentNameAttr_load
    <3>. QED BY <1>1, <2>1, <2>2, <3>1
  <2>3. CASE h # idNamePrev
    <3>1. Fill(idName', NameRows(L))
      BY <1>3, <2>3 DEF ipsAuthIdentNameAttr_load, NameRows
    <3>2. (failures' = 0 => failures = 0 /\ idName' = NameRows(L)) /\ idName' \subseteq NameRows(L)
      BY <3>1, Filled DEF RInv
    <3>. QED BY <1>1, <2>1, <3>2
  <2>. QED BY <2>2, <2>3
<1>4. CASE ipsAuthCredAttr_load(L) \/ ipsAuthCredChapAttr_load(L) \/ iscsiTgtAuthAttributes_load(L)
  <2>1. UNCHANGED <<ident, identPrev, idName, idNamePrev>>
    BY <1>4 DEF ipsAuthCredAttr_load, ipsAuthCredChapAttr_load, iscsiTgtAuthAttributes_load
  <2>2. failures' \in {failures, failures + 1}
    BY <1>4 DEF ipsAuthCredAttr_load, ipsAuthCredChapAttr_load, iscsiTgtAuthAttributes_load,
       Fill, MallocFails
  <2>3. failures' = 0 => failures = 0
    BY <1>1, <2>2
  <2>. QED BY <1>1, <2>1, <2>3
<1>. QED BY <1>2, <1>3, <1>4 DEF Return

\* Steps that leave the list and both tables alone.
LEMMA SameList ==
    ASSUME RInv, UNCHANGED <<list, head, ident, identPrev, idName, idNamePrev, reused>>,
           failures' \in {failures, failures + 1}
    PROVE  HeadsMean' /\ IdentityRowsCurrent'
<1>1. failures' = 0 => failures = 0
  BY DEF RInv, TypeOK
<1>. QED BY <1>1 DEF RInv, HeadsMean, IdentityRowsCurrent

\* The list stays, with what the kernel enforces now, and is returned.
LEMMA UnchangedRows ==
    ASSUME RInv, NEW time, Unchanged(time) PROVE HeadsMean' /\ IdentityRowsCurrent'
<1>1. PICK auth \in Auths : list' = update_enforce_auth(list, auth)
  BY DEF Unchanged
<1>2. DOMAIN list' = DOMAIN list /\ \A n \in DOMAIN list : list'[n].index = list[n].index
  BY <1>1, UpdatedList DEF RInv, TypeOK
<1>3. DescrRows(list') = DescrRows(list) /\ NameRows(list') = NameRows(list)
  BY <1>2, SameRows
<1>4. Return(list', head) /\ head' = head /\ reused' = reused
  BY DEF Unchanged
<1>5. /\ DOMAIN list' = {} <=> head' = Null
      /\ head = Null => DescrRows(list') = {} /\ NameRows(list') = {}
  BY <1>2, <1>4, NoRows DEF RInv, HeadsMean
<1>6. failures = 0 /\ ~reused' =>
        /\ identPrev = head => ident = DescrRows(list')
        /\ idNamePrev = head => idName = NameRows(list')
  BY <1>3, <1>4 DEF RInv, IdentityRowsCurrent, DescrRows, NameRows
<1>7. RInv
  OBVIOUS
<1>. HIDE DEF RInv
<1>. QED BY <1>4, <1>5, <1>6, <1>7, ReturnedRows

\* No step but one that malloc lets down changes what a table has of the list it compares with.
LEMMA StepRows == RInv /\ [Next]_vars => RInv'
<1>. SUFFICES ASSUME RInv, [Next]_vars PROVE HeadsMean' /\ IdentityRowsCurrent'
  BY StepType DEF RInv
<1>. USE DEF admin, statics, locals, tables, history
<1>1. CASE (\E f \in Files : Edit(f)) \/ Remove \/ Tick \/ Start \/ SkipLine \/ Open
           \/ (\E c \in Caller : Request(c)) \/ UNCHANGED vars
  BY <1>1, SameList DEF Edit, Remove, Tick, Start, SkipLine, Open, Request, vars
<1>2. CASE Stop \/ NullEntry \/ UseFreed
  <2>1. /\ DOMAIN list' = {} /\ head' = Null /\ ident' = {} /\ idName' = {}
    BY <1>2, EmptyList DEF Stop, NullEntry, UseFreed, Die
  <2>. QED BY <2>1 DEF HeadsMean, IdentityRowsCurrent
<1>3. CASE Stat \/ StatFails
  <2>1. ASSUME NEW time, GoOpen(time) PROVE HeadsMean' /\ IdentityRowsCurrent'
    BY <2>1, SameList DEF GoOpen
  <2>. QED BY <1>3, <2>1, UnchangedRows DEF Stat, StatFails
<1>4. CASE OpenFails
  <2>1. Return(Empty, Null) /\ UNCHANGED <<list, head, reused>>
    BY <1>4 DEF OpenFails
  <2>2. DescrRows(Empty) = {} /\ NameRows(Empty) = {}
    BY EmptyList, NoRows
  <2>3. head' = Null => DescrRows(list') = {} /\ NameRows(list') = {}
    BY <2>1, NoRows DEF RInv, HeadsMean
  <2>4. failures = 0 /\ ~reused' =>
          /\ identPrev = Null => ident = DescrRows(Empty)
          /\ idNamePrev = Null => idName = NameRows(Empty)
          /\ identPrev = head' => ident = DescrRows(list')
          /\ idNamePrev = head' => idName = NameRows(list')
    BY <2>1, <2>2 DEF RInv, HeadsMean, IdentityRowsCurrent, DescrRows, NameRows
  <2>5. DOMAIN list' = {} <=> head' = Null
    BY <2>1 DEF RInv, HeadsMean
  <2>. HIDE DEF admin, statics, locals, tables, history
  <2>. QED BY <2>1, <2>2, <2>3, <2>4, <2>5, ReturnedRows
<1>5. CASE KnownName \/ NewName
  <2>1. failures' \in {failures, failures + 1}
    BY <1>5 DEF KnownName, NewName, AddLine, MallocFails
  <2>. QED BY <1>5, <2>1, SameList DEF KnownName, NewName
<1>6. CASE LoadEnds
  <2>1. PICK auth \in Auths : list' = update_enforce_auth(tmp, auth)
    BY <1>6 DEF LoadEnds
  <2>2. DOMAIN list' = DOMAIN tmp
    BY <2>1, UpdatedList DEF RInv, TypeOK
  <2>3. /\ head' \in HeadOf(tmp) /\ Return(list', head')
        /\ reused' = (reused \/ head' \in {identPrev, idNamePrev} \ {Null})
    BY <1>6 DEF LoadEnds
  <2>4. tmp = Empty <=> DOMAIN tmp = {}
    <3>1. tmp = [n \in DOMAIN tmp |-> [index |-> tmp[n].index, creds |-> tmp[n].creds]]
      BY DEF RInv, TypeOK, IsList
    <3>. QED BY <3>1, EmptyList DEF Empty
  <2>5. head' = Null <=> DOMAIN list' = {}
    BY <2>2, <2>3, <2>4, DataAssumption DEF HeadOf
  <2>6. head' = Null => DescrRows(list') = {} /\ NameRows(list') = {}
    BY <2>5, NoRows
  <2>7. failures = 0 /\ ~reused' =>
          /\ identPrev = head' => ident = DescrRows(list')
          /\ idNamePrev = head' => idName = NameRows(list')
    BY <2>3, <2>6 DEF RInv, HeadsMean
  <2>. HIDE DEF admin, statics, locals, tables, history
  <2>. QED BY <2>3, <2>5, <2>6, <2>7, ReturnedRows
<1>. QED BY <1>1, <1>2, <1>3, <1>4, <1>5, <1>6 DEF Next

LEMMA InitRows == Init => RInv
<1>. SUFFICES ASSUME Init PROVE HeadsMean /\ IdentityRowsCurrent
  BY InitType DEF RInv
<1>1. DOMAIN list = {} /\ head = Null /\ ident = {} /\ idName = {}
  BY EmptyList DEF Init
<1>. QED BY <1>1 DEF HeadsMean, IdentityRowsCurrent

\* A table of identities skips a load only when it has the rows of the list already, as long
\* as malloc neither failed nor gave out an address again.
THEOREM SkippedRowsCurrent == Spec => []IdentityRowsCurrent
<1>1. RInv => IdentityRowsCurrent
  BY DEF RInv
<1>. QED BY <1>1, InitRows, StepRows, PTL DEF Spec

-----------------------------------------------------------------------------
(* Contents *)

\* No step makes malloc's failures undone.
LEMMA FailuresStay == ASSUME TypeOK, [Next]_vars PROVE failures' = 0 => failures = 0
<1>. USE DEF admin, statics, locals, tables, history
<1>1. failures \in Nat
  BY DEF TypeOK
<1>2. ASSUME NEW L, NEW h, Return(L, h) PROVE failures' \in {failures, failures + 1}
  BY <1>2 DEF Return, ipsAuthIdentAttr_load, ipsAuthIdentNameAttr_load, ipsAuthCredAttr_load,
     ipsAuthCredChapAttr_load, iscsiTgtAuthAttributes_load, Fill, MallocFails
<1>3. CASE Stat \/ StatFails \/ OpenFails \/ LoadEnds
  <2>1. failures' \in {failures, failures + 1}
    BY <1>2, <1>3 DEF Stat, StatFails, Unchanged, GoOpen, OpenFails, LoadEnds
  <2>. QED BY <1>1, <2>1
<1>4. CASE KnownName \/ NewName
  <2>1. failures' \in {failures, failures + 1}
    BY <1>4 DEF KnownName, NewName, AddLine, MallocFails
  <2>. QED BY <1>1, <2>1
<1>5. CASE (\E f \in Files : Edit(f)) \/ Remove \/ Tick \/ Stop \/ Start \/ SkipLine \/ Open
           \/ NullEntry \/ UseFreed \/ (\E c \in Caller : Request(c)) \/ UNCHANGED vars
  BY <1>5 DEF Edit, Remove, Tick, Stop, Start, SkipLine, Open, NullEntry, UseFreed, Die,
     Request, vars
<1>. QED BY <1>3, <1>4, <1>5 DEF Next

\* The lines up to the next one, and all of them.
LEMMA OneLineMore ==
    ASSUME conf \in Seq(Line \cup {Skipped}), pos \in DOMAIN conf
    PROVE  /\ conf[pos] = Skipped =>
                NamesBefore(pos + 1) = NamesBefore(pos)
                /\ \A n : CredsBefore(pos + 1, n) = CredsBefore(pos, n)
           /\ conf[pos] # Skipped =>
                NamesBefore(pos + 1) = NamesBefore(pos) \cup {conf[pos].name}
                /\ \A n : CredsBefore(pos + 1, n) = CredsBefore(pos, n) \cup
                     (IF n = conf[pos].name THEN {<<conf[pos].tpgt, conf[pos].user>>} ELSE {})
<1>1. DOMAIN conf \subseteq Nat
  OBVIOUS
<1>2. \A j \in DOMAIN conf : j < pos + 1 <=> (j < pos \/ j = pos)
  BY <1>1
<1>3. {j \in DOMAIN conf : j < pos + 1 /\ conf[j] # Skipped} =
        {j \in DOMAIN conf : j < pos /\ conf[j] # Skipped} \cup
          (IF conf[pos] # Skipped THEN {pos} ELSE {})
  BY <1>2
<1>4. \A n : {j \in DOMAIN conf : j < pos + 1 /\ conf[j] # Skipped /\ conf[j].name = n} =
        {j \in DOMAIN conf : j < pos /\ conf[j] # Skipped /\ conf[j].name = n} \cup
          (IF conf[pos] # Skipped /\ conf[pos].name = n THEN {pos} ELSE {})
  BY <1>2
<1>5. CASE conf[pos] = Skipped
  BY <1>3, <1>4, <1>5 DEF NamesBefore, CredsBefore
<1>6. CASE conf[pos] # Skipped
  <2>1. NamesBefore(pos + 1) = NamesBefore(pos) \cup {conf[pos].name}
    BY <1>3, <1>6 DEF NamesBefore
  <2>2. ASSUME NEW n
        PROVE  CredsBefore(pos + 1, n) = CredsBefore(pos, n) \cup
                 (IF n = conf[pos].name THEN {<<conf[pos].tpgt, conf[pos].user>>} ELSE {})
    BY <1>4, <1>6 DEF CredsBefore
  <2>. QED BY <1>6, <2>1, <2>2
<1>. QED BY <1>5, <1>6

\* Before the first line there is nothing, and behind the last one the whole file.
LEMMA AllLines ==
    ASSUME conf \in Seq(Line \cup {Skipped})
    PROVE  /\ NamesBefore(1) = {}
           /\ \A p \in Nat : p > Len(conf) =>
                NamesBefore(p) = Names(conf) /\ \A n : CredsBefore(p, n) = CredsOf(conf, n)
<1>1. DOMAIN conf = 1 .. Len(conf) /\ Len(conf) \in Nat
  OBVIOUS
<1>2. NamesBefore(1) = {}
  BY <1>1 DEF NamesBefore
<1>3. ASSUME NEW p \in Nat, p > Len(conf)
      PROVE  NamesBefore(p) = Names(conf) /\ \A n : CredsBefore(p, n) = CredsOf(conf, n)
  <2>1. \A j \in DOMAIN conf : j < p
    BY <1>1, <1>3
  <2>2. {j \in DOMAIN conf : j < p /\ conf[j] # Skipped} = {j \in DOMAIN conf : conf[j] # Skipped}
    BY <2>1
  <2>3. \A n : {j \in DOMAIN conf : j < p /\ conf[j] # Skipped /\ conf[j].name = n} =
               {j \in DOMAIN conf : conf[j] # Skipped /\ conf[j].name = n}
    BY <2>1
  <2>. QED BY <2>2, <2>3 DEF NamesBefore, Names, CredsBefore, CredsOf
<1>. QED BY <1>2, <1>3

\* A line for which malloc did not fail is in the list with its name and its credential.
LEMMA LineIsIn ==
    ASSUME IsList(tmp), NEW l, NEW i, AddLine(l, i), failures \in Nat, failures' = 0
    PROVE  /\ pos' = pos + 1
           /\ DOMAIN tmp' = DOMAIN tmp \cup {l.name}
           /\ \A n \in DOMAIN tmp' : DOMAIN tmp'[n].creds =
                (IF n \in DOMAIN tmp THEN DOMAIN tmp[n].creds ELSE {}) \cup
                (IF n = l.name THEN {<<l.tpgt, l.user>>} ELSE {})
<1> DEFINE c == <<l.tpgt, l.user>>
           e == EntryOf(l.name, i)
           w == WithCred(e, c)
<1>1. ~MallocFails
  BY DEF MallocFails
<1>2. /\ tmp' = [n \in DOMAIN tmp \cup {l.name} |-> IF n = l.name THEN w ELSE tmp[n]]
      /\ pos' = pos + 1
  BY <1>1 DEF AddLine
<1>3. /\ e = [index |-> e.index, creds |-> e.creds]
      /\ DOMAIN e.creds = IF l.name \in DOMAIN tmp THEN DOMAIN tmp[l.name].creds ELSE {}
  <2>1. CASE l.name \in DOMAIN tmp
    BY <2>1 DEF EntryOf, IsList
  <2>2. CASE l.name \notin DOMAIN tmp
    <3>1. e = [index |-> i, creds |-> Empty]
      BY <2>2 DEF EntryOf
    <3>2. e.index = i /\ e.creds = Empty
      BY <3>1
    <3>. HIDE DEF e
    <3>. QED BY <2>2, <3>1, <3>2, EmptyList
  <2>. QED BY <2>1, <2>2
<1>4. w.creds = [d \in DOMAIN e.creds \cup {c} |->
                   IF d \in DOMAIN e.creds THEN e.creds[d] ELSE FALSE]
  <2>. HIDE DEF e, c
  <2>. QED BY <1>3 DEF WithCred
<1>. HIDE DEF e, c, w
<1>5. DOMAIN w.creds = DOMAIN e.creds \cup {c}
  BY <1>4
<1>6. \A n \in DOMAIN tmp' : tmp'[n] = IF n = l.name THEN w ELSE tmp[n]
  BY <1>2
<1>7. DOMAIN tmp' = DOMAIN tmp \cup {l.name}
  BY <1>2
<1>. QED BY <1>2, <1>3, <1>5, <1>6, <1>7 DEF c

\* One more line is read as it should be.
LEMMA LineRead ==
    ASSUME CInv, AtLine, conf' = conf, pc' = pc,
           \/ conf[pos] = Skipped /\ pos' = pos + 1 /\ UNCHANGED <<tmp, failures>>
           \/ conf[pos] # Skipped /\ \E i : AddLine(conf[pos], i)
    PROVE  BuiltSoFar'
<1>1. conf \in Seq(Line \cup {Skipped}) /\ pos \in DOMAIN conf /\ IsList(tmp) /\ failures \in Nat
  BY FileType DEF CInv, TypeOK
<1>. SUFFICES ASSUME pc' = "lines", failures' = 0
             PROVE  /\ DOMAIN tmp' = NamesBefore(pos')
                    /\ \A n \in DOMAIN tmp' : DOMAIN tmp'[n].creds = CredsBefore(pos', n)
  BY DEF BuiltSoFar, NamesBefore, CredsBefore
<1>2. failures = 0
  BY <1>1 DEF AddLine, MallocFails
<1>3. /\ DOMAIN tmp = NamesBefore(pos)
      /\ \A n \in DOMAIN tmp : DOMAIN tmp[n].creds = CredsBefore(pos, n)
  BY <1>2 DEF CInv, BuiltSoFar
<1>4. CASE conf[pos] = Skipped /\ pos' = pos + 1 /\ tmp' = tmp
  BY <1>1, <1>3, <1>4, OneLineMore
<1>5. ASSUME conf[pos] # Skipped, NEW i, AddLine(conf[pos], i)
      PROVE  /\ DOMAIN tmp' = NamesBefore(pos')
             /\ \A n \in DOMAIN tmp' : DOMAIN tmp'[n].creds = CredsBefore(pos', n)
  <2> DEFINE l == conf[pos]
  <2>1. /\ NamesBefore(pos + 1) = NamesBefore(pos) \cup {l.name}
        /\ \A n : CredsBefore(pos + 1, n) = CredsBefore(pos, n) \cup
             (IF n = l.name THEN {<<l.tpgt, l.user>>} ELSE {})
    BY <1>1, <1>5, OneLineMore
  <2>2. \A n : n \notin NamesBefore(pos) => CredsBefore(pos, n) = {}
    BY DEF NamesBefore, CredsBefore
  <2>. HIDE DEF l
  <2>3. /\ pos' = pos + 1
        /\ DOMAIN tmp' = DOMAIN tmp \cup {l.name}
        /\ \A n \in DOMAIN tmp' : DOMAIN tmp'[n].creds =
             (IF n \in DOMAIN tmp THEN DOMAIN tmp[n].creds ELSE {}) \cup
             (IF n = l.name THEN {<<l.tpgt, l.user>>} ELSE {})
    BY <1>1, <1>5, LineIsIn DEF l
  <2>. QED BY <1>3, <2>1, <2>2, <2>3
<1>. QED BY <1>4, <1>5

\* Steps that leave the machine's file and what is remembered of it alone, and do not read.
LEMMA SameContents ==
    ASSUME CInv, UNCHANGED <<file, clock, mtime, blind>>, failures' = 0 => failures = 0,
           pc # "lines" /\ pc' \notin {"lines", "open"},
           DOMAIN list' = DOMAIN list,
           \A n \in DOMAIN list : DOMAIN list'[n].creds = DOMAIN list[n].creds
    PROVE  TimesInOrder' /\ BuiltSoFar' /\ CurrentWhenEqual'
<1>1. TimesInOrder'
  BY DEF CInv, TimesInOrder
<1>2. BuiltSoFar'
  BY DEF BuiltSoFar
<1>3. Listed(list, file.lines) => Listed(list', file'.lines)
  BY DEF Listed
<1>4. CurrentWhenEqual'
  <2>. SUFFICES ASSUME ~blind', file'.mtime = mtime', failures' = 0 PROVE Listed(list', file'.lines)
    BY DEF CurrentWhenEqual, Listed
  <2>. QED BY <1>3 DEF CInv, CurrentWhenEqual
<1>. QED BY <1>1, <1>2, <1>4

\* The process has ended: no time is remembered, and the file with no time has no contents.
LEMMA DieContents ==
    ASSUME CInv, NEW how \in {"down", "crashed", "undefined"}, Die(how)
    PROVE  TimesInOrder' /\ BuiltSoFar' /\ CurrentWhenEqual'
<1>1. /\ file' = file /\ clock' = clock /\ mtime' = 0 /\ pc' = how
      /\ DOMAIN list' = {}
  BY EmptyList DEF Die, admin
<1>2. TimesInOrder /\ file.mtime \in Nat
  BY DEF CInv, TypeOK
<1>3. TimesInOrder'
  BY <1>1, <1>2 DEF TimesInOrder
<1>4. BuiltSoFar'
  BY <1>1 DEF BuiltSoFar
<1>5. file.mtime = 0 => Names(file.lines) = {}
  BY <1>2 DEF TimesInOrder, Names
<1>6. CurrentWhenEqual'
  BY <1>1, <1>5 DEF CurrentWhenEqual, Listed
<1>. QED BY <1>3, <1>4, <1>6

\* Whatever comes between its stat, its fopen and its lines, a load remembers the time of
\* what it read or of something older.
LEMMA StepContents == CInv /\ [Next]_vars => CInv'
<1>. SUFFICES ASSUME CInv, [Next]_vars PROVE TimesInOrder' /\ BuiltSoFar' /\ CurrentWhenEqual'
  BY StepType DEF CInv
<1>. USE DEF admin, statics, locals, tables, history
<1>0. /\ TypeOK /\ IsList(list) /\ IsList(tmp) /\ clock \in Nat /\ mtime \in Nat
      /\ file.mtime \in Nat /\ sbuf \in Nat /\ conf \in Seq(Line \cup {Skipped}) /\ pos \in Nat
      /\ failures' = 0 => failures = 0
  BY FailuresStay, EmptyLines DEF CInv, TypeOK
<1>1. ASSUME NEW f \in Files, Edit(f) PROVE TimesInOrder' /\ BuiltSoFar' /\ CurrentWhenEqual'
  <2>1. /\ file' = [here |-> TRUE, mtime |-> clock, lines |-> f]
        /\ blind' = (blind \/ file.mtime = clock)
        /\ UNCHANGED <<clock, mtime, list, tmp, pc, sbuf, conf, pos, failures>>
    BY <1>1 DEF Edit
  <2>2. file'.mtime = clock /\ (~blind' => ~blind /\ file.mtime # clock)
    BY <2>1
  <2>3. /\ clock >= 1 /\ file.mtime <= clock
        /\ ~blind => mtime <= file.mtime /\ (pc = "open" => sbuf <= file.mtime)
    BY DEF CInv, TimesInOrder
  <2>4. ~blind' => mtime < clock /\ (pc = "open" => sbuf < clock)
    <3>. HIDE <1>1, <2>1
    <3>. QED BY <1>0, <2>2, <2>3
  <2>5. clock >= 1 /\ clock # 0 /\ clock <= clock
    BY <1>0, <2>3
  <2>6. TimesInOrder'
    <3>1. ~blind' => mtime <= clock /\ (pc = "open" => sbuf <= clock)
      BY <1>0, <2>4
    <3>. QED BY <2>1, <2>2, <2>5, <3>1, Zenon DEF TimesInOrder
  <2>7. BuiltSoFar'
    BY <2>1 DEF CInv, BuiltSoFar, NamesBefore, CredsBefore
  <2>8. ~blind' => mtime' # file'.mtime
    BY <1>0, <2>1, <2>2, <2>4
  <2>. QED BY <2>7, <2>8, <2>6 DEF CurrentWhenEqual
<1>2. CASE Remove
  <2>1. /\ file' = [file EXCEPT !.here = FALSE]
        /\ UNCHANGED <<clock, mtime, list, tmp, pc, sbuf, conf, pos, failures, blind>>
    BY <1>2 DEF Remove
  <2>2. file'.mtime = file.mtime /\ file'.lines = file.lines
    BY <2>1 DEF CInv, TypeOK
  <2>3. TimesInOrder'
    BY <2>1, <2>2 DEF CInv, TimesInOrder
  <2>4. BuiltSoFar'
    BY <2>1 DEF CInv, BuiltSoFar, NamesBefore, CredsBefore
  <2>5. CurrentWhenEqual'
    BY <2>1, <2>2 DEF CInv, CurrentWhenEqual, Listed
  <2>. QED BY <2>3, <2>4, <2>5
<1>3. CASE Tick \/ UNCHANGED vars
  <2>1. /\ clock' \in {clock, clock + 1}
        /\ UNCHANGED <<file, mtime, list, tmp, pc, sbuf, conf, pos, failures, blind>>
    BY <1>3 DEF Tick, vars
  <2>2. TimesInOrder'
    BY <1>0, <2>1 DEF CInv, TimesInOrder
  <2>3. BuiltSoFar'
    BY <2>1 DEF CInv, BuiltSoFar, NamesBefore, CredsBefore
  <2>4. CurrentWhenEqual'
    BY <2>1 DEF CInv, CurrentWhenEqual, Listed
  <2>. QED BY <2>2, <2>3, <2>4
<1>4. CASE Stop \/ NullEntry \/ UseFreed
  <2>. HIDE DEF admin, statics, locals, tables, history
  <2>. QED BY <1>4, DieContents DEF Stop, NullEntry, UseFreed
<1>5. CASE Start \/ (\E c \in Caller : Request(c))
  <2>1. /\ UNCHANGED <<file, clock, mtime, blind, list>>
        /\ pc # "lines" /\ pc' \in {"idle", "stat"}
    BY <1>5 DEF Start, Request
  <2>. QED BY <1>0, <2>1, SameContents
<1>6. ASSUME NEW time, Unchanged(time), pc = "stat", blind' = blind
      PROVE  TimesInOrder' /\ BuiltSoFar' /\ CurrentWhenEqual'
  <2>1. PICK auth \in Auths : list' = update_enforce_auth(list, auth)
    BY <1>6 DEF Unchanged
  <2>2. /\ DOMAIN list' = DOMAIN list
        /\ \A n \in DOMAIN list : DOMAIN list'[n].creds = DOMAIN list[n].creds
        /\ IsList(list')
    BY <1>0, <2>1, UpdatedList
  <2>3. /\ UNCHANGED <<file, clock, mtime, head>> /\ Return(list', head)
        /\ head \in Addr \cup {Null}
    BY <1>0, <1>6 DEF Unchanged, TypeOK
  <2>4. pc' \in {"idle", "stat"}
    BY <1>0, <2>2, <2>3, Returned
  <2>. QED BY <1>0, <1>6, <2>2, <2>3, <2>4, SameContents
<1>7. CASE Stat
  <2>1. CASE GoOpen(file.mtime)
    <3>1. /\ UNCHANGED <<file, clock, mtime, list, blind>> /\ pc = "stat"
          /\ pc' = "open" /\ sbuf' = file.mtime
      BY <1>7, <2>1 DEF Stat, GoOpen
    <3>2. TimesInOrder'
      BY <1>0, <3>1 DEF CInv, TimesInOrder
    <3>3. BuiltSoFar' /\ CurrentWhenEqual'
      BY <1>0, <3>1 DEF CInv, BuiltSoFar, CurrentWhenEqual, Listed
    <3>. QED BY <3>2, <3>3
  <2>. QED BY <1>6, <1>7, <2>1 DEF Stat
<1>8. CASE StatFails
  <2>1. PICK garbage \in 0 .. MaxTime : Unchanged(garbage) \/ GoOpen(garbage)
    BY <1>8 DEF StatFails
  <2>2. UNCHANGED <<file, clock>> /\ blind' = TRUE
    BY <1>8, <2>1 DEF StatFails, Unchanged, GoOpen
  <2>3. pc' # "lines"
    <3>1. CASE GoOpen(garbage)
      BY <3>1 DEF GoOpen
    <3>2. CASE Unchanged(garbage)
      <4>1. PICK auth \in Auths : list' = update_enforce_auth(list, auth)
        BY <3>2 DEF Unchanged
      <4>2. IsList(list') /\ Return(list', head) /\ head \in Addr \cup {Null}
        BY <1>0, <3>2, <4>1, UpdatedList DEF Unchanged, TypeOK
      <4>. QED BY <1>0, <4>2, Returned
    <3>. QED BY <2>1, <3>1, <3>2
  <2>. QED BY <2>2, <2>3 DEF CInv, TimesInOrder, BuiltSoFar, CurrentWhenEqual
<1>9. CASE Open
  <2>1. /\ UNCHANGED <<file, clock, list, blind, failures>> /\ pc = "open" /\ pc' = "lines"
        /\ mtime' = sbuf /\ conf' = file.lines /\ pos' = 1 /\ DOMAIN tmp' = {}
    BY <1>9, EmptyList DEF Open
  <2>2. TimesInOrder'
    BY <2>1 DEF CInv, TimesInOrder
  <2>3. \A j \in DOMAIN conf' : ~(j < 1)
    <3>1. conf' \in Seq(Line \cup {Skipped})
      BY <1>0, <2>1, EmptyLines DEF TypeOK
    <3>. QED BY <3>1
  <2>4. BuiltSoFar'
    BY <2>1, <2>3 DEF BuiltSoFar, NamesBefore
  <2>5. CurrentWhenEqual'
    BY <2>1 DEF CurrentWhenEqual
  <2>. QED BY <2>2, <2>4, <2>5
<1>10. CASE OpenFails
  <2>1. /\ UNCHANGED <<file, clock, mtime, blind, list>> /\ pc = "open" /\ Return(Empty, Null)
    BY <1>10 DEF OpenFails
  <2>2. pc' \in {"idle", "stat"}
    BY <1>0, <2>1, EmptyList, Returned
  <2>. QED BY <1>0, <2>1, <2>2, SameContents
<1>11. CASE SkipLine \/ KnownName \/ NewName
  <2>1. /\ UNCHANGED <<file, clock, mtime, blind, list, conf, pc, sbuf>> /\ AtLine
        /\ \/ conf[pos] = Skipped /\ pos' = pos + 1 /\ UNCHANGED <<tmp, failures>>
           \/ conf[pos] # Skipped /\ \E i : AddLine(conf[pos], i)
    BY <1>11 DEF SkipLine, KnownName, NewName
  <2>2. BuiltSoFar'
    BY <2>1, LineRead
  <2>3. TimesInOrder'
    BY <2>1 DEF CInv, TimesInOrder
  <2>4. CurrentWhenEqual'
    BY <2>1 DEF CInv, CurrentWhenEqual, AtLine
  <2>. QED BY <2>2, <2>3, <2>4
<1>12. CASE LoadEnds
  <2>1. PICK auth \in Auths : list' = update_enforce_auth(tmp, auth)
    BY <1>12 DEF LoadEnds
  <2>2. /\ IsList(list') /\ DOMAIN list' = DOMAIN tmp
        /\ \A n \in DOMAIN tmp : DOMAIN list'[n].creds = DOMAIN tmp[n].creds
    BY <1>0, <2>1, UpdatedList
  <2>3. /\ UNCHANGED <<file, clock, mtime, blind>> /\ pc = "lines" /\ pos > Len(conf)
        /\ Return(list', head') /\ head' \in Addr \cup {Null}
    BY <1>12 DEF LoadEnds, HeadOf
  <2>4. pc' \in {"idle", "stat"}
    BY <1>0, <2>2, <2>3, Returned
  <2>5. TimesInOrder'
    BY <2>3, <2>4 DEF CInv, TimesInOrder
  <2>6. failures = 0 => /\ DOMAIN tmp = Names(conf)
                        /\ \A n \in DOMAIN tmp : DOMAIN tmp[n].creds = CredsOf(conf, n)
    BY <1>0, <2>3, AllLines DEF CInv, BuiltSoFar
  <2>7. ~blind /\ file.mtime = mtime => conf = file.lines
    BY <2>3 DEF CInv, CurrentWhenEqual
  <2>8. CurrentWhenEqual'
    BY <1>0, <2>2, <2>3, <2>4, <2>6, <2>7 DEF CurrentWhenEqual, Listed
  <2>9. BuiltSoFar'
    BY <2>4 DEF BuiltSoFar
  <2>. QED BY <2>5, <2>8, <2>9
<1>. QED BY <1>1, <1>2, <1>3, <1>4, <1>5, <1>7, <1>8, <1>9, <1>10, <1>11, <1>12 DEF Next

LEMMA InitContents == Init => CInv
<1>. SUFFICES ASSUME Init PROVE TimesInOrder /\ BuiltSoFar /\ CurrentWhenEqual
  BY InitType DEF CInv
<1>1. /\ file = [here |-> FALSE, mtime |-> 0, lines |-> <<>>] /\ clock = 1 /\ mtime = 0
      /\ pc = "idle" /\ DOMAIN list = {}
  BY EmptyList DEF Init
<1>2. file.mtime = 0 /\ file.lines = <<>>
  BY <1>1
<1>3. Names(file.lines) = {}
  BY <1>2 DEF Names
<1>. QED BY <1>1, <1>2, <1>3 DEF TimesInOrder, BuiltSoFar, CurrentWhenEqual, Listed

\* A request that reads nothing, for the time of the file is the one remembered, answers with
\* the names and credentials of the file, however it was replaced while it was being read.
THEOREM SkippedFileCurrent == Spec => []SkipsOnlyCurrent
<1>1. CInv => SkipsOnlyCurrent
  BY DEF CInv, CurrentWhenEqual, SkipsOnlyCurrent, Listed
<1>. QED BY <1>1, InitContents, StepContents, PTL DEF Spec

=============================================================================
