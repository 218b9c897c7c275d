------------------------ MODULE MibAgent_poll_proofs ------------------------
(* Theorems about the polls of MibAgent: what the agent remembers of the records it has      *)
(* seen, that its traps are news and reach the manager, and the types of all that it has.    *)
EXTENDS MibAgent_proofs

-----------------------------------------------------------------------------
(* The files of polled tables *)

\* The records of the file.
Records == IF file = None THEN {} ELSE {file[j] : j \in DOMAIN file}

\* The word that counts the failures of a node, or of the instance.
Count(t, r) == r.words[IF t = TgtAttr THEN 3 ELSE 7]

\* The file of a polled table has one record of each of the things that it is about, and all
\* its records are whole.
CountsOK(t, r) ==
    /\ t = TgtAttr => Count(t, r) \in 0 .. MaxFails /\ r.words[4] \in Nat
    /\ t = SsnFailure => Count(t, r) \in 0 .. MaxFails /\ KeyOf(t, r) = KeyOf(t, Fresh(t, 1))
PolledFile(t, f) ==
    /\ \A i \in DOMAIN f : f[i].bad = 0 /\ KeyOf(t, f[i]) \in PolledKeys(t) /\ CountsOK(t, f[i])
    /\ \A i, j \in DOMAIN f : KeyOf(t, f[i]) = KeyOf(t, f[j]) => i = j

\* A file has records in a row.
LEMMA FileHas ==
    ASSUME NEW t, NEW f, RecordsOK(t, f)
    PROVE  /\ Len(f) \in Nat /\ DOMAIN f = 1 .. Len(f) /\ \E S : f \in Seq(S)
           /\ \A j \in DOMAIN f : RecordOK(t, f[j])
BY DEF RecordsOK

\* How many words the lines of nodes, of devices and of the instance have.
LEMMA LineLengths ==
    Len(Table(TgtAttr).line) = 8 /\ Len(Table(TgtDev).line) = 6 /\ Len(Table(SsnFailure).line) = 13
<1>. USE DEF init_iscsiMib, init_scsiMib, init_ipsAuthMib, SsnFailure, TgtAttr, TgtDev
<1>1. /\ Table(TgtAttr) = iscsiTargetAttributes_table
      /\ Table(TgtDev) = scsiTgtDevTable_table
      /\ Table(SsnFailure) = iscsiInstAttributes_table
  BY DEF Table, Iscsi_table, Scsi_table
<1>2. Len(iscsiTargetAttributes_table.line) = 8
  BY DEF iscsiTargetAttributes_table, iscsiTargetAttributes_LINE
<1>3. Len(scsiTgtDevTable_table.line) = 6
  BY DEF scsiTgtDevTable_table, scsiTgtDevTable_LINE
<1>4. Len(iscsiInstAttributes_table.line) = 13
  BY DEF iscsiInstAttributes_table, iscsiInstAttributes_LINE
<1>. QED BY <1>1, <1>2, <1>3, <1>4

\* What is polled is one thing or another.
LEMMA PolledDiffer == TgtAttr # TgtDev /\ TgtAttr # SsnFailure /\ TgtDev # SsnFailure
BY DEF TgtAttr, TgtDev, SsnFailure

\* A record as it is made is whole, and no failure was counted yet.
LEMMA FreshCounts ==
    ASSUME NEW t \in Polled, NEW i \in {1, 2}, t = SsnFailure => i = 1
    PROVE  /\ Fresh(t, i).bad = 0 /\ KeyOf(t, Fresh(t, i)) \in PolledKeys(t)
           /\ CountsOK(t, Fresh(t, i))
<1> DEFINE s == [last |-> i, variant |-> 1, bad |-> 0]
           r == Record(t, s)
           w == r.words
           y == Fresh(t, i)
<1>. 0 \in 0 .. MaxFails
  BY AgentAssumption
<1>1. t \in Tables /\ r = [words |-> w, bad |-> 0] /\ w = [j \in DOMAIN w |-> w[j]]
  BY PolledTables DEF Record
<1>2. DOMAIN w = 1 .. Len(Table(t).line)
  BY <1>1, KeysOfTables DEF Record
<1>3. KeyOf(t, y) \in PolledKeys(t)
  BY DEF PolledKeys
<1>. SUFFICES y.bad = 0 /\ CountsOK(t, y)
  BY <1>3
<1>. HIDE DEF w, r
<1>4. CASE t = TgtAttr
  <2>1. y = [r EXCEPT !.words[3] = 0, !.words[4] = 0, !.words[5] = 0, !.words[6] = None]
    BY <1>4 DEF Fresh, r, TgtAttr, SsnFailure
  <2>2. 3 \in DOMAIN w /\ 4 \in DOMAIN w
    BY <1>2, <1>4, LineLengths
  <2>. HIDE DEF y
  <2>3. y.bad = 0 /\ y.words = [w EXCEPT ![3] = 0, ![4] = 0, ![5] = 0, ![6] = None]
    BY <1>1, <2>1
  <2>4. y.words[3] = 0 /\ y.words[4] = 0
    BY <1>1, <2>2, <2>3
  <2>. QED BY <1>4, <2>3, <2>4, PolledDiffer DEF CountsOK, Count
<1>5. CASE t = SsnFailure
  <2>1. y = [r EXCEPT !.words[7] = 0, !.words[8] = 0, !.words[9] = None]
    BY <1>5 DEF Fresh, r, TgtAttr, SsnFailure
  <2>2. 7 \in DOMAIN w
    BY <1>2, <1>5, LineLengths
  <2>3. y = Fresh(t, 1)
    BY <1>5
  <2>. HIDE DEF y
  <2>4. y.bad = 0 /\ y.words = [w EXCEPT ![7] = 0, ![8] = 0, ![9] = None]
    BY <1>1, <2>1
  <2>5. y.words[7] = 0
    BY <1>1, <2>2, <2>4
  <2>. QED BY <1>5, <2>3, <2>4, <2>5, PolledDiffer DEF CountsOK, Count
<1>6. CASE t = TgtDev
  <2>1. y = r
    BY <1>6 DEF Fresh, r, TgtAttr, SsnFailure, TgtDev
  <2>. QED BY <1>1, <1>6, <2>1, PolledDiffer DEF CountsOK
<1>. QED BY <1>4, <1>5, <1>6 DEF Polled

\* One more record of something that had none,
LEMMA PolledAppended ==
    ASSUME NEW t \in Polled, NEW f, RecordsOK(t, f), PolledFile(t, f), NEW i \in {1, 2},
           t = SsnFailure => i = 1,
           \A j \in DOMAIN f : KeyOf(t, f[j]) # KeyOf(t, Fresh(t, i))
    PROVE  LET g == Append(f, Fresh(t, i))
           IN  /\ PolledFile(t, g)
               /\ \A x \in DOMAIN g : g[x] = Fresh(t, i) \/ \E y \in DOMAIN f : f[y] = g[x]
<1> DEFINE r == Fresh(t, i)
           g == Append(f, r)
           n == Len(f)
<1>1. n \in Nat /\ DOMAIN f = 1 .. n /\ \E S : f \in Seq(S)
  BY FileHas
<1>0. \A j \in DOMAIN f : KeyOf(t, f[j]) # KeyOf(t, r)
  OBVIOUS
<1>2. r.bad = 0 /\ KeyOf(t, r) \in PolledKeys(t) /\ CountsOK(t, r)
  BY FreshCounts
<1>. HIDE DEF r
<1>3. DOMAIN g = 1 .. n + 1 /\ g[n + 1] = r /\ \A x \in 1 .. n : g[x] = f[x]
  BY <1>1
<1>. HIDE DEF g, n
<1>4. \A x \in DOMAIN g : x = n + 1 \/ x \in DOMAIN f
  BY <1>1, <1>3
<1>5. \A x \in DOMAIN g : g[x].bad = 0 /\ KeyOf(t, g[x]) \in PolledKeys(t) /\ CountsOK(t, g[x])
  BY <1>1, <1>2, <1>3, <1>4 DEF PolledFile
<1>6. \A x, y \in DOMAIN g : KeyOf(t, g[x]) = KeyOf(t, g[y]) => x = y
  <2>. SUFFICES ASSUME NEW x \in DOMAIN g, NEW y \in DOMAIN g, KeyOf(t, g[x]) = KeyOf(t, g[y])
                PROVE  x = y
    OBVIOUS
  <2>1. CASE x = n + 1 /\ y \in DOMAIN f
    BY <1>0, <1>1, <1>3, <2>1
  <2>2. CASE y = n + 1 /\ x \in DOMAIN f
    BY <1>0, <1>1, <1>3, <2>2
  <2>3. CASE x \in DOMAIN f /\ y \in DOMAIN f
    BY <1>1, <1>3, <2>3 DEF PolledFile
  <2>. QED BY <1>4, <2>1, <2>2, <2>3
<1>7. \A x \in DOMAIN g : g[x] = r \/ \E y \in DOMAIN f : f[y] = g[x]
  BY <1>1, <1>3, <1>4
<1>. QED BY <1>5, <1>6, <1>7 DEF PolledFile, g, r

\* one less,
LEMMA PolledRemoved ==
    ASSUME NEW t \in Polled, NEW f, RecordsOK(t, f), PolledFile(t, f), NEW j \in DOMAIN f
    PROVE  LET g == RemoveAt(f, j)
           IN  /\ PolledFile(t, g)
               /\ \A x \in DOMAIN g : \E y \in DOMAIN f \ {j} : f[y] = g[x]
<1> DEFINE g == RemoveAt(f, j)
           n == Len(f)
           from(x) == IF x < j THEN x ELSE x + 1
<1>1. n \in Nat /\ DOMAIN f = 1 .. n /\ \E S : f \in Seq(S)
  BY FileHas
<1>2. PICK S : f \in Seq(S)
  BY <1>1
<1>3. /\ SubSeq(f, 1, j - 1) \in Seq(S) /\ Len(SubSeq(f, 1, j - 1)) = j - 1
      /\ \A x \in 1 .. j - 1 : SubSeq(f, 1, j - 1)[x] = f[x]
  BY <1>1, <1>2
<1>4. /\ SubSeq(f, j + 1, n) \in Seq(S) /\ Len(SubSeq(f, j + 1, n)) = n - j
      /\ \A x \in 1 .. n - j : SubSeq(f, j + 1, n)[x] = f[j + x]
  BY <1>1, <1>2
<1>5. DOMAIN g = 1 .. n - 1 /\ \A x \in 1 .. n - 1 : g[x] = f[from(x)]
  <2> DEFINE a == SubSeq(f, 1, j - 1)
             b == SubSeq(f, j + 1, n)
  <2>1. g = a \o b
    BY DEF RemoveAt
  <2>. HIDE DEF a, b, g
  <2>2. /\ a \o b \in Seq(S) /\ Len(a \o b) = Len(a) + Len(b)
        /\ \A i \in 1 .. Len(a) : (a \o b)[i] = a[i]
        /\ \A i \in 1 .. Len(b) : (a \o b)[Len(a) + i] = b[i]
    <3>1. a \in Seq(S) /\ b \in Seq(S)
      BY <1>3, <1>4 DEF a, b
    <3>. QED BY <3>1, Joined
  <2>3. Len(a) = j - 1 /\ Len(b) = n - j
    BY <1>3, <1>4 DEF a, b
  <2>4. DOMAIN g = 1 .. n - 1
    <3>1. g \in Seq(S) /\ Len(g) = n - 1
      BY <1>1, <2>1, <2>2, <2>3
    <3>. QED BY <3>1
  <2>5. ASSUME NEW x \in 1 .. n - 1 PROVE g[x] = f[from(x)]
    <3>1. CASE x < j
      <4>1. x \in 1 .. Len(a)
        BY <1>1, <2>3, <3>1
      <4>2. g[x] = a[x]
        BY <2>1, <2>2, <4>1
      <4>3. a[x] = f[x]
        BY <1>3, <2>3, <4>1 DEF a
      <4>. QED BY <3>1, <4>2, <4>3
    <3>2. CASE ~(x < j)
      <4>1. x - (j - 1) \in 1 .. Len(b) /\ Len(a) + (x - (j - 1)) = x
        BY <1>1, <2>3, <3>2
      <4>2. g[x] = b[x - (j - 1)]
        BY <2>1, <2>2, <4>1
      <4>3. b[x - (j - 1)] = f[j + (x - (j - 1))]
        BY <1>4, <2>3, <4>1 DEF b
      <4>4. j + (x - (j - 1)) = x + 1
        BY <1>1
      <4>. QED BY <3>2, <4>2, <4>3, <4>4
    <3>. QED BY <3>1, <3>2
  <2>. QED BY <2>4, <2>5
<1>. HIDE DEF g
<1>6. \A x \in DOMAIN g : from(x) \in DOMAIN f \ {j} /\ g[x] = f[from(x)]
  BY <1>1, <1>5
<1>7. \A x, y \in DOMAIN g : from(x) = from(y) => x = y
  BY <1>1, <1>5
<1>. HIDE DEF from, n
<1>8. \A x \in DOMAIN g : g[x].bad = 0 /\ KeyOf(t, g[x]) \in PolledKeys(t) /\ CountsOK(t, g[x])
  BY <1>6 DEF PolledFile
<1>9. \A x, y \in DOMAIN g : KeyOf(t, g[x]) = KeyOf(t, g[y]) => x = y
  BY <1>6, <1>7 DEF PolledFile
<1>10. \A x \in DOMAIN g : \E y \in DOMAIN f \ {j} : f[y] = g[x]
  BY <1>6
<1>. QED BY <1>8, <1>9, <1>10 DEF PolledFile, g

\* or one with other words, but those that name it.
LEMMA PolledRewritten ==
    ASSUME NEW t \in Polled, NEW f, RecordsOK(t, f), PolledFile(t, f), NEW j \in DOMAIN f, NEW w,
           NEW r, r.words = w, r.bad = f[j].bad, KeyOf(t, r) = KeyOf(t, f[j]), CountsOK(t, r),
           NEW g, g = [f EXCEPT ![j] = r]
    PROVE  /\ PolledFile(t, g)
           /\ \A x \in DOMAIN g : (x = j /\ g[x] = r) \/ (x # j /\ x \in DOMAIN f /\ f[x] = g[x])
<1>1. DOMAIN g = DOMAIN f /\ g[j] = r /\ \A x \in DOMAIN f \ {j} : g[x] = f[x]
  OBVIOUS
<1>2. \A x \in DOMAIN g : g[x].bad = f[x].bad /\ KeyOf(t, g[x]) = KeyOf(t, f[x])
  BY <1>1
<1>3. \A x \in DOMAIN g : CountsOK(t, g[x])
  BY <1>1 DEF PolledFile
<1>4. \A x \in DOMAIN g : g[x].bad = 0 /\ KeyOf(t, g[x]) \in PolledKeys(t)
  BY <1>1, <1>2 DEF PolledFile
<1>5. \A x, y \in DOMAIN g : KeyOf(t, g[x]) = KeyOf(t, g[y]) => x = y
  BY <1>1, <1>2 DEF PolledFile
<1>6. PolledFile(t, g)
  BY <1>3, <1>4, <1>5 DEF PolledFile
<1>. QED BY <1>1, <1>6

-----------------------------------------------------------------------------
(* What happens to the things that are polled *)

\* The files that the kernel leaves, and what has become of the records in them.
PolledInv ==
    /\ clock \in Nat
    /\ tab \in Polled => DOMAIN news = PolledKeys(tab) /\ (file # None => PolledFile(tab, file))

\* A record that a poll has seen is as that poll saw it. One that is new since was
\* seen or new before, and has counted at least one failure more since a poll saw it.
Follows ==
    \A s \in Records' :
      LET k == KeyOf(tab, s)
      IN  /\ news'[k] = "seen" => s \in Records /\ news[k] = "seen"
          /\ news'[k] = "new" =>
               \E r \in Records :
                 /\ KeyOf(tab, r) = k
                 /\ tab # TgtDev =>
                      \/ news[k] = "seen" /\ Count(tab, r) < Count(tab, s)
                      \/ news[k] = "new" /\ Count(tab, r) <= Count(tab, s)

\* Words that name a record name it whatever else it says.
LEMMA KeyKept ==
    ASSUME NEW t \in Polled, NEW w, NEW x, WordsOK(t, w), WordsOK(t, x),
           \A i \in 1 .. Keys(t) : x[i] = w[i], NEW r, NEW s, r.words = w, s.words = x
    PROVE  KeyOf(t, r) = KeyOf(t, s)
<1>1. Keys(t) \in Nat /\ Keys(t) <= Len(Table(t).line)
  BY PolledTables, KeysOfTables
<1>2. \A S : \A y \in Seq(S) : Len(y) >= Keys(t) => SubSeq(y, 1, Keys(t)) = [i \in 1 .. Keys(t) |-> y[i]]
  BY <1>1
<1>3. PICK W, X : w \in Seq(W) /\ x \in Seq(X)
  BY DEF WordsOK
<1>4. Len(w) >= Keys(t) /\ Len(x) >= Keys(t)
  BY <1>1 DEF WordsOK
<1>5. SubSeq(w, 1, Keys(t)) = [i \in 1 .. Keys(t) |-> w[i]]
  BY <1>2, <1>3, <1>4
<1>6. SubSeq(x, 1, Keys(t)) = [i \in 1 .. Keys(t) |-> x[i]]
  BY <1>2, <1>3, <1>4
<1>. QED BY <1>5, <1>6 DEF KeyOf

\* The module comes or goes: there is nothing to be seen.
LEMMA ModuleFollows ==
    ASSUME PolledInv, Module
    PROVE  PolledInv' /\ Follows
<1>1. /\ tab' = tab /\ clock' = clock /\ news' = [k \in DOMAIN news |-> "reset"]
      /\ file' = None \/ file' = <<>>
  BY DEF Module, Writes
<1>2. Records' = {}
  BY <1>1 DEF Records
<1>3. PolledFile(tab, <<>>)
  BY DEF PolledFile
<1>4. PolledInv'
  BY <1>1, <1>3 DEF PolledInv
<1>. QED BY <1>2, <1>4 DEF Follows

\* Something is made: no poll has seen it.
LEMMA CreateFollows ==
    ASSUME FilesInv, PolledInv, NEW i \in {1, 2}, Create(i)
    PROVE  PolledInv' /\ Follows
<1> DEFINE r == Fresh(tab, i)
           g == Append(file, r)
           k == KeyOf(tab, r)
<1>1. /\ tab \in Polled /\ file # None /\ file' = g /\ tab' = tab /\ clock' = clock
      /\ tab = SsnFailure => i = 1
      /\ \A j \in DOMAIN file : KeyOf(tab, file[j]) # k
      /\ news' = [news EXCEPT ![k] = "reset"]
  BY DEF Create, Writes, Has
<1>2. PolledFile(tab, g) /\ \A x \in DOMAIN g : g[x] = r \/ \E y \in DOMAIN file : file[y] = g[x]
  BY <1>1, PolledAppended DEF PolledInv, FilesInv, FileOK
<1>3. DOMAIN news = PolledKeys(tab) /\ k \in PolledKeys(tab)
  BY <1>1 DEF PolledInv, PolledKeys
<1>. HIDE DEF g, k, r
<1>4. file' # None => PolledFile(tab, file')
  BY <1>1, <1>2
<1>5. PolledInv'
  BY <1>1, <1>3, <1>4 DEF PolledInv
<1>6. ASSUME NEW s \in Records' PROVE s = r \/ s \in Records
  <2>1. PICK x \in DOMAIN g : s = g[x]
    BY <1>1 DEF Records
  <2>. QED BY <1>1, <1>2, <2>1 DEF Records
<1>7. \A s \in Records : KeyOf(tab, s) # k
  BY <1>1 DEF Records
<1>8. news'[KeyOf(tab, r)] = "reset"
  BY <1>1, <1>3 DEF k
<1>9. ASSUME NEW s \in Records PROVE news'[KeyOf(tab, s)] = news[KeyOf(tab, s)]
  <2>1. KeyOf(tab, s) \in PolledKeys(tab)
    BY <1>1 DEF Records, PolledInv, PolledFile
  <2>. QED BY <1>1, <1>3, <1>7, <2>1
<1>10. \A s \in Records : tab # TgtDev => Count(tab, s) \in Nat
  BY <1>1, AgentAssumption DEF Records, PolledInv, PolledFile, CountsOK, Polled
<1>11. \A s \in Records' : s \in Records \/ news'[KeyOf(tab, s)] = "reset"
  BY <1>6, <1>8
<1>. QED BY <1>5, <1>9, <1>10, <1>11 DEF Follows

\* Something is removed: no other has changed.
LEMMA DeleteFollows ==
    ASSUME FilesInv, PolledInv, NEW i \in {1, 2}, Delete(i)
    PROVE  PolledInv' /\ Follows
<1> DEFINE k == KeyOf(tab, Fresh(tab, i))
<1>1. PICK j \in DOMAIN file :
        /\ tab \in Polled /\ file # None /\ file' = RemoveAt(file, j) /\ tab' = tab /\ clock' = clock
        /\ KeyOf(tab, file[j]) = k
        /\ news' = [news EXCEPT ![k] = "reset"]
  BY DEF Delete, Writes
<1> DEFINE g == RemoveAt(file, j)
<1>2. PolledFile(tab, g) /\ \A x \in DOMAIN g : \E y \in DOMAIN file \ {j} : file[y] = g[x]
  BY <1>1, PolledRemoved DEF PolledInv, FilesInv, FileOK
<1>3. DOMAIN news = PolledKeys(tab) /\ k \in PolledKeys(tab)
  BY <1>1 DEF PolledInv, PolledKeys
<1>. HIDE DEF g, k
<1>. USE DEF g
<1>4. file' # None => PolledFile(tab, file')
  BY <1>1, <1>2
<1>. HIDE DEF g
<1>5. PolledInv'
  BY <1>1, <1>3, <1>4 DEF PolledInv
<1>6. ASSUME NEW s \in Records' PROVE s \in Records /\ KeyOf(tab, s) # k
  <2>1. PICK x \in DOMAIN g : s = g[x]
    BY <1>1 DEF Records, g
  <2>2. PICK y \in DOMAIN file \ {j} : file[y] = s
    BY <1>2, <2>1
  <2>3. KeyOf(tab, file[y]) # KeyOf(tab, file[j])
    BY <1>1, <2>2 DEF PolledInv, PolledFile
  <2>. QED BY <1>1, <2>2, <2>3 DEF Records
<1>7. ASSUME NEW s \in Records' PROVE news'[KeyOf(tab, s)] = news[KeyOf(tab, s)]
  <2>1. KeyOf(tab, s) \in PolledKeys(tab)
    BY <1>1, <1>6 DEF Records, PolledInv, PolledFile
  <2>. QED BY <1>1, <1>3, <1>6, <2>1
<1>8. \A s \in Records : tab # TgtDev => Count(tab, s) \in Nat
  BY <1>1, AgentAssumption DEF Records, PolledInv, PolledFile, CountsOK, Polled
<1>. QED BY <1>5, <1>6, <1>7, <1>8 DEF Follows

\* Something happens to one: it is new, and no other has changed.
LEMMA HappensFollows ==
    ASSUME FilesInv, PolledInv, tab \in Polled, file # None, NEW j \in DOMAIN file, NEW x,
           Happens(j, x), WordsOK(tab, x), \A i \in 1 .. Keys(tab) : x[i] = file[j].words[i],
           \A r : /\ r.words = x /\ KeyOf(tab, r) = KeyOf(tab, file[j])
                  => CountsOK(tab, r) /\ (tab # TgtDev => Count(tab, file[j]) < Count(tab, r))
    PROVE  PolledInv' /\ Follows
<1> DEFINE r == [file[j] EXCEPT !.words = x]
           k == KeyOf(tab, file[j])
           g == [file EXCEPT ![j] = r]
<1>1. /\ file' = g /\ tab' = tab /\ clock' = clock
      /\ news' = [news EXCEPT ![k] = IF @ \in {"seen", "new"} THEN "new" ELSE "newAfterReset"]
  BY DEF Happens, Writes
<1>2. RecordsOK(tab, file) /\ RecordOK(tab, file[j])
  BY FileHas DEF FilesInv, FileOK
<1>3. r.words = x /\ r.bad = file[j].bad
  <2>1. DOMAIN file[j] = {"words", "bad"}
    BY <1>2 DEF RecordOK
  <2>. QED BY <2>1
<1>. HIDE DEF r
<1>4. KeyOf(tab, r) = k
  BY <1>2, <1>3, KeyKept DEF RecordOK
<1>5. CountsOK(tab, r) /\ (tab # TgtDev => Count(tab, file[j]) < Count(tab, r))
  BY <1>3, <1>4
<1>6. /\ PolledFile(tab, g)
      /\ \A i \in DOMAIN g : (i = j /\ g[i] = r) \/ (i # j /\ i \in DOMAIN file /\ file[i] = g[i])
  <2>1. PolledFile(tab, file)
    BY DEF PolledInv
  <2>. QED BY <1>2, <1>3, <1>4, <1>5, <2>1, PolledRewritten
<1>7. DOMAIN news = PolledKeys(tab) /\ k \in PolledKeys(tab)
  BY DEF PolledInv, PolledFile
<1>. HIDE DEF g, k
<1>8. file' # None => PolledFile(tab, file')
  BY <1>1, <1>6
<1>9. PolledInv'
  BY <1>1, <1>7, <1>8 DEF PolledInv
<1>10. file[j] \in Records /\ KeyOf(tab, file[j]) = k
  BY DEF Records, k
<1>11. ASSUME NEW s \in Records' PROVE s = r \/ (s \in Records /\ KeyOf(tab, s) # k)
  <2>1. PICK i \in DOMAIN g : s = g[i]
    BY <1>1 DEF Records
  <2>2. CASE i # j
    <3>1. i \in DOMAIN file /\ file[i] = s
      BY <1>6, <2>1, <2>2
    <3>2. KeyOf(tab, file[i]) # KeyOf(tab, file[j])
      BY <2>2, <3>1 DEF PolledInv, PolledFile
    <3>. QED BY <3>1, <3>2 DEF Records, k
  <2>. QED BY <1>6, <2>1, <2>2
<1>12. ASSUME NEW s \in Records, KeyOf(tab, s) # k
       PROVE  news'[KeyOf(tab, s)] = news[KeyOf(tab, s)]
  <2>1. KeyOf(tab, s) \in PolledKeys(tab)
    BY DEF Records, PolledInv, PolledFile
  <2>. QED BY <1>1, <1>7, <1>12, <2>1
<1>13. /\ news'[k] \in {"new", "newAfterReset"}
       /\ news'[k] = "new" => news[k] \in {"seen", "new"}
  BY <1>1, <1>7
<1>14. \A s \in Records : tab # TgtDev => Count(tab, s) \in Nat
  BY AgentAssumption DEF Records, PolledInv, PolledFile, CountsOK, Polled
<1>15. tab # TgtDev => Count(tab, r) \in Nat
  BY <1>5, AgentAssumption DEF CountsOK, Polled
<1>16. ASSUME NEW s \in Records', s # r
       PROVE  /\ s \in Records /\ news'[KeyOf(tab, s)] = news[KeyOf(tab, s)]
              /\ tab # TgtDev => Count(tab, s) \in Nat
  BY <1>11, <1>12, <1>14, <1>16
<1>17. /\ news'[k] # "seen"
       /\ news'[k] = "new" =>
            /\ file[j] \in Records /\ KeyOf(tab, file[j]) = k
            /\ tab # TgtDev =>
                 \/ news[k] = "seen" /\ Count(tab, file[j]) < Count(tab, r)
                 \/ news[k] = "new" /\ Count(tab, file[j]) <= Count(tab, r)
  BY <1>5, <1>10, <1>13, <1>14, <1>15
<1>18. Follows
  <2>. SUFFICES ASSUME NEW s \in Records'
                PROVE  LET q == KeyOf(tab, s)
                       IN  /\ news'[q] = "seen" => s \in Records /\ news[q] = "seen"
                           /\ news'[q] = "new" =>
                                \E o \in Records :
                                  /\ KeyOf(tab, o) = q
                                  /\ tab # TgtDev =>
                                       \/ news[q] = "seen" /\ Count(tab, o) < Count(tab, s)
                                       \/ news[q] = "new" /\ Count(tab, o) <= Count(tab, s)
    BY DEF Follows
  <2>1. CASE s = r
    BY <1>4, <1>17, <2>1
  <2>2. CASE s # r
    BY <1>16, <2>2
  <2>. QED BY <2>1, <2>2
<1>. QED BY <1>9, <1>18

\* A login fails,
LEMMA LoginFollows ==
    ASSUME FilesInv, PolledInv, NEW j, NEW n, NEW type, LoginFails(j, n, type)
    PROVE  PolledInv' /\ Follows
<1> DEFINE w == file[j].words
           x == [w EXCEPT ![3] = @ + 1, ![4] = clock, ![5] = type, ![6] = n]
<1>1. /\ tab = TgtAttr /\ tab \in Polled /\ file # None /\ j \in DOMAIN file /\ Happens(j, x)
      /\ w[3] < MaxFails
  BY DEF LoginFails, Polled
<1>2. WordsOK(tab, w) /\ tab \in Tables
  BY <1>1, WordsOfFile DEF FilesInv
<1>3. w = [i \in DOMAIN w |-> w[i]] /\ DOMAIN w = 1 .. 8
  <2>1. PICK W : w \in Seq(W)
    BY <1>2 DEF WordsOK
  <2>2. Len(w) = 8
    BY <1>1, <1>2, LineLengths DEF WordsOK
  <2>. HIDE DEF w
  <2>. QED BY <2>1, <2>2
<1>4. w[3] \in 0 .. MaxFails /\ clock \in Nat
  BY <1>1 DEF PolledInv, PolledFile, CountsOK, Count
<1>5. MaxFails \in Nat
  BY AgentAssumption
<1>. HIDE DEF w
<1>6. DOMAIN x = DOMAIN w /\ x = [i \in DOMAIN x |-> x[i]]
  BY <1>3
<1>7. \A i \in 1 .. 2 : x[i] = w[i]
  BY <1>3
<1>8. x[3] = w[3] + 1 /\ x[4] = clock
  BY <1>3
<1>. HIDE DEF x
<1>9. Keys(tab) = 2
  BY <1>1, PolledKeysAre
<1>10. WordsOK(tab, x)
  BY <1>2, <1>6, <1>7, <1>9, WordsChange
<1>11. ASSUME NEW r, r.words = x
       PROVE  CountsOK(tab, r) /\ Count(tab, file[j]) < Count(tab, r)
  <2>1. Count(tab, r) = w[3] + 1 /\ r.words[4] = clock /\ Count(tab, file[j]) = w[3]
    BY <1>1, <1>8, <1>11 DEF Count, w
  <2>2. w[3] + 1 \in 0 .. MaxFails /\ w[3] < w[3] + 1
    BY <1>1, <1>4, <1>5
  <2>. QED BY <1>1, <1>4, <2>1, <2>2, PolledDiffer DEF CountsOK
<1>12. \A i \in 1 .. Keys(tab) : x[i] = file[j].words[i]
  BY <1>7, <1>9 DEF w
<1>. QED BY <1>1, <1>10, <1>11, <1>12, HappensFollows

\* a session fails,
LEMMA SessionFollows ==
    ASSUME FilesInv, PolledInv, NEW j, NEW n, NEW type, SessionFails(j, n, type)
    PROVE  PolledInv' /\ Follows
<1> DEFINE w == file[j].words
           x == [w EXCEPT ![7] = @ + 1, ![8] = type, ![9] = n]
<1>1. /\ tab = SsnFailure /\ tab \in Polled /\ file # None /\ j \in DOMAIN file /\ Happens(j, x)
      /\ w[7] < MaxFails
  BY DEF SessionFails, Polled
<1>2. WordsOK(tab, w) /\ tab \in Tables
  BY <1>1, WordsOfFile DEF FilesInv
<1>3. w = [i \in DOMAIN w |-> w[i]] /\ DOMAIN w = 1 .. 13
  <2>1. PICK W : w \in Seq(W)
    BY <1>2 DEF WordsOK
  <2>2. Len(w) = 13
    BY <1>1, <1>2, LineLengths DEF WordsOK
  <2>. HIDE DEF w
  <2>. QED BY <2>1, <2>2
<1>4. /\ w[7] \in 0 .. MaxFails
      /\ KeyOf(tab, file[j]) = KeyOf(tab, Fresh(tab, 1))
  BY <1>1, PolledDiffer DEF PolledInv, PolledFile, CountsOK, Count
<1>5. MaxFails \in Nat
  BY AgentAssumption
<1>. HIDE DEF w
<1>6. DOMAIN x = DOMAIN w /\ x = [i \in DOMAIN x |-> x[i]]
  BY <1>3
<1>7. \A i \in 1 .. 1 : x[i] = w[i]
  BY <1>3
<1>8. x[7] = w[7] + 1
  BY <1>3
<1>. HIDE DEF x
<1>9. Keys(tab) = 1
  BY <1>1, PolledKeysAre
<1>10. WordsOK(tab, x)
  BY <1>2, <1>6, <1>7, <1>9, WordsChange
<1>11. ASSUME NEW r, r.words = x, KeyOf(tab, r) = KeyOf(tab, file[j])
       PROVE  CountsOK(tab, r) /\ Count(tab, file[j]) < Count(tab, r)
  <2>1. Count(tab, r) = w[7] + 1 /\ Count(tab, file[j]) = w[7]
    BY <1>1, <1>8, <1>11, PolledDiffer DEF Count, w
  <2>2. w[7] + 1 \in 0 .. MaxFails /\ w[7] < w[7] + 1
    BY <1>1, <1>4, <1>5
  <2>. QED BY <1>1, <1>4, <1>11, <2>1, <2>2, PolledDiffer DEF CountsOK
<1>12. \A i \in 1 .. Keys(tab) : x[i] = file[j].words[i]
  BY <1>7, <1>9 DEF w
<1>. QED BY <1>1, <1>10, <1>11, <1>12, HappensFollows

\* or a device is given another status.
LEMMA StatusFollows ==
    ASSUME FilesInv, PolledInv, NEW j, StatusChanges(j)
    PROVE  PolledInv' /\ Follows
<1> DEFINE w == file[j].words
<1>1. PICK s : Happens(j, [w EXCEPT ![4] = s])
  BY DEF StatusChanges
<1> DEFINE x == [w EXCEPT ![4] = s]
<1>2. tab = TgtDev /\ tab \in Polled /\ file # None /\ j \in DOMAIN file /\ Happens(j, x)
  BY <1>1 DEF StatusChanges, Polled
<1>3. WordsOK(tab, w) /\ tab \in Tables
  BY <1>2, WordsOfFile DEF FilesInv
<1>4. w = [i \in DOMAIN w |-> w[i]] /\ DOMAIN w = 1 .. 6
  <2>1. PICK W : w \in Seq(W)
    BY <1>3 DEF WordsOK
  <2>2. Len(w) = 6
    BY <1>2, <1>3, LineLengths DEF WordsOK
  <2>. HIDE DEF w
  <2>. QED BY <2>1, <2>2
<1>. HIDE DEF w
<1>5. /\ DOMAIN x = DOMAIN w /\ x = [i \in DOMAIN x |-> x[i]]
      /\ \A i \in 1 .. 2 : x[i] = w[i]
  <2>1. DOMAIN x = DOMAIN w /\ x = [i \in DOMAIN x |-> x[i]]
    BY <1>4
  <2>2. \A i \in 1 .. 2 : x[i] = w[i]
    BY <1>4
  <2>. QED BY <2>1, <2>2
<1>. HIDE DEF x
<1>6. Keys(tab) = 2
  BY <1>2, PolledKeysAre
<1>7. WordsOK(tab, x)
  BY <1>3, <1>5, <1>6, WordsChange
<1>8. \A r : CountsOK(tab, r)
  BY <1>2, PolledDiffer DEF CountsOK
<1>9. \A i \in 1 .. Keys(tab) : x[i] = file[j].words[i]
  BY <1>5, <1>6 DEF w
<1>. QED BY <1>2, <1>7, <1>8, <1>9, HappensFollows

\* All that the kernel does to what is polled.
KernelActs ==
    \/ Module \/ \E i \in {1, 2} : Create(i) \/ Delete(i)
    \/ \E j \in {1, 2} : StatusChanges(j)
    \/ \E j \in {1, 2}, n \in Initiator, type \in {2, 4, 5} : LoginFails(j, n, type)
    \/ \E j \in {1, 2}, n \in Initiator, type \in {2, 4} : SessionFails(j, n, type)

\* Whatever the kernel does to its records, the agent is not touched by it.
LEMMA KernelFollows ==
    ASSUME FilesInv, PolledInv, KernelActs
    PROVE  /\ PolledInv' /\ Follows /\ tab \in Polled
           /\ UNCHANGED <<tab, failures, agent, statics, walk, notified, loaded, clock>>
<1>1. PolledInv' /\ Follows
  BY ModuleFollows, CreateFollows, DeleteFollows, StatusFollows, LoginFollows, SessionFollows
     DEF KernelActs
<1>2. \E f : Writes(f)
  <2>1. ASSUME NEW j, NEW w, Happens(j, w) PROVE \E f : Writes(f)
    BY <2>1 DEF Happens
  <2>. QED BY <2>1 DEF KernelActs, Module, Create, Delete, StatusChanges, LoginFails, SessionFails
<1>3. tab \in Polled
  BY DEF KernelActs, Module, Create, Delete, StatusChanges, LoginFails, SessionFails, Polled
<1>. QED BY <1>1, <1>2, <1>3 DEF Writes

\* A poll of the login failures is a fold of ReadFailures over the records that are read.
FailureOp(p, acc, r, clientreg) == ReadFailures(acc, r, clientreg)
Polls == INSTANCE LeftFolds WITH Op <- FailureOp

-----------------------------------------------------------------------------
(* The login failures that a poll reads *)

\* What a poll has so far.
AccFields == {"numFailures", "lastTrap", "sent", "inBounds"}
Has4(a, nf, lt, s) ==
    DOMAIN a = AccFields /\ a.numFailures = nf /\ a.lastTrap = lt /\ a.sent = s

\* A node that there is no room for changes nothing, and neither does any after it.
LEMMA OutOfBounds ==
    ASSUME NEW a, NEW nf, NEW lt, NEW s, NEW r, NEW c, Has4(a, nf, lt, s),
           ~a.inBounds \/ KeyOf(TgtAttr, r) \notin numFailures_indices
    PROVE  Has4(ReadFailures(a, r, c), nf, lt, s) /\ ~ReadFailures(a, r, c).inBounds
<1> DEFINE b == [a EXCEPT !.inBounds = FALSE]
<1>1. ReadFailures(a, r, c) = b
  BY DEF ReadFailures
<1>2. /\ DOMAIN b = AccFields /\ b.numFailures = a.numFailures /\ b.lastTrap = a.lastTrap
      /\ b.sent = a.sent /\ ~b.inBounds
  BY Zenon DEF Has4, AccFields
<1>. HIDE DEF b
<1>. QED BY <1>1, <1>2, Zenon DEF Has4

\* Any other has its count noted, and is told when that is news.
LEMMA InBounds ==
    ASSUME NEW a, NEW nf, NEW lt, NEW s, NEW r, NEW c, Has4(a, nf, lt, s),
           a.inBounds, KeyOf(TgtAttr, r) \in numFailures_indices
    PROVE  LET t == LoginTrap(r)
               b == ReadFailures(a, r, c)
           IN  /\ b.inBounds
               /\ Tells(a, r, c) =>
                    Has4(b, [nf EXCEPT ![t.key] = r.words[3]], t, s \cup {t})
               /\ ~Tells(a, r, c) => Has4(b, [nf EXCEPT ![t.key] = r.words[3]], lt, s)
<1> DEFINE t == LoginTrap(r)
           tells == Tells(a, r, c)
           k == t.key
           n == r.words[3]
           b == [a EXCEPT !.numFailures[k] = n, !.lastTrap = IF tells THEN t ELSE @,
                          !.sent = IF tells THEN @ \cup {t} ELSE @]
<1>1. ReadFailures(a, r, c) = b
  BY Zenon DEF ReadFailures, NoteFailures, Noted
<1>. HIDE DEF t, tells, k, n
<1>2. /\ DOMAIN b = AccFields
      /\ b.numFailures = [nf EXCEPT ![k] = n]
      /\ b.inBounds
  BY Zenon DEF Has4, AccFields
<1>3. tells => b.lastTrap = t /\ b.sent = s \cup {t}
  BY Zenon DEF Has4, AccFields
<1>4. ~tells => b.lastTrap = lt /\ b.sent = s
  BY Zenon DEF Has4, AccFields
<1>. HIDE DEF b
<1>5. /\ b.inBounds
      /\ tells => Has4(b, [nf EXCEPT ![k] = n], t, s \cup {t})
      /\ ~tells => Has4(b, [nf EXCEPT ![k] = n], lt, s)
  BY <1>2, <1>3, <1>4, Zenon DEF Has4
<1>. QED BY <1>1, <1>5, Zenon DEF t, tells, k, n

\* The records that a load reads before it finds no memory for a row: one more than it has rows,
\* or all.
ReadBy(f, full) == SubSeq(f, 1, IF full < Len(f) THEN full + 1 ELSE full)

\* They are records of the file, in its order, and no fewer than there is room for.
LEMMA ReadByIs ==
    ASSUME NEW S, NEW f \in Seq(S), NEW full \in 0 .. Len(f)
    PROVE  /\ ReadBy(f, full) \in Seq(S) /\ DOMAIN ReadBy(f, full) = 1 .. Len(ReadBy(f, full))
           /\ Len(ReadBy(f, full)) \in Nat
           /\ full <= Len(ReadBy(f, full)) /\ Len(ReadBy(f, full)) <= Len(f)
           /\ \A i \in 1 .. Len(ReadBy(f, full)) : i \in DOMAIN f /\ ReadBy(f, full)[i] = f[i]
<1> DEFINE m == IF full < Len(f) THEN full + 1 ELSE full
           s == SubSeq(f, 1, m)
<1>1. m \in 0 .. Len(f) /\ full <= m /\ Len(f) \in Nat /\ DOMAIN f = 1 .. Len(f)
  OBVIOUS
<1>. HIDE DEF m
<1>2. s \in Seq(S) /\ Len(s) = m /\ \A i \in 1 .. m : s[i] = f[i]
  BY <1>1
<1>3. ReadBy(f, full) = s
  BY DEF ReadBy, m
<1>. HIDE DEF s
<1>. QED BY <1>1, <1>2, <1>3

\* What a poll starts from, and what the records make of it.
PollBase == [numFailures |-> numFailures, lastTrap |-> lastTrap, sent |-> {}, inBounds |-> TRUE]

\* Nothing has been told yet, and what is remembered is what the last poll left.
LEMMA BaseIs == Has4(PollBase, numFailures, lastTrap, {}) /\ PollBase.inBounds
BY Zenon DEF PollBase, Has4, AccFields

\* A poll ends with what the fold over the records it reads ends with.
LEMMA PollFolds ==
    ASSUME NEW c, NEW full, NEW recs, recs = (IF file = None THEN <<>> ELSE file),
           PollTargetAttributes(c, full)
    PROVE  LET end == Polls!Fold(c, c, PollBase, ReadBy(recs, full))
           IN  /\ agent' = IF end.inBounds THEN "up" ELSE "undefined"
               /\ numFailures' = end.numFailures /\ lastTrap' = end.lastTrap
               /\ sent' = end.sent /\ told' = told \cup end.sent
BY DEF PollTargetAttributes, PollBase, ReadBy, FailureOp, Polls!Fold, FoldLeft, MapThenFoldSet,
       Polls!FoldLeft, Polls!MapThenFoldSet, Max, Polls!Max

\* What a poll has after each record that it reads.
Chain(g, seq, n, c) == \A k \in 1 .. n : g[k] = ReadFailures(g[k - 1], seq[k], c)

\* No record but the first is of the node that there is room for.
NoOthers(seq, n) == \A k \in 2 .. n : KeyOf(TgtAttr, seq[k]) \notin numFailures_indices

\* Then the first says all: what comes after it has no room.
LEMMA OnlyFirst ==
    ASSUME NEW n \in Nat, NEW seq, NEW c, NEW g, NEW nf, NEW lt, NEW s, n # 0,
           Chain(g, seq, n, c), Has4(g[1], nf, lt, s), ~g[1].inBounds \/ NoOthers(seq, n)
    PROVE  Has4(g[n], nf, lt, s) /\ (n # 1 \/ ~g[1].inBounds => ~g[n].inBounds)
<1>. USE DEF Chain, NoOthers
<1> DEFINE G(k) == Has4(g[k], nf, lt, s) /\ (k # 1 \/ ~g[1].inBounds => ~g[k].inBounds)
           T == {k \in Nat : k + 1 \in 1 .. n => G(k + 1)}
<1>1. G(1)
  OBVIOUS
<1>2. ASSUME NEW k \in 1 .. n, k + 1 \in 1 .. n, G(k) PROVE G(k + 1)
  <2>1. ~g[k].inBounds \/ KeyOf(TgtAttr, seq[k + 1]) \notin numFailures_indices
    <3>1. CASE g[1].inBounds
      BY <1>2, <3>1
    <3>2. CASE ~g[1].inBounds
      BY <1>2, <3>2
    <3>. QED BY <3>1, <3>2
  <2>2. g[k + 1] = ReadFailures(g[k], seq[k + 1], c)
    <3>1. k + 1 - 1 = k
      OBVIOUS
    <3>. QED BY <1>2, <3>1
  <2>3. Has4(g[k], nf, lt, s)
    BY <1>2
  <2>4. Has4(ReadFailures(g[k], seq[k + 1], c), nf, lt, s)
        /\ ~ReadFailures(g[k], seq[k + 1], c).inBounds
    BY <2>1, <2>3, OutOfBounds
  <2>. QED BY <2>2, <2>4
<1>. HIDE DEF G
<1>3. 0 \in T
  BY <1>1
<1>4. ASSUME NEW k \in Nat, k \in T PROVE k + 1 \in T
  <2>. SUFFICES ASSUME k + 1 + 1 \in 1 .. n PROVE G(k + 1 + 1)
    OBVIOUS
  <2>1. k + 1 \in 1 .. n
    OBVIOUS
  <2>2. G(k + 1)
    BY <1>4, <2>1
  <2>. QED BY <1>2, <2>1, <2>2
<1>. HIDE DEF T
<1>5. n - 1 \in T
  BY <1>3, <1>4, Polls!NatSetInduction
<1>6. G(n)
  BY <1>5 DEF T
<1>. QED BY <1>6 DEF G

\* What a poll makes of the failures, record by record.
LEMMA FailuresFold ==
    ASSUME NEW p, NEW c, NEW base, NEW read, NEW S, read \in Seq(S)
    PROVE  \E g : /\ g[0] = base
                  /\ \A k \in 1 .. Len(read) : g[k] = FailureOp(p, g[k - 1], read[k], c)
                  /\ Polls!Fold(p, c, base, read) = g[Len(read)]
BY Polls!FoldSteps


\* What a poll of the login failures does: it notes and tells those of the first record, when
\* there is room for its node, and is undefined when there is another that it has no room for.
FailuresOf(r, n, c) ==
    LET t == LoginTrap(r)
        tells == /\ r.words[3] > numFailures[t.key]
                 /\ c /\ t.type \in Notifiable /\ ~SameTrap(t, lastTrap)
    IN  \/ /\ t.key \notin numFailures_indices
           /\ UNCHANGED <<numFailures, lastTrap>> /\ sent' = {} /\ agent' = "undefined"
        \/ /\ t.key \in numFailures_indices
           /\ numFailures' = [numFailures EXCEPT ![t.key] = r.words[3]]
           /\ agent' = "up" => n = 1
           /\ tells => lastTrap' = t /\ sent' = {t}
           /\ ~tells => lastTrap' = lastTrap /\ sent' = {}

\* What a poll of the login failures leaves: the first record decides whether a trap is sent.
LEMMA FailuresPolled ==
    ASSUME FilesInv, PolledInv, tab = TgtAttr, NEW c \in BOOLEAN, NEW recs,
           recs = (IF file = None THEN <<>> ELSE file), NEW full \in 0 .. Len(recs),
           PollTargetAttributes(c, full)
    PROVE  LET read == ReadBy(recs, full)
           IN  /\ Len(read) = 0 => UNCHANGED <<numFailures, lastTrap>> /\ sent' = {}
               /\ Len(read) # 0 => FailuresOf(read[1], Len(read), c)
               /\ told' = told \cup sent' /\ agent' \in {"up", "undefined"}
<1> DEFINE read == ReadBy(recs, full)
           n == Len(read)
           end == Polls!Fold(c, c, PollBase, read)
           r == read[1]
           t == LoginTrap(r)
           tells == /\ r.words[3] > numFailures[t.key]
                    /\ c /\ t.type \in Notifiable /\ ~SameTrap(t, lastTrap)
<1>1. PICK S : recs \in Seq(S)
  <2>1. <<>> \in Seq({})
    OBVIOUS
  <2>2. file # None => \E S : file \in Seq(S)
    BY FileHas DEF FilesInv, FileOK
  <2>. QED BY <2>1, <2>2
<1>2. /\ read \in Seq(S) /\ n \in Nat /\ n <= Len(recs)
      /\ \A i \in 1 .. n : i \in DOMAIN recs /\ read[i] = recs[i]
  BY <1>1, ReadByIs
<1>3. /\ agent' = IF end.inBounds THEN "up" ELSE "undefined"
      /\ numFailures' = end.numFailures /\ lastTrap' = end.lastTrap
      /\ sent' = end.sent /\ told' = told \cup end.sent
  BY PollFolds
<1>. HIDE DEF end, read
<1>4. PICK g : /\ g[0] = PollBase
               /\ \A k \in 1 .. n : g[k] = ReadFailures(g[k - 1], read[k], c)
               /\ end = g[n]
  <2>1. \E g : /\ g[0] = PollBase
               /\ \A k \in 1 .. n : g[k] = FailureOp(c, g[k - 1], read[k], c)
               /\ Polls!Fold(c, c, PollBase, read) = g[n]
    <3>1. read \in Seq(S)
      BY <1>2
    <3>. HIDE DEF t, r, tells
    <3>. QED BY <3>1, FailuresFold
  <2>. QED BY <2>1 DEF FailureOp, end
<1>5. told' = told \cup sent' /\ agent' \in {"up", "undefined"}
  BY <1>3
<1>6. CASE n = 0
  <2>1. end = PollBase
    BY <1>4, <1>6
  <2>2. end.numFailures = numFailures /\ end.lastTrap = lastTrap /\ end.sent = {}
    BY <2>1, BaseIs, Zenon DEF Has4
  <2>3. UNCHANGED <<numFailures, lastTrap>> /\ sent' = {}
    BY <1>3, <2>2
  <2>. QED BY <1>5, <1>6, <2>3 DEF read
<1>7. CASE n # 0
  <2>. USE DEF r
  <2>1. g[1] = ReadFailures(PollBase, r, c) /\ t.key = KeyOf(TgtAttr, r)
    <3>1. 1 \in 1 .. n /\ 1 - 1 = 0
      BY <1>2, <1>7
    <3>2. t.key = KeyOf(TgtAttr, r)
      BY DEF LoginTrap
    <3>. HIDE DEF r, t
    <3>3. g[1] = ReadFailures(g[0], read[1], c)
      BY <1>4, <3>1
    <3>. QED BY <1>4, <3>2, <3>3 DEF r
  <2>. HIDE DEF r
  <2>2. Tells(PollBase, r, c) <=> tells
    BY BaseIs, Zenon DEF Tells, Has4
  <2>3. CASE t.key \notin numFailures_indices
    <3>1. Has4(g[1], numFailures, lastTrap, {}) /\ ~g[1].inBounds
      <4>. HIDE DEF t, tells
      <4>. QED BY <2>1, <2>3, BaseIs, OutOfBounds
    <3>2. Has4(g[n], numFailures, lastTrap, {}) /\ ~g[n].inBounds
      <4>1. n \in Nat /\ n # 0
        BY <1>2, <1>7
      <4>2. Chain(g, read, n, c)
        BY <1>4 DEF Chain
      <4>. HIDE DEF n, t, r, tells
      <4>3. ~g[1].inBounds \/ NoOthers(read, n)
        BY <3>1, Zenon
      <4>4. Has4(g[n], numFailures, lastTrap, {}) /\ (n # 1 \/ ~g[1].inBounds => ~g[n].inBounds)
        BY <3>1, <4>1, <4>2, <4>3, OnlyFirst, SMTT(30)
      <4>. QED BY <3>1, <4>4
    <3>. HIDE DEF t, tells
    <3>3. end.numFailures = numFailures /\ end.lastTrap = lastTrap /\ end.sent = {}
      BY <1>4, <3>2, Zenon DEF Has4
    <3>4. ~end.inBounds
      BY <1>4, <3>2, Zenon
    <3>5. agent' = "undefined"
      BY <1>3, <3>4, Zenon
    <3>6. FailuresOf(r, n, c)
      BY <1>3, <2>3, <3>3, <3>5 DEF FailuresOf, t
    <3>. QED BY <1>5, <1>7, <3>6 DEF read, r
  <2>4. CASE t.key \in numFailures_indices
    <3> DEFINE nf == [numFailures EXCEPT ![t.key] = r.words[3]]
               lt == IF tells THEN t ELSE lastTrap
               s == IF tells THEN {t} ELSE {}
    <3>1. g[1].inBounds /\ Has4(g[1], nf, lt, s)
      <4> DEFINE b == ReadFailures(PollBase, r, c)
      <4>1. /\ b.inBounds
            /\ Tells(PollBase, r, c) => Has4(b, nf, t, {} \cup {t})
            /\ ~Tells(PollBase, r, c) => Has4(b, nf, lastTrap, {})
        <5>1. KeyOf(TgtAttr, r) \in numFailures_indices
          BY <2>1, <2>4, Zenon
        <5>. QED BY <5>1, BaseIs, InBounds, Zenon
      <4>. HIDE DEF b, nf
      <4>2. g[1] = b
        BY <2>1, Zenon DEF b
      <4>3. {} \cup {t} = {t}
        OBVIOUS
      <4>. HIDE DEF t, tells
      <4>4. CASE tells
        <5>1. Has4(b, nf, t, {t})
          BY <2>2, <4>1, <4>3, <4>4, Zenon
        <5>2. lt = t /\ s = {t}
          BY <4>4
        <5>. QED BY <4>1, <4>2, <5>1, <5>2, Zenon
      <4>5. CASE ~tells
        <5>1. Has4(b, nf, lastTrap, {})
          BY <2>2, <4>1, <4>5, Zenon
        <5>2. lt = lastTrap /\ s = {}
          BY <4>5
        <5>. QED BY <4>1, <4>2, <5>1, <5>2, Zenon
      <4>. QED BY <4>4, <4>5
    <3>2. NoOthers(read, n)
      <4>1. ASSUME NEW k \in 2 .. n, KeyOf(TgtAttr, read[k]) \in numFailures_indices PROVE FALSE
        <5>1. KeyOf(TgtAttr, read[k]) = KeyOf(TgtAttr, read[1])
          BY <2>1, <2>4, <4>1 DEF numFailures_indices, r
        <5>2. k \in 1 .. n /\ 1 \in 1 .. n /\ k # 1
          BY <1>2
        <5>3. file # None
          <6>1. CASE file = None
            BY <1>2, <1>7, <6>1
          <6>. QED BY <6>1
        <5>. QED BY <1>2, <5>1, <5>2, <5>3 DEF PolledInv, PolledFile, Polled
      <4>. QED BY <4>1 DEF NoOthers
    <3>. HIDE DEF nf, lt, s, t, tells
    <3>3. Has4(g[n], nf, lt, s) /\ (n # 1 => ~g[n].inBounds)
      <4>1. n \in Nat /\ n # 0
        BY <1>2, <1>7
      <4>2. Chain(g, read, n, c)
        BY <1>4 DEF Chain
      <4>. HIDE DEF n, r
      <4>. QED BY <3>1, <3>2, <4>1, <4>2, OnlyFirst, SMTT(30)
    <3>4. end.numFailures = nf /\ end.lastTrap = lt /\ end.sent = s
      BY <1>4, <3>3, Zenon DEF Has4
    <3>5. agent' = "up" => n = 1
      <4>1. n # 1 => ~end.inBounds
        BY <1>4, <3>3, Zenon
      <4>2. n # 1 => agent' = "undefined"
        BY <1>3, <4>1, Zenon
      <4>. QED BY <4>2
    <3>6. numFailures' = [numFailures EXCEPT ![t.key] = r.words[3]]
      BY <1>3, <3>4 DEF nf
    <3>7. /\ tells => lastTrap' = t /\ sent' = {t}
          /\ ~tells => lastTrap' = lastTrap /\ sent' = {}
      BY <1>3, <3>4 DEF lt, s
    <3>8. FailuresOf(r, n, c)
      BY <2>4, <3>5, <3>6, <3>7, Zenon DEF FailuresOf, t, tells
    <3>. QED BY <1>5, <1>7, <3>8 DEF read, r
  <2>. QED BY <2>3, <2>4
<1>. QED BY <1>6, <1>7

-----------------------------------------------------------------------------
(* The devices that a poll reads *)

\* The table of devices.
LEMMA DeviceTable ==
    /\ Table(TgtDev) = scsiTgtDevTable_table
    /\ \A w : Load(TgtDev, w) = scsiTgtDevTable_load(w)
    /\ ~Table(TgtDev).alias
<1>1. TgtDev \in init_scsiMib /\ TgtDev \notin init_iscsiMib /\ TgtDev \notin init_ipsAuthMib
      /\ TgtDev # SsnFailure
  BY DEF TgtDev, init_iscsiMib, init_scsiMib, init_ipsAuthMib, SsnFailure
<1>2. Table(TgtDev) = Scsi_table[TgtDev] /\ \A w : Load(TgtDev, w) = Scsi_load(TgtDev, w)
  BY <1>1 DEF Table, Load
<1>3. Scsi_table[TgtDev] = scsiTgtDevTable_table
  BY DEF Scsi_table, TgtDev
<1>4. \A w : Scsi_load(TgtDev, w) = scsiTgtDevTable_load(w)
  BY DEF Scsi_load, TgtDev
<1>5. ~scsiTgtDevTable_table.alias
  BY DEF scsiTgtDevTable_table
<1>. QED BY <1>2, <1>3, <1>4, <1>5

\* What a load makes of the words of a device.
LEMMA DeviceIs ==
    ASSUME NEW r, RecordOK(TgtDev, r)
    PROVE  LET o == Load(TgtDev, r.words)
           IN  /\ o.scsiTgtDeviceStatus = DevStatusOf(r.words[4])
               /\ Index(TgtDev, o) = KeyOf(TgtDev, r)
               /\ RowOK(TgtDev, o)
<1> DEFINE w == r.words
           o == Load(TgtDev, w)
<1>1. /\ Table(TgtDev) = scsiTgtDevTable_table
      /\ o = scsiTgtDevTable_load(w)
      /\ ~Table(TgtDev).alias
  BY DeviceTable
<1>2. o.scsiTgtDeviceStatus = DevStatusOf(w[4]) /\ o.scsiInstIndex = w[1] /\ o.scsiDeviceIndex = w[2]
  BY <1>1 DEF scsiTgtDevTable_load
<1>3. Table(TgtDev).index = <<"scsiInstIndex", "scsiDeviceIndex">>
  BY <1>1 DEF scsiTgtDevTable_table
<1>4. WordsOK(TgtDev, w)
  BY DEF RecordOK
<1>5. RowOK(TgtDev, o)
  <2>1. TgtDev \in Tables \ {SsnFailure}
    BY PolledTables, PolledDiffer DEF Polled
  <2>2. AliasOf(TgtDev, 0) = <<>>
    BY <1>1 DEF AliasOf
  <2>3. PICK W : w \in Seq(W)
    BY <1>4 DEF WordsOK
  <2>. HIDE DEF w
  <2>4. w \o <<>> = w
    BY <2>3
  <2>5. RowOK(TgtDev, Load(TgtDev, w \o AliasOf(TgtDev, 0)))
    BY <1>4, <2>1, RowsNamed
  <2>. QED BY <2>2, <2>4, <2>5
<1>. HIDE DEF o
<1>6. Index(TgtDev, o) = KeyOf(TgtDev, r)
  <2>1. PICK W : w \in Seq(W)
    BY <1>4 DEF WordsOK
  <2>2. Len(w) >= 2
    BY <1>4, LineLengths DEF WordsOK
  <2>. HIDE DEF w
  <2>3. SubSeq(w, 1, 2) = [i \in 1 .. 2 |-> w[i]]
    BY <2>1, <2>2
  <2>4. Index(TgtDev, o) = [i \in 1 .. 2 |-> w[i]]
    <3>1. Index(TgtDev, o) = [i \in 1 .. 2 |-> o[Table(TgtDev).index[i]]]
      BY <1>3 DEF Index
    <3>2. /\ o[Table(TgtDev).index[1]] = w[1]
          /\ o[Table(TgtDev).index[2]] = w[2]
      BY <1>2, <1>3
    <3>. QED BY <3>1, <3>2
  <2>5. KeyOf(TgtDev, r) = SubSeq(w, 1, 2)
    BY PolledKeysAre DEF KeyOf, w
  <2>. QED BY <2>3, <2>4, <2>5
<1>. QED BY <1>2, <1>5, <1>6 DEF o

\* The rows of a poll are those of the first devices in the file.
LEMMA DeviceRows ==
    ASSUME NEW f, RecordsOK(TgtDev, f), PolledFile(TgtDev, f), NEW full \in 0 .. Len(f)
    PROVE  RowsOf(TgtDev, f, full) = {Load(TgtDev, f[j].words) : j \in 1 .. full}
<1>1. /\ Len(f) \in Nat /\ DOMAIN f = 1 .. Len(f)
      /\ \A j \in DOMAIN f : RecordOK(TgtDev, f[j])
  BY FileHas
<1>2. IsFile(TgtDev, f)
  <2>1. Table(TgtDev).more \in Nat
    <3>1. TgtDev \in Tables
      BY PolledTables DEF Polled
    <3>. QED BY <3>1, MoreLines
  <2>. QED BY <1>1, <2>1 DEF IsFile, RecordOK
<1>3. RowsOf(TgtDev, f, full) = {RowAt(TgtDev, f, j) : j \in {j \in ReadOf(f) : MetBefore(f, j) < full}}
  BY <1>1, <1>2, RowsAre
<1>4. ReadOf(f) = 1 .. Len(f)
  BY <1>1 DEF ReadOf, PolledFile
<1>5. ASSUME NEW j \in 1 .. Len(f) PROVE MetBefore(f, j) = j - 1
  <2> DEFINE n == j - 1
  <2>1. {i \in ReadOf(f) : i < j} = 1 .. n
    BY <1>1, <1>4
  <2>2. n \in Nat
    BY <1>1
  <2>. HIDE DEF n
  <2>3. Cardinality(1 .. n) = IF 1 > n THEN 0 ELSE n - 1 + 1
    BY <2>2, FS_Interval
  <2>4. MetBefore(f, j) = Cardinality(1 .. n)
    BY <2>1 DEF MetBefore
  <2>5. MetBefore(f, j) = n
    BY <2>2, <2>3, <2>4
  <2>. QED BY <2>5 DEF n
<1>6. {j \in ReadOf(f) : MetBefore(f, j) < full} = 1 .. full
  BY <1>1, <1>4, <1>5
<1>7. ASSUME NEW j \in 1 .. full PROVE RowAt(TgtDev, f, j) = Load(TgtDev, f[j].words)
  <2> DEFINE w == f[j].words
  <2>1. AliasOf(TgtDev, MetBefore(f, j)) = <<>>
    BY DeviceTable DEF AliasOf
  <2>2. PICK W : w \in Seq(W)
    BY <1>1 DEF RecordOK, WordsOK
  <2>. HIDE DEF w
  <2>3. w \o <<>> = w
    BY <2>2
  <2>. QED BY <2>1, <2>3 DEF RowAt, w
<1>. QED BY <1>3, <1>6, <1>7

-----------------------------------------------------------------------------
(* Login failures *)

\* What the agent remembers of a record: the count that it had when a poll last saw it, and
\* that count is smaller when the record is new since.
Remembers(count, r) ==
    LET k == KeyOf(tab, r)
    IN  /\ news[k] = "seen" => count = Count(tab, r)
        /\ news[k] = "new" => count < Count(tab, r)

\* The counts that the agent has are those of the last poll, and the failure that it remembers
\* was told.
LoginsInv ==
    /\ DOMAIN numFailures = numFailures_indices
    /\ \A k \in numFailures_indices : numFailures[k] \in 0 .. MaxFails
    /\ tab = TgtAttr =>
         /\ lastTrap = NoTrap \/ lastTrap \in told
         /\ agent = "up" =>
              \A r \in Records : KeyOf(tab, r) \in numFailures_indices =>
                Remembers(numFailures[KeyOf(tab, r)], r)

\* What a poll of the failures comes to: the first record, if there is one, and what was seen.
LEMMA LoginsPolled ==
    ASSUME FilesInv, PolledInv, tab = TgtAttr, NEW c \in BOOLEAN, PollLoad(c)
    PROVE  /\ UNCHANGED <<tab, file, clock>>
           /\ told' = told \cup sent' /\ agent' \in {"up", "undefined"}
           /\ \E n, ks :
                /\ n \in Nat
                /\ news' = [k \in DOMAIN news |-> IF k \in ks THEN "seen" ELSE news[k]]
                /\ n = 0 => /\ Records = {} /\ ks = {} /\ sent' = {}
                            /\ UNCHANGED <<numFailures, lastTrap>>
                /\ n # 0 => /\ file # None /\ 1 \in DOMAIN file /\ FailuresOf(file[1], n, c)
                            /\ KeyOf(tab, file[1]) \in ks
                /\ n = 1 => ks = {KeyOf(tab, file[1])}
<1> DEFINE recs == IF file = None THEN <<>> ELSE file
<1>1. UNCHANGED <<tab, file, clock>>
  BY DEF PollLoad, kernel
<1>2. PICK S : recs \in Seq(S)
  <2>1. <<>> \in Seq({})
    OBVIOUS
  <2>2. file # None => \E S : file \in Seq(S)
    BY FileHas DEF FilesInv, FileOK
  <2>. QED BY <2>1, <2>2
<1>3. PICK full \in 0 .. Len(recs) : PollTargetAttributes(c, full)
  <2>1. Len(recs) \in Nat
    BY <1>2
  <2>2. PICK full : /\ full \in IF file = None THEN {0}
                               ELSE IF failures < MaxFailures /\ tab # SsnFailure THEN 0 .. Len(file)
                               ELSE {Len(file)}
                    /\ PollTargetAttributes(c, full)
    BY PolledDiffer DEF PollLoad
  <2>3. full \in 0 .. Len(recs)
    BY <2>1, <2>2
  <2>. QED BY <2>2, <2>3
<1> DEFINE read == ReadBy(recs, full)
           n == Len(read)
           ks == {KeyOf(TgtAttr, read[j]) : j \in DOMAIN read}
<1>. HIDE DEF recs
<1>4. /\ n \in Nat /\ DOMAIN read = 1 .. n /\ full <= n /\ n <= Len(recs)
      /\ \A i \in 1 .. n : i \in DOMAIN recs /\ read[i] = recs[i]
  BY <1>2, ReadByIs
<1>5. /\ n = 0 => UNCHANGED <<numFailures, lastTrap>> /\ sent' = {}
      /\ n # 0 => FailuresOf(read[1], n, c)
      /\ told' = told \cup sent' /\ agent' \in {"up", "undefined"}
  BY <1>3, FailuresPolled DEF recs
<1>6. news' = [k \in DOMAIN news |-> IF k \in ks THEN "seen" ELSE news[k]]
  BY <1>3 DEF PollTargetAttributes, SeesThose, ReadBy, recs
<1>7. n = 0 => Len(recs) = 0
  <2>1. Len(recs) \in Nat
    BY <1>2
  <2>2. read = SubSeq(recs, 1, IF full < Len(recs) THEN full + 1 ELSE full)
    BY DEF ReadBy
  <2>3. CASE full < Len(recs)
    <3>1. n = full + 1
      BY <1>2, <2>1, <2>2, <2>3
    <3>. QED BY <3>1
  <2>4. CASE ~(full < Len(recs))
    BY <1>4, <2>1, <2>4
  <2>. QED BY <2>3, <2>4
<1>. HIDE DEF n, read
<1>8. n = 0 => Records = {} /\ ks = {}
  <2>. SUFFICES ASSUME n = 0 PROVE Records = {} /\ ks = {}
    OBVIOUS
  <2>1. DOMAIN recs = {} /\ DOMAIN read = {}
    BY <1>2, <1>4, <1>7
  <2>. QED BY <2>1 DEF Records, recs
<1>9. n # 0 => /\ file # None /\ 1 \in DOMAIN file /\ read[1] = file[1]
               /\ KeyOf(tab, file[1]) \in ks
  <2>. SUFFICES ASSUME n # 0 PROVE /\ file # None /\ 1 \in DOMAIN file /\ read[1] = file[1]
                                   /\ KeyOf(tab, file[1]) \in ks
    OBVIOUS
  <2>1. 1 \in DOMAIN recs /\ read[1] = recs[1] /\ 1 \in DOMAIN read
    BY <1>4
  <2>2. file # None
    BY <2>1 DEF recs
  <2>. QED BY <2>1, <2>2 DEF recs
<1>10. n = 1 => ks = {KeyOf(tab, file[1])}
  <2>. SUFFICES ASSUME n = 1 PROVE ks = {KeyOf(tab, file[1])}
    OBVIOUS
  <2>1. DOMAIN read = {1}
    BY <1>4
  <2>. QED BY <1>9, <2>1
<1>. HIDE DEF ks
<1>11. n # 0 => FailuresOf(file[1], n, c)
  BY <1>5, <1>9
<1>12. /\ n = 0 => /\ Records = {} /\ ks = {} /\ sent' = {}
                   /\ UNCHANGED <<numFailures, lastTrap>>
       /\ n # 0 => /\ file # None /\ 1 \in DOMAIN file /\ FailuresOf(file[1], n, c)
                   /\ KeyOf(tab, file[1]) \in ks
       /\ n = 1 => ks = {KeyOf(tab, file[1])}
  BY <1>5, <1>8, <1>9, <1>10, <1>11
<1>. QED BY <1>1, <1>4, <1>5, <1>6, <1>12

\* A poll, and the load at the start, leave what the invariant says,
LEMMA LoginsNoted ==
    ASSUME FilesInv, PolledInv, LoginsInv, tab = TgtAttr, NEW c \in BOOLEAN, PollLoad(c)
    PROVE  LoginsInv'
<1>1. PICK n, ks :
        /\ n \in Nat
        /\ news' = [k \in DOMAIN news |-> IF k \in ks THEN "seen" ELSE news[k]]
        /\ n = 0 => /\ Records = {} /\ ks = {} /\ sent' = {}
                    /\ UNCHANGED <<numFailures, lastTrap>>
        /\ n # 0 => /\ file # None /\ 1 \in DOMAIN file /\ FailuresOf(file[1], n, c)
                    /\ KeyOf(tab, file[1]) \in ks
        /\ n = 1 => ks = {KeyOf(tab, file[1])}
  BY LoginsPolled
<1>2. UNCHANGED <<tab, file, clock>> /\ told' = told \cup sent'
  BY LoginsPolled
<1>3. Records' = Records
  BY <1>2 DEF Records
<1>4. CASE n = 0
  BY <1>1, <1>2, <1>3, <1>4 DEF LoginsInv
<1>5. CASE n # 0
  <2> DEFINE r == file[1]
             t == LoginTrap(r)
             k == KeyOf(tab, r)
  <2>1. /\ file # None /\ 1 \in DOMAIN file /\ FailuresOf(r, n, c) /\ k \in ks
    BY <1>1, <1>5
  <2>2. t.key = k
    BY DEF LoginTrap
  <2>3. r \in Records /\ r.words[3] \in 0 .. MaxFails /\ Count(tab, r) = r.words[3]
        /\ k \in DOMAIN news
    BY <2>1 DEF Records, PolledInv, Polled, PolledFile, CountsOK, Count
  <2>. HIDE DEF r, t, k
  <2>4. CASE k \notin numFailures_indices
    <3>1. UNCHANGED <<numFailures, lastTrap>> /\ agent' = "undefined"
      BY <2>1, <2>2, <2>4 DEF FailuresOf, t
    <3>. QED BY <1>2, <3>1 DEF LoginsInv
  <2>5. CASE k \in numFailures_indices
    <3>1. /\ numFailures' = [numFailures EXCEPT ![k] = r.words[3]]
          /\ (lastTrap' = t /\ sent' = {t}) \/ lastTrap' = lastTrap
      BY <2>1, <2>2, <2>5 DEF FailuresOf, t
    <3>2. DOMAIN numFailures' = numFailures_indices /\ numFailures'[k] = r.words[3]
          /\ \A j \in numFailures_indices : numFailures'[j] \in 0 .. MaxFails
      BY <2>3, <2>5, <3>1 DEF LoginsInv
    <3>3. lastTrap' = NoTrap \/ lastTrap' \in told'
      BY <1>2, <3>1 DEF LoginsInv
    <3>4. ASSUME NEW s \in Records, KeyOf(tab, s) \in numFailures_indices PROVE s = r
      <4>1. KeyOf(tab, s) = KeyOf(tab, r)
        BY <2>5, <3>4 DEF numFailures_indices, k
      <4>2. PICK i \in DOMAIN file : s = file[i]
        BY <2>1, <3>4 DEF Records
      <4>3. i = 1
        BY <2>1, <4>1, <4>2 DEF PolledInv, Polled, PolledFile, r
      <4>. QED BY <4>2, <4>3 DEF r
    <3>5. news'[k] = "seen"
      BY <1>1, <2>1, <2>3
    <3>6. ASSUME NEW s \in Records, KeyOf(tab, s) \in numFailures_indices
          PROVE  /\ KeyOf(tab, s) = k /\ news'[k] = "seen" /\ numFailures'[k] = Count(tab, s)
      BY <2>3, <3>2, <3>4, <3>5, <3>6 DEF k
    <3>7. \A s \in Records' : KeyOf(tab', s) \in numFailures_indices =>
             Remembers(numFailures[KeyOf(tab, s)], s)'
      BY <1>2, <1>3, <3>6 DEF Remembers, Count
    <3>. QED BY <3>2, <3>3, <3>7 DEF LoginsInv
  <2>. QED BY <2>4, <2>5
<1>. QED BY <1>4, <1>5

\* tells no failure that a poll has seen,
LEMMA LoginsAreNews ==
    ASSUME FilesInv, PolledInv, LoginsInv, tab = TgtAttr, agent = "up", PollLoad(TRUE)
    PROVE  \A t \in sent' : news[t.key] # "seen"
<1>1. PICK n \in Nat :
        /\ n = 0 => sent' = {}
        /\ n # 0 => file # None /\ 1 \in DOMAIN file /\ FailuresOf(file[1], n, TRUE)
  BY LoginsPolled
<1>. SUFFICES ASSUME NEW t \in sent' PROVE news[t.key] # "seen"
  OBVIOUS
<1> DEFINE r == file[1]
<1>2. /\ file # None /\ 1 \in DOMAIN file /\ FailuresOf(r, n, TRUE)
  BY <1>1
<1>3. /\ t = LoginTrap(r) /\ t.key \in numFailures_indices /\ r.words[3] > numFailures[t.key]
  BY <1>2 DEF FailuresOf
<1>4. t.key = KeyOf(tab, r) /\ r \in Records /\ Count(tab, r) = r.words[3]
  BY <1>2, <1>3 DEF LoginTrap, Records, Count
<1>. HIDE DEF r
<1>5. Remembers(numFailures[t.key], r)
  BY <1>3, <1>4 DEF LoginsInv
<1>6. numFailures[t.key] \in Int /\ r.words[3] \in Int
  BY <1>3, <1>4, AgentAssumption DEF LoginsInv, Records, PolledInv, PolledFile, Polled, CountsOK
<1>. QED BY <1>3, <1>4, <1>5, <1>6 DEF Remembers

\* and tells one that is new, unless one like it was told not long ago.
LEMMA NewLoginsTold ==
    ASSUME FilesInv, PolledInv, LoginsInv, tab = TgtAttr, agent = "up", PollLoad(TRUE),
           agent' = "up", NEW k \in DOMAIN news, news[k] = "new", news'[k] = "seen"
    PROVE  LET r == file[CHOOSE i \in DOMAIN file : KeyOf(tab, file[i]) = k]
           IN  r.words[5] \in Notifiable => \E t \in told' : SameTrap(LoginTrap(r), t)
<1>1. PICK n, ks :
        /\ n \in Nat
        /\ news' = [j \in DOMAIN news |-> IF j \in ks THEN "seen" ELSE news[j]]
        /\ n = 0 => ks = {}
        /\ n # 0 => file # None /\ 1 \in DOMAIN file /\ FailuresOf(file[1], n, TRUE)
        /\ n = 1 => ks = {KeyOf(tab, file[1])}
  BY LoginsPolled
<1>2. told' = told \cup sent'
  BY LoginsPolled
<1>3. k \in ks
  BY <1>1
<1>4. n # 0
  BY <1>1, <1>3
<1> DEFINE r == file[1]
           t == LoginTrap(r)
           i == CHOOSE j \in DOMAIN file : KeyOf(tab, file[j]) = k
<1>5. file # None /\ 1 \in DOMAIN file /\ FailuresOf(r, n, TRUE)
  BY <1>1, <1>4
<1>6. /\ t.key \in numFailures_indices /\ n = 1
      /\ numFailures' = [numFailures EXCEPT ![t.key] = r.words[3]]
  BY <1>5 DEF FailuresOf
<1>7. k = KeyOf(tab, r) /\ t.key = k
  BY <1>1, <1>3, <1>6 DEF LoginTrap
<1>8. i = 1
  BY <1>5, <1>7 DEF PolledInv, PolledFile, Polled
<1>9. /\ r \in Records /\ Count(tab, r) = r.words[3] /\ r.words[3] \in Int /\ r.words[4] \in Int
      /\ numFailures[t.key] \in Int
  BY <1>5, <1>6, AgentAssumption
     DEF Records, Count, PolledInv, PolledFile, Polled, CountsOK, LoginsInv
<1>10. t.type = r.words[5] /\ t.time = r.words[4]
  BY DEF LoginTrap
<1>. HIDE DEF i, r
<1>11. r.words[3] > numFailures[t.key]
  <2>1. Remembers(numFailures[t.key], r)
    BY <1>6, <1>7, <1>9 DEF LoginsInv
  <2>. QED BY <1>7, <1>9, <2>1 DEF Remembers
<1>. SUFFICES ASSUME t.type \in Notifiable PROVE \E u \in told' : SameTrap(t, u)
  BY <1>8, <1>10 DEF i, r
<1>12. CASE SameTrap(t, lastTrap)
  <2>1. lastTrap # NoTrap
    BY <1>12 DEF SameTrap, NoTrap, Notifiable
  <2>. QED BY <1>2, <1>12, <2>1 DEF LoginsInv
<1>13. CASE ~SameTrap(t, lastTrap)
  <2>1. sent' = {t}
    BY <1>5, <1>6, <1>11, <1>13 DEF FailuresOf
  <2>2. SameTrap(t, t)
    BY <1>9, <1>10, AgentAssumption DEF SameTrap
  <2>. QED BY <1>2, <2>1, <2>2
<1>. QED BY <1>12, <1>13

-----------------------------------------------------------------------------
(* Session failures *)

\* The count that the agent has is that of the last poll.
SessionsInv ==
    tab = SsnFailure =>
      /\ ssnFailureData \in 0 .. MaxFails
      /\ agent = "up" => \A r \in Records : Remembers(ssnFailureData, r)

\* What a poll of the failures does: there is one record or none.
LEMMA SessionsPolled ==
    ASSUME FilesInv, PolledInv, tab = SsnFailure, NEW c \in BOOLEAN, PollLoad(c)
    PROVE  /\ UNCHANGED <<tab, file, clock>>
           /\ \/ Records = {} /\ sent' = {} /\ UNCHANGED <<ssnFailureData, news>>
              \/ LET r == file[1]
                     n == Count(tab, r)
                 IN  /\ file # None /\ Records = {r} /\ n \in 0 .. MaxFails
                     /\ KeyOf(tab, r) \in DOMAIN news
                     /\ \A i \in DOMAIN file : KeyOf(tab, file[i]) = KeyOf(tab, r) => i = 1
                     /\ 1 \in DOMAIN file
                     /\ ssnFailureData' = n
                     /\ news' = [k \in DOMAIN news |-> IF k \in {KeyOf(tab, r)} THEN "seen" ELSE news[k]]
                     /\ n # ssnFailureData /\ c /\ n # 0 =>
                          \E t : /\ sent' = {t} /\ t.key = KeyOf(tab, r) /\ t.failures = r.words[7]
                                 /\ t.type = r.words[8] /\ t.name = r.words[9]
                     /\ n = ssnFailureData => sent' = {}
                     /\ \A t \in sent' : t.key = KeyOf(tab, r)
<1>1. UNCHANGED <<tab, file, clock>>
  BY DEF PollLoad, kernel
<1>2. PollSessionFailure(c)
  BY PolledDiffer DEF PollLoad
<1>3. CASE file = None \/ file = <<>>
  <2>1. Records = {}
    BY <1>3 DEF Records
  <2>. QED BY <1>1, <1>2, <1>3, <2>1 DEF PollSessionFailure
<1>4. CASE file # None /\ file # <<>>
  <2> DEFINE r == file[1]
             n == Count(tab, r)
             t == [key |-> KeyOf(SsnFailure, r), name |-> r.words[9], type |-> r.words[8],
                   failures |-> r.words[7]]
  <2>1. PICK S : file \in Seq(S)
    BY <1>4, FileHas DEF FilesInv, FileOK
  <2>2. Len(file) \in Nat /\ DOMAIN file = 1 .. Len(file) /\ 1 \in DOMAIN file
    BY <1>4, <2>1
  <2>3. PolledFile(tab, file) /\ DOMAIN news = PolledKeys(tab)
    BY <1>4 DEF PolledInv, Polled
  <2>4. n \in 0 .. MaxFails /\ KeyOf(tab, r) \in DOMAIN news
    BY <2>2, <2>3 DEF PolledFile, CountsOK
  <2>5. \A i \in DOMAIN file : KeyOf(tab, file[i]) = KeyOf(tab, r) /\ i = 1
    BY <2>2, <2>3 DEF PolledFile, CountsOK
  <2>6. Records = {r}
    BY <1>4, <2>2, <2>5 DEF Records
  <2>7. n = r.words[7]
    BY PolledDiffer DEF Count
  <2>8. /\ ssnFailureData' = t.failures
        /\ sent' = IF t.failures # ssnFailureData /\ c /\ t.failures # 0 THEN {t} ELSE {}
        /\ news' = [k \in DOMAIN news |-> IF k \in {t.key} THEN "seen" ELSE news[k]]
    BY <1>2, <1>4 DEF PollSessionFailure, SeesThose
  <2>9. /\ t.key = KeyOf(tab, r) /\ t.failures = r.words[7] /\ t.type = r.words[8]
        /\ t.name = r.words[9]
    OBVIOUS
  <2>. HIDE DEF t, n
  <2>10. /\ ssnFailureData' = n
         /\ n # ssnFailureData /\ c /\ n # 0 => sent' = {t}
         /\ n = ssnFailureData => sent' = {}
         /\ sent' \subseteq {t}
         /\ news' = [k \in DOMAIN news |-> IF k \in {KeyOf(tab, r)} THEN "seen" ELSE news[k]]
    BY <2>7, <2>8, <2>9
  <2>. HIDE DEF r
  <2>11. n # ssnFailureData /\ c /\ n # 0 =>
           \E u : /\ sent' = {u} /\ u.key = KeyOf(tab, r) /\ u.failures = r.words[7]
                  /\ u.type = r.words[8] /\ u.name = r.words[9]
    BY <2>9, <2>10
  <2>12. \A u \in sent' : u.key = KeyOf(tab, r)
    BY <2>9, <2>10
  <2>. QED BY <1>1, <1>4, <2>2, <2>4, <2>5, <2>6, <2>10, <2>11, <2>12 DEF n, r
<1>. QED BY <1>3, <1>4

\* A poll, and the load at the start, leave what the invariant says,
LEMMA SessionsNoted ==
    ASSUME FilesInv, PolledInv, SessionsInv, tab = SsnFailure, NEW c \in BOOLEAN, PollLoad(c)
    PROVE  SessionsInv'
<1> DEFINE r == file[1]
           n == Count(tab, r)
<1>1. UNCHANGED <<tab, file, clock>>
  BY SessionsPolled
<1>2. Records' = Records
  BY <1>1 DEF Records
<1>3. CASE Records = {} /\ UNCHANGED <<ssnFailureData, news>>
  BY <1>1, <1>2, <1>3 DEF SessionsInv
<1>4. CASE /\ Records = {r} /\ n \in 0 .. MaxFails /\ ssnFailureData' = n
           /\ KeyOf(tab, r) \in DOMAIN news
           /\ news' = [k \in DOMAIN news |-> IF k \in {KeyOf(tab, r)} THEN "seen" ELSE news[k]]
  <2>1. news'[KeyOf(tab, r)] = "seen"
    BY <1>4
  <2>2. \A s \in Records' : Remembers(ssnFailureData, s)'
    BY <1>1, <1>2, <1>4, <2>1 DEF Remembers, Count
  <2>. QED BY <1>4, <2>2 DEF SessionsInv
<1>. QED BY <1>3, <1>4, SessionsPolled

\* tells no failure that a poll has seen,
LEMMA SessionsAreNews ==
    ASSUME FilesInv, PolledInv, SessionsInv, tab = SsnFailure, agent = "up", PollLoad(TRUE)
    PROVE  \A t \in sent' : news[t.key] # "seen"
<1> DEFINE r == file[1]
           n == Count(tab, r)
<1>1. CASE sent' = {}
  BY <1>1
<1>2. CASE /\ Records = {r} /\ (n = ssnFailureData => sent' = {})
           /\ \A t \in sent' : t.key = KeyOf(tab, r)
  <2>1. Remembers(ssnFailureData, r)
    BY <1>2 DEF SessionsInv
  <2>2. news[KeyOf(tab, r)] = "seen" => n = ssnFailureData
    BY <2>1 DEF Remembers
  <2>. QED BY <1>2, <2>2
<1>. QED BY <1>1, <1>2, SessionsPolled

\* and tells one that is new.
LEMMA NewSessionsTold ==
    ASSUME FilesInv, PolledInv, SessionsInv, tab = SsnFailure, agent = "up", PollLoad(TRUE),
           NEW k \in DOMAIN news, news[k] = "new", news'[k] = "seen"
    PROVE  LET r == file[CHOOSE i \in DOMAIN file : KeyOf(tab, file[i]) = k]
           IN  \E t \in sent' : /\ t.failures = r.words[7] /\ t.type = r.words[8]
                                /\ t.name = r.words[9]
<1> DEFINE r == file[1]
           n == Count(tab, r)
           i == CHOOSE j \in DOMAIN file : KeyOf(tab, file[j]) = k
<1>1. /\ file # None /\ Records = {r} /\ n \in 0 .. MaxFails
      /\ \A j \in DOMAIN file : KeyOf(tab, file[j]) = KeyOf(tab, r) => j = 1
      /\ 1 \in DOMAIN file
      /\ news' = [j \in DOMAIN news |-> IF j \in {KeyOf(tab, r)} THEN "seen" ELSE news[j]]
      /\ n # ssnFailureData /\ n # 0 =>
           \E t : /\ sent' = {t} /\ t.failures = r.words[7]
                  /\ t.type = r.words[8] /\ t.name = r.words[9]
  BY SessionsPolled
<1>2. k = KeyOf(tab, r)
  BY <1>1
<1>3. i = 1
  BY <1>1, <1>2
<1>4. n # ssnFailureData /\ n # 0
  <2>1. Remembers(ssnFailureData, r)
    BY <1>1 DEF SessionsInv
  <2>2. ssnFailureData < n /\ ssnFailureData \in 0 .. MaxFails
    BY <1>2, <2>1 DEF Remembers, SessionsInv
  <2>. HIDE DEF n
  <2>. QED BY <1>1, <2>2, AgentAssumption
<1>. HIDE DEF i, r, n
<1>5. \E t \in sent' : t.failures = r.words[7] /\ t.type = r.words[8] /\ t.name = r.words[9]
  BY <1>1, <1>4
<1>. QED BY <1>3, <1>5 DEF i, r

-----------------------------------------------------------------------------
(* Changes of status *)

\* The old table has the status of a device that a poll has seen since something happened.
DevicesInv ==
    tab = TgtDev /\ agent = "up" =>
      \A r \in Records, o \in list :
        Index(TgtDev, o) = KeyOf(TgtDev, r) /\ news[KeyOf(TgtDev, r)] = "seen" =>
          o.scsiTgtDeviceStatus = DevStatusOf(r.words[4])

\* As long as there is memory, the manager knows of the devices in the table, and their status.
ManagerInv ==
    tab = TgtDev /\ failures = 0 =>
      /\ \A k \in DOMAIN known : \E o \in list : Index(TgtDev, o) = k
      /\ \A o \in list : /\ Index(TgtDev, o) \in DOMAIN known
                         /\ known[Index(TgtDev, o)] = o.scsiTgtDeviceStatus

\* The records that there are to be read.
InFile == IF file = None THEN <<>> ELSE file

\* What a poll of the devices does with the records that it reads.
LEMMA DevicesPolled ==
    ASSUME FilesInv, PolledInv, tab = TgtDev, NEW c, PollLoad(c)
    PROVE  LET recs == InFile IN
           /\ UNCHANGED <<tab, file, clock>>
           /\ Len(recs) \in Nat /\ DOMAIN recs = 1 .. Len(recs)
           /\ \A i \in DOMAIN recs : RecordOK(TgtDev, recs[i]) /\ recs[i] \in Records
           /\ \A i, j \in DOMAIN recs : KeyOf(TgtDev, recs[i]) = KeyOf(TgtDev, recs[j]) => i = j
           /\ Records = {recs[i] : i \in DOMAIN recs}
           /\ \E full \in 0 .. Len(recs), n \in 0 .. Len(recs) :
                /\ full <= n
                /\ list' = {Load(TgtDev, recs[j].words) : j \in 1 .. full}
                /\ failures' = failures + IF full < Len(recs) THEN 1 ELSE 0
                /\ sent' = {[key |-> KeyOf(TgtDev, recs[j]), status |-> DevStatusOf(recs[j].words[4])] :
                              j \in {j \in 1 .. n : ChangedStatus(list, recs[j])}}
                /\ known' = [k \in {KeyOf(TgtDev, recs[j]) : j \in DOMAIN recs} |->
                     LET r == recs[CHOOSE j \in DOMAIN recs : KeyOf(TgtDev, recs[j]) = k]
                     IN  IF k \in DOMAIN known /\ \A t \in sent' : t.key # k THEN known[k]
                         ELSE DevStatusOf(r.words[4])]
<1> DEFINE recs == InFile
<1>0. recs = IF file = None THEN <<>> ELSE file
  BY DEF InFile
<1>. HIDE DEF recs
<1>1. UNCHANGED <<tab, file, clock>>
  BY DEF PollLoad, kernel
<1>2. RecordsOK(TgtDev, recs) /\ PolledFile(TgtDev, recs)
  <2>1. PolledFile(TgtDev, <<>>)
    BY DEF PolledFile
  <2>. QED BY <1>0, <2>1, EmptyFileOK DEF FilesInv, FileOK, PolledInv, Polled
<1>3. PICK S : recs \in Seq(S)
  BY <1>2, FileHas
<1>4. Len(recs) \in Nat /\ DOMAIN recs = 1 .. Len(recs) /\ \A i \in DOMAIN recs : RecordOK(TgtDev, recs[i])
  BY <1>2, FileHas
<1>5. Records = {recs[i] : i \in DOMAIN recs}
  BY <1>0 DEF Records
<1>6. \A i, j \in DOMAIN recs : KeyOf(TgtDev, recs[i]) = KeyOf(TgtDev, recs[j]) => i = j
  BY <1>2 DEF PolledFile
<1>7. PICK full \in 0 .. Len(recs) :
        /\ PollTgtDev(full)
        /\ failures' = failures + IF full < Len(recs) THEN 1 ELSE 0
  <2>1. PICK full : /\ full \in IF file = None THEN {0}
                               ELSE IF failures < MaxFailures /\ tab # SsnFailure THEN 0 .. Len(file)
                               ELSE {Len(file)}
                    /\ PollTgtDev(full)
                    /\ failures' = failures + IF file # None /\ full < Len(file) THEN 1 ELSE 0
    BY PolledDiffer DEF PollLoad
  <2>2. CASE file = None
    <3>1. recs = <<>> /\ full = 0 /\ failures' = failures + 0
      BY <1>0, <2>1, <2>2
    <3>2. full \in 0 .. Len(recs) /\ ~(full < Len(recs))
      BY <3>1
    <3>3. failures' = failures + IF full < Len(recs) THEN 1 ELSE 0
      BY <3>1, <3>2
    <3>. QED BY <2>1, <3>2, <3>3
  <2>3. CASE file # None
    <3>1. recs = file
      BY <1>0, <2>3
    <3>2. full \in 0 .. Len(file) \/ full = Len(file)
      BY <2>1, <2>3
    <3>3. full \in 0 .. Len(recs)
      BY <1>4, <3>1, <3>2
    <3>. QED BY <2>1, <2>3, <3>1, <3>3
  <2>. QED BY <2>2, <2>3
<1>8. list' = {Load(TgtDev, recs[j].words) : j \in 1 .. full}
  <2>1. list' = RowsOf(TgtDev, recs, full)
    BY <1>0, <1>7 DEF PollTgtDev
  <2>. QED BY <1>2, <2>1, DeviceRows
<1> DEFINE read == ReadBy(recs, full)
           n == Len(read)
<1>9. /\ n \in 0 .. Len(recs) /\ DOMAIN read = 1 .. n /\ full <= n
      /\ \A i \in 1 .. n : i \in DOMAIN recs /\ read[i] = recs[i]
  <2>1. /\ DOMAIN read = 1 .. n /\ n \in Nat /\ full <= n /\ n <= Len(recs)
        /\ \A i \in 1 .. n : i \in DOMAIN recs /\ read[i] = recs[i]
    BY <1>3, <1>7, ReadByIs
  <2>. HIDE DEF read, n
  <2>. QED BY <1>4, <2>1
<1>10. /\ sent' = {[key |-> KeyOf(TgtDev, read[j]), status |-> DevStatusOf(read[j].words[4])] :
                     j \in {j \in DOMAIN read : ChangedStatus(list, read[j])}}
       /\ known' = [k \in {KeyOf(TgtDev, recs[j]) : j \in DOMAIN recs} |->
             LET r == recs[CHOOSE j \in DOMAIN recs : KeyOf(TgtDev, recs[j]) = k]
             IN  IF k \in DOMAIN known /\ \A t \in sent' : t.key # k THEN known[k]
                 ELSE DevStatusOf(r.words[4])]
  BY <1>0, <1>7 DEF PollTgtDev, ReadBy
<1>. HIDE DEF read, n
<1>11. sent' = {[key |-> KeyOf(TgtDev, recs[j]), status |-> DevStatusOf(recs[j].words[4])] :
                  j \in {j \in 1 .. n : ChangedStatus(list, recs[j])}}
  BY <1>9, <1>10
<1>. QED BY <1>1, <1>4, <1>5, <1>6, <1>7, <1>8, <1>9, <1>10, <1>11 DEF recs

\* A device has the status that its row in the old table says, unless that has changed.
LEMMA StatusKept ==
    ASSUME NEW r, RecordOK(TgtDev, r), NEW o \in list, RowOK(TgtDev, o)
    PROVE  /\ Index(TgtDev, o) = KeyOf(TgtDev, r) /\ ~ChangedStatus(list, r) =>
                o.scsiTgtDeviceStatus = DevStatusOf(r.words[4])
           /\ Id(o) = Id(Load(TgtDev, r.words)) => Index(TgtDev, o) = KeyOf(TgtDev, r)
<1> DEFINE row == Load(TgtDev, r.words)
<1>1. /\ row.scsiTgtDeviceStatus = DevStatusOf(r.words[4])
      /\ Index(TgtDev, row) = KeyOf(TgtDev, r)
      /\ RowOK(TgtDev, row)
  BY DeviceIs
<1>. HIDE DEF row
<1>2. /\ Index(TgtDev, o) = Index(TgtDev, row) => Id(o) = Id(row)
      /\ Index(TgtDev, Id(o)) = Index(TgtDev, o) /\ Index(TgtDev, Id(row)) = Index(TgtDev, row)
  <2>1. DOMAIN Table(TgtDev).index = 1 .. 2
    BY DeviceTable DEF scsiTgtDevTable_table
  <2>. QED BY <1>1, <2>1, IndexTells
<1>3. ~ChangedStatus(list, r) /\ Id(o) = Id(row) => o.scsiTgtDeviceStatus = row.scsiTgtDeviceStatus
  BY DEF ChangedStatus, row
<1>. QED BY <1>1, <1>2, <1>3 DEF row

\* A poll, and the load at the start, leave the table as the file,
LEMMA DevicesNoted ==
    ASSUME FilesInv, PolledInv, tab = TgtDev, NEW c, PollLoad(c)
    PROVE  DevicesInv'
<1> DEFINE recs == InFile
<1>1. /\ UNCHANGED <<tab, file, clock>>
      /\ Len(recs) \in Nat /\ DOMAIN recs = 1 .. Len(recs)
      /\ \A i \in DOMAIN recs : RecordOK(TgtDev, recs[i])
      /\ \A i, j \in DOMAIN recs : KeyOf(TgtDev, recs[i]) = KeyOf(TgtDev, recs[j]) => i = j
      /\ Records = {recs[i] : i \in DOMAIN recs}
      /\ \E full \in 0 .. Len(recs) : list' = {Load(TgtDev, recs[j].words) : j \in 1 .. full}
  BY DevicesPolled
<1>. HIDE DEF recs
<1>2. Records' = Records
  BY <1>1 DEF Records
<1>3. ASSUME NEW r \in Records, NEW o \in list', Index(TgtDev, o) = KeyOf(TgtDev, r)
      PROVE  o.scsiTgtDeviceStatus = DevStatusOf(r.words[4])
  <2>1. PICK i \in DOMAIN recs : r = recs[i]
    BY <1>1
  <2>2. PICK j \in DOMAIN recs : o = Load(TgtDev, recs[j].words)
    BY <1>1
  <2>3. /\ o.scsiTgtDeviceStatus = DevStatusOf(recs[j].words[4])
        /\ Index(TgtDev, o) = KeyOf(TgtDev, recs[j])
    BY <1>1, <2>2, DeviceIs
  <2>4. i = j
    BY <1>1, <1>3, <2>1, <2>3
  <2>. QED BY <2>1, <2>3, <2>4
<1>. QED BY <1>2, <1>3 DEF DevicesInv

\* tell no change that a poll has seen,
LEMMA ChangesAreNews ==
    ASSUME FilesInv, PolledInv, DevicesInv, tab = TgtDev, agent = "up", PollLoad(TRUE),
           \A o \in list : RowOK(TgtDev, o)
    PROVE  \A t \in sent' : news[t.key] # "seen"
<1> DEFINE recs == InFile
<1>1. /\ Len(recs) \in Nat /\ DOMAIN recs = 1 .. Len(recs)
      /\ \A i \in DOMAIN recs : RecordOK(TgtDev, recs[i]) /\ recs[i] \in Records
      /\ \E n \in 0 .. Len(recs) :
           sent' = {[key |-> KeyOf(TgtDev, recs[j]), status |-> DevStatusOf(recs[j].words[4])] :
                      j \in {j \in 1 .. n : ChangedStatus(list, recs[j])}}
  BY DevicesPolled
<1>. HIDE DEF recs
<1>. SUFFICES ASSUME NEW t \in sent' PROVE news[t.key] # "seen"
  OBVIOUS
<1>2. PICK j \in DOMAIN recs : ChangedStatus(list, recs[j]) /\ t.key = KeyOf(TgtDev, recs[j])
  BY <1>1
<1> DEFINE r == recs[j]
           row == Load(TgtDev, r.words)
<1>3. RecordOK(TgtDev, r) /\ r \in Records
  BY <1>1
<1>4. PICK o \in list : Id(o) = Id(row) /\ o.scsiTgtDeviceStatus # row.scsiTgtDeviceStatus
  BY <1>2 DEF ChangedStatus
<1>5. Index(TgtDev, o) = KeyOf(TgtDev, r)
  BY <1>3, <1>4, StatusKept
<1>6. row.scsiTgtDeviceStatus = DevStatusOf(r.words[4])
  BY <1>3, DeviceIs
<1>. QED BY <1>2, <1>3, <1>4, <1>5, <1>6 DEF DevicesInv

\* and the manager with what the table says.
LEMMA ManagerTold ==
    ASSUME FilesInv, PolledInv, ManagerInv, tab = TgtDev, NEW c, PollLoad(c), failures \in Nat,
           \A o \in list : RowOK(TgtDev, o)
    PROVE  ManagerInv'
<1> DEFINE recs == InFile
<1>0. /\ UNCHANGED <<tab, file, clock>>
      /\ Len(recs) \in Nat /\ DOMAIN recs = 1 .. Len(recs)
      /\ \A i \in DOMAIN recs : RecordOK(TgtDev, recs[i])
      /\ \A i, j \in DOMAIN recs : KeyOf(TgtDev, recs[i]) = KeyOf(TgtDev, recs[j]) => i = j
  BY DevicesPolled
<1>1. PICK full \in 0 .. Len(recs), n \in 0 .. Len(recs) :
        /\ full <= n
        /\ list' = {Load(TgtDev, recs[j].words) : j \in 1 .. full}
        /\ failures' = failures + IF full < Len(recs) THEN 1 ELSE 0
        /\ sent' = {[key |-> KeyOf(TgtDev, recs[j]), status |-> DevStatusOf(recs[j].words[4])] :
                      j \in {j \in 1 .. n : ChangedStatus(list, recs[j])}}
        /\ known' = [k \in {KeyOf(TgtDev, recs[j]) : j \in DOMAIN recs} |->
             LET r == recs[CHOOSE j \in DOMAIN recs : KeyOf(TgtDev, recs[j]) = k]
             IN  IF k \in DOMAIN known /\ \A t \in sent' : t.key # k THEN known[k]
                 ELSE DevStatusOf(r.words[4])]
  BY DevicesPolled
<1>. HIDE DEF recs
<1>. SUFFICES ASSUME failures' = 0 PROVE ManagerInv'
  BY DEF ManagerInv
<1>2. full = Len(recs) /\ n = Len(recs) /\ failures = 0
  <2>0. failures' = failures + IF full < Len(recs) THEN 1 ELSE 0
    BY <1>1
  <2>1. ~(full < Len(recs))
    BY <2>0
  <2>2. failures = 0
    BY <2>0, <2>1
  <2>3. full \in 0 .. Len(recs) /\ n \in 0 .. Len(recs) /\ full <= n /\ Len(recs) \in Nat
    BY <1>0, <1>1
  <2>. QED BY <2>1, <2>2, <2>3
<1>3. DOMAIN known' = {KeyOf(TgtDev, recs[j]) : j \in DOMAIN recs}
      /\ list' = {Load(TgtDev, recs[j].words) : j \in DOMAIN recs}
  BY <1>0, <1>1, <1>2
<1>4. ASSUME NEW j \in DOMAIN recs
      PROVE  LET o == Load(TgtDev, recs[j].words)
                 k == KeyOf(TgtDev, recs[j])
             IN  Index(TgtDev, o) = k /\ known'[k] = o.scsiTgtDeviceStatus
  <2> DEFINE r == recs[j]
             o == Load(TgtDev, r.words)
             k == KeyOf(TgtDev, r)
             told1 == k \in DOMAIN known /\ \A t \in sent' : t.key # k
             i == CHOOSE i \in DOMAIN recs : KeyOf(TgtDev, recs[i]) = k
  <2>1. o.scsiTgtDeviceStatus = DevStatusOf(r.words[4]) /\ Index(TgtDev, o) = k
    BY <1>0, DeviceIs
  <2>2. i = j
    BY <1>0
  <2>3. known'[k] = IF told1 THEN known[k] ELSE DevStatusOf(r.words[4])
    <3>1. known'[k] = IF told1 THEN known[k] ELSE DevStatusOf(recs[i].words[4])
      BY <1>1
    <3>. QED BY <2>2, <3>1
  <2>4. ASSUME told1 PROVE known[k] = DevStatusOf(r.words[4])
    <3>1. PICK p \in list : Index(TgtDev, p) = k
      BY <1>2, <2>4 DEF ManagerInv
    <3>2. known[k] = p.scsiTgtDeviceStatus
      BY <1>2, <3>1 DEF ManagerInv
    <3>3. ~ChangedStatus(list, r)
      <4>. SUFFICES ASSUME ChangedStatus(list, r) PROVE FALSE
        OBVIOUS
      <4> DEFINE t == [key |-> k, status |-> DevStatusOf(r.words[4])]
      <4>1. t \in sent'
        BY <1>0, <1>1, <1>2
      <4>2. t.key = k
        OBVIOUS
      <4>. QED BY <2>4, <4>1, <4>2
    <3>. QED BY <1>0, <3>1, <3>2, <3>3, StatusKept
  <2>. QED BY <2>1, <2>3, <2>4
<1>5. \A k \in DOMAIN known' : \E o \in list' : Index(TgtDev, o) = k
  BY <1>3, <1>4
<1>6. \A o \in list' : /\ Index(TgtDev, o) \in DOMAIN known'
                       /\ known'[Index(TgtDev, o)] = o.scsiTgtDeviceStatus
  BY <1>3, <1>4
<1>. QED BY <1>5, <1>6 DEF ManagerInv

-----------------------------------------------------------------------------
(* The invariant of the polls *)

PollsInv == PolledInv /\ LoginsInv /\ SessionsInv /\ DevicesInv /\ ManagerInv

\* No poll has seen anything, and there is nothing to remember.
LEMMA InitPolls == Init => PollsInv
<1>. SUFFICES ASSUME Init PROVE PollsInv
  OBVIOUS
<1>1. tab \in Polled => DOMAIN news = PolledKeys(tab) /\ (file = None \/ file = <<>>)
  BY DEF Init
<1>2. PolledInv
  BY <1>1 DEF Init, PolledInv, PolledFile
<1>3. 0 \in 0 .. MaxFails
  BY AgentAssumption
<1>4. LoginsInv /\ SessionsInv /\ DevicesInv
  BY <1>3 DEF Init, LoginsInv, SessionsInv, DevicesInv
<1>5. ManagerInv
  BY DEF Init, ManagerInv, NoStatus
<1>. QED BY <1>2, <1>4, <1>5 DEF PollsInv

\* What is remembered of the records is still so of those that the kernel leaves.
LEMMA RemembersFollows ==
    ASSUME PolledInv, PolledInv', Follows, tab' = tab, tab \in Polled, tab # TgtDev,
           NEW count \in Nat, NEW s \in Records',
           \A r \in Records : KeyOf(tab, r) = KeyOf(tab, s) => Remembers(count, r)
    PROVE  /\ news'[KeyOf(tab, s)] = "seen" => count = Count(tab, s)
           /\ news'[KeyOf(tab, s)] = "new" => count < Count(tab, s)
<1> DEFINE k == KeyOf(tab, s)
<1>1. \A r \in Records : Count(tab, r) \in Nat
  BY AgentAssumption DEF Records, PolledInv, PolledFile, CountsOK, Polled
<1>2. Count(tab, s) \in Nat
  BY AgentAssumption DEF Records, PolledInv, PolledFile, CountsOK, Polled
<1>3. CASE news'[k] = "seen"
  <2>1. s \in Records /\ news[k] = "seen"
    BY <1>3 DEF Follows
  <2>. QED BY <1>3, <2>1 DEF Remembers
<1>4. CASE news'[k] = "new"
  <2>1. PICK r \in Records :
          /\ KeyOf(tab, r) = k
          /\ \/ news[k] = "seen" /\ Count(tab, r) < Count(tab, s)
             \/ news[k] = "new" /\ Count(tab, r) <= Count(tab, s)
    BY <1>4 DEF Follows
  <2>2. /\ news[k] = "seen" => count = Count(tab, r)
        /\ news[k] = "new" => count < Count(tab, r)
    BY <2>1 DEF Remembers
  <2>. HIDE DEF k
  <2>. QED BY <1>1, <1>2, <1>4, <2>1, <2>2 DEF k
<1>. QED BY <1>3, <1>4

\* Whatever the kernel does.
LEMMA KernelKeepsPolls ==
    ASSUME FilesInv, PollsInv, KernelActs
    PROVE  PollsInv'
<1>1. /\ PolledInv' /\ Follows /\ tab \in Polled /\ PolledInv
      /\ UNCHANGED <<tab, failures, agent, statics, walk, notified, loaded, clock>>
  BY KernelFollows DEF PollsInv
<1>2. /\ UNCHANGED <<tab, failures, agent, list, numFailures, lastTrap, ssnFailureData, told, known>>
  BY <1>1 DEF statics, notified
<1>3. LoginsInv'
  <2>1. CASE tab = TgtAttr
    <3>1. ASSUME agent = "up", NEW s \in Records', KeyOf(tab, s) \in numFailures_indices
          PROVE  /\ news'[KeyOf(tab, s)] = "seen" => numFailures[KeyOf(tab, s)] = Count(tab, s)
                 /\ news'[KeyOf(tab, s)] = "new" => numFailures[KeyOf(tab, s)] < Count(tab, s)
      <4> DEFINE count == numFailures[KeyOf(tab, s)]
      <4>1. count \in Nat
        BY <3>1, AgentAssumption DEF PollsInv, LoginsInv
      <4>2. \A r \in Records : KeyOf(tab, r) = KeyOf(tab, s) => Remembers(count, r)
        BY <2>1, <3>1 DEF PollsInv, LoginsInv
      <4>. HIDE DEF count
      <4>3. /\ news'[KeyOf(tab, s)] = "seen" => count = Count(tab, s)
            /\ news'[KeyOf(tab, s)] = "new" => count < Count(tab, s)
        BY <1>1, <1>2, <2>1, <4>1, <4>2, PolledDiffer, RemembersFollows
      <4>. QED BY <4>3 DEF count
    <3>2. agent' = "up" => \A s \in Records' : KeyOf(tab', s) \in numFailures_indices =>
             Remembers(numFailures[KeyOf(tab, s)], s)'
      BY <1>2, <3>1 DEF Remembers, Count
    <3>. QED BY <1>2, <3>2 DEF PollsInv, LoginsInv
  <2>2. CASE tab # TgtAttr
    BY <1>2, <2>2 DEF PollsInv, LoginsInv
  <2>. QED BY <2>1, <2>2
<1>4. SessionsInv'
  <2>1. CASE tab = SsnFailure
    <3>1. ASSUME agent = "up", NEW s \in Records'
          PROVE  /\ news'[KeyOf(tab, s)] = "seen" => ssnFailureData = Count(tab, s)
                 /\ news'[KeyOf(tab, s)] = "new" => ssnFailureData < Count(tab, s)
      <4> DEFINE count == ssnFailureData
      <4>1. count \in Nat
        BY <2>1, <3>1, AgentAssumption DEF PollsInv, SessionsInv
      <4>2. \A r \in Records : Remembers(count, r)
        BY <2>1, <3>1 DEF PollsInv, SessionsInv
      <4>. HIDE DEF count
      <4>3. /\ news'[KeyOf(tab, s)] = "seen" => count = Count(tab, s)
            /\ news'[KeyOf(tab, s)] = "new" => count < Count(tab, s)
        BY <1>1, <1>2, <2>1, <4>1, <4>2, PolledDiffer, RemembersFollows
      <4>. QED BY <4>3 DEF count
    <3>2. agent' = "up" => \A s \in Records' : Remembers(ssnFailureData, s)'
      BY <1>2, <3>1 DEF Remembers, Count
    <3>. QED BY <1>2, <2>1, <3>2 DEF PollsInv, SessionsInv
  <2>2. CASE tab # SsnFailure
    BY <1>2, <2>2 DEF SessionsInv
  <2>. QED BY <2>1, <2>2
<1>5. DevicesInv'
  <2>1. \A s \in Records' : news'[KeyOf(tab, s)] = "seen" => s \in Records /\ news[KeyOf(tab, s)] = "seen"
    BY <1>1 DEF Follows
  <2>. QED BY <1>2, <2>1 DEF PollsInv, DevicesInv
<1>6. ManagerInv'
  BY <1>2 DEF PollsInv, ManagerInv
<1>. QED BY <1>1, <1>3, <1>4, <1>5, <1>6 DEF PollsInv

\* Polls, and the loads at the start.
LEMMA PollKeepsPolls ==
    ASSUME LoadInv, WalkInv, PollsInv, tab \in Polled, NEW c \in BOOLEAN, PollLoad(c)
    PROVE  PollsInv'
<1>1. /\ FilesInv /\ PolledInv /\ LoginsInv /\ SessionsInv /\ DevicesInv /\ ManagerInv
      /\ \A o \in list : RowOK(tab, o)
      /\ failures \in Nat
  BY DEF PollsInv, WalkInv, LoadInv
<1>2. UNCHANGED <<tab, file, clock>>
  BY DEF PollLoad, kernel
<1>3. DOMAIN news' = DOMAIN news
  BY DEF PollLoad, PollTargetAttributes, PollSessionFailure, PollTgtDev, SeesThose
<1>4. PolledInv'
  BY <1>1, <1>2, <1>3 DEF PolledInv
<1>5. tab \in {TgtAttr, SsnFailure, TgtDev}
  BY DEF PollLoad
<1>6. LoginsInv'
  <2>1. CASE tab = TgtAttr
    BY <1>1, <2>1, LoginsNoted
  <2>2. CASE tab # TgtAttr
    <3>1. numFailures' = numFailures
      BY <2>2 DEF PollLoad, PollSessionFailure, PollTgtDev
    <3>. QED BY <1>1, <1>2, <2>2, <3>1 DEF LoginsInv
  <2>. QED BY <2>1, <2>2
<1>7. SessionsInv'
  <2>1. CASE tab = SsnFailure
    BY <1>1, <2>1, SessionsNoted
  <2>2. CASE tab # SsnFailure
    BY <1>2, <2>2 DEF SessionsInv
  <2>. QED BY <2>1, <2>2
<1>8. DevicesInv' /\ ManagerInv'
  <2>1. CASE tab = TgtDev
    BY <1>1, <2>1, DevicesNoted, ManagerTold
  <2>2. CASE tab # TgtDev
    BY <1>2, <2>2 DEF DevicesInv, ManagerInv
  <2>. QED BY <2>1, <2>2
<1>. QED BY <1>4, <1>6, <1>7, <1>8 DEF PollsInv

\* All that happens keeps what the agent remembers true of the files.
LEMMA StepPolls == LoadInv /\ WalkInv /\ PollsInv /\ [Next]_vars => PollsInv'
<1>. SUFFICES ASSUME LoadInv, WalkInv, PollsInv, [Next]_vars PROVE PollsInv'
  OBVIOUS
<1>. USE DEF PollsInv
<1>1. ASSUME KernelActs PROVE PollsInv'
  BY <1>1, KernelKeepsPolls DEF WalkInv
<1>2. ASSUME tab \notin Polled, UNCHANGED <<tab, clock, numFailures>> PROVE PollsInv'
  BY <1>2 DEF PolledInv, LoginsInv, SessionsInv, DevicesInv, ManagerInv, Polled
<1>3. ASSUME Change PROVE PollsInv'
  BY <1>2, <1>3 DEF Change, Writes, statics
<1>4. ASSUME UNCHANGED <<tab, file, failures, agent, list, numFailures, lastTrap, ssnFailureData,
                         told, known, news>>,
             clock' \in Nat
      PROVE  PollsInv'
  BY <1>4 DEF PolledInv, LoginsInv, SessionsInv, DevicesInv, ManagerInv, Records, Remembers, Count
<1>5. clock \in Nat
  BY DEF PolledInv
<1>6. ASSUME Tick PROVE PollsInv'
  <2>1. clock' \in Nat
    BY <1>5, <1>6 DEF Tick
  <2>. QED BY <1>4, <1>6, <2>1 DEF Tick
<1>7. ASSUME Start \/ Poll PROVE PollsInv'
  <2>1. CASE tab \in Polled
    <3>1. PICK c \in BOOLEAN : PollLoad(c)
      BY <1>7, <2>1 DEF Start, Poll
    <3>. QED BY <2>1, <3>1, PollKeepsPolls
  <2>2. CASE tab \notin Polled
    BY <1>2, <1>7, <2>2 DEF Start, Poll, kernel, statics
  <2>. QED BY <2>1, <2>2
<1>8. ASSUME Stop PROVE PollsInv'
  <2>1. /\ UNCHANGED <<tab, file, clock, news, failures>>
        /\ agent' = "down" /\ list' = {} /\ lastTrap' = NoTrap /\ ssnFailureData' = 0
        /\ numFailures' = [k \in numFailures_indices |-> 0] /\ known' = NoStatus
    BY <1>8 DEF Stop, Statics, kernel
  <2>2. 0 \in 0 .. MaxFails
    BY AgentAssumption
  <2>. QED BY <2>1, <2>2 DEF PolledInv, LoginsInv, SessionsInv, DevicesInv, ManagerInv, NoStatus
<1>9. ASSUME Release PROVE PollsInv'
  BY <1>2, <1>9 DEF Release, kernel
<1>10. ASSUME GetNext PROVE PollsInv'
  <2>1. CASE tab \in Polled
    BY <1>4, <1>5, <1>10, <2>1 DEF GetNext, kernel, notified
  <2>2. CASE tab \notin Polled
    BY <1>2, <1>10, <2>2 DEF GetNext, kernel
  <2>. QED BY <2>1, <2>2
<1>11. ASSUME UNCHANGED vars PROVE PollsInv'
  BY <1>4, <1>5, <1>11 DEF vars, kernel, statics, notified
<1>12. Next => KernelActs \/ Change \/ Tick \/ Start \/ Poll \/ Stop \/ Release \/ GetNext
  BY DEF Next, KernelActs
<1>. QED BY <1>1, <1>3, <1>6, <1>7, <1>8, <1>9, <1>10, <1>11, <1>12

\* The manager has the status of every device of the table, as long as there is memory.
THEOREM ManagerIsToldStatus == Spec => []ManagerKnowsStatus
<1>1. PollsInv => ManagerKnowsStatus
  BY DEF PollsInv, ManagerInv, ManagerKnowsStatus
<1>. QED BY <1>1, InitLoad, InitWalk, InitPolls, StepLoad, StepWalk, StepPolls, PTL DEF Spec

\* A notification is never about something that a poll has already seen as it is.
THEOREM TrapsTellNews == Spec => TrapsAreNews
<1>1. LoadInv /\ WalkInv /\ PollsInv /\ [Next]_vars =>
        [Poll => \A t \in sent' : news[t.key] # "seen"]_vars
  <2>. SUFFICES ASSUME WalkInv, PollsInv, Poll PROVE \A t \in sent' : news[t.key] # "seen"
    OBVIOUS
  <2>1. /\ FilesInv /\ PolledInv /\ LoginsInv /\ SessionsInv /\ DevicesInv
        /\ \A o \in list : RowOK(tab, o)
    BY DEF PollsInv, WalkInv
  <2>2. agent = "up" /\ tab \in Polled /\ PollLoad(TRUE)
    BY DEF Poll
  <2>. QED BY <2>1, <2>2, LoginsAreNews, SessionsAreNews, ChangesAreNews DEF Polled
<1>. QED BY <1>1, InitLoad, InitWalk, InitPolls, StepLoad, StepWalk, StepPolls, PTL
     DEF Spec, TrapsAreNews

\* A failure of a session, or of a login of a kind that is told, is told by the next poll, unless
\* one like it was told not long ago.
THEOREM FailuresReachManager == Spec => FailuresAreTold
<1>1. LoadInv /\ WalkInv /\ PollsInv /\ [Next]_vars =>
        [\A j \in DOMAIN news :
           /\ Poll /\ agent' = "up" /\ news[j] = "new" /\ news'[j] = "seen"
           => LET r == file[CHOOSE i \in DOMAIN file : KeyOf(tab, file[i]) = j]
              IN  /\ tab = SsnFailure =>
                       \E t \in sent' : /\ t.failures = r.words[7] /\ t.type = r.words[8]
                                       /\ t.name = r.words[9]
                  /\ tab = TgtAttr /\ r.words[5] \in Notifiable =>
                       \E t \in told' : SameTrap(LoginTrap(r), t)]_vars
  <2> DEFINE R(j) == file[CHOOSE i \in DOMAIN file : KeyOf(tab, file[i]) = j]
  <2>. SUFFICES ASSUME WalkInv, PollsInv, NEW j \in DOMAIN news, Poll, agent' = "up",
                       news[j] = "new", news'[j] = "seen"
                PROVE  /\ tab = SsnFailure =>
                            \E t \in sent' : /\ t.failures = R(j).words[7]
                                             /\ t.type = R(j).words[8] /\ t.name = R(j).words[9]
                       /\ tab = TgtAttr /\ R(j).words[5] \in Notifiable =>
                            \E t \in told' : SameTrap(LoginTrap(R(j)), t)
    OBVIOUS
  <2>1. FilesInv /\ PolledInv /\ LoginsInv /\ SessionsInv
    BY DEF PollsInv, WalkInv
  <2>2. agent = "up" /\ PollLoad(TRUE)
    BY DEF Poll
  <2>. QED BY <2>1, <2>2, NewLoginsTold, NewSessionsTold
<1>. QED BY <1>1, InitLoad, InitWalk, InitPolls, StepLoad, StepWalk, StepPolls, PTL
     DEF Spec, FailuresAreTold

-----------------------------------------------------------------------------
(* Types *)

\* A list has no more rows than its file has records.
LEMMA FewRows ==
    ASSUME NEW t \in Tables \ Polled, NEW f \in Contents(t), f # None, NEW full \in Nat
    PROVE  Cardinality(RowsOf(t, f, full)) <= Len(f)
<1> DEFINE n == Len(f)
           X == {j \in ReadOf(f) : MetBefore(f, j) < full}
           T == {RowAt(t, f, j) : j \in X}
           g == [j \in X |-> RowAt(t, f, j)]
<1>1. IsFile(t, f) /\ n \in Nat /\ DOMAIN f = 1 .. n
  BY ContentsAreFiles
<1>2. RowsOf(t, f, full) = T
  BY <1>1, RowsAre
<1>3. X \subseteq 1 .. n
  BY <1>1 DEF ReadOf
<1>4. g \in Surjection(X, T)
  BY DEF Surjection
<1>. HIDE DEF n, X, T, g
<1>5. IsFiniteSet(1 .. n) /\ Cardinality(1 .. n) = IF 1 > n THEN 0 ELSE n - 1 + 1
  BY <1>1, FS_Interval
<1>6. IsFiniteSet(X) /\ Cardinality(X) <= Cardinality(1 .. n)
  BY <1>3, <1>5, FS_Subset
<1>7. IsFiniteSet(T) /\ Cardinality(T) <= Cardinality(X)
  BY <1>4, <1>6, FS_Surjection
<1>8. Cardinality(T) \in Nat /\ Cardinality(X) \in Nat
  BY <1>6, <1>7, FS_CardinalityType
<1>9. Cardinality(T) <= n
  BY <1>1, <1>5, <1>6, <1>7, <1>8
<1>. QED BY <1>2, <1>9 DEF n

\* The times, the bounds, and what a list was made of.
TypesInv ==
    /\ agent \in {"down", "up", "undefined"}
    /\ clock \in 0 .. MaxTime /\ failures \in 0 .. MaxFailures
    /\ age \in 0 .. 10 /\ lag \in 0 .. 10 /\ valid \in BOOLEAN
    /\ tab \notin Polled /\ list # {} =>
         loaded # None /\ \E full \in Nat : list = RowsOf(tab, loaded, full)
    /\ \A k \in DOMAIN known : known[k] \in 1 .. 8
    /\ \A k \in DOMAIN news : news[k] \in {"reset", "new", "newAfterReset", "seen"}

\* An agent that is not running has nothing.
LEMMA InitTypes == Init => TypesInv
<1>. SUFFICES ASSUME Init PROVE TypesInv
  OBVIOUS
<1>1. DOMAIN known = {} /\ \A k \in DOMAIN news : news[k] = "reset"
  BY DEF Init, NoStatus
<1>2. 0 \in 0 .. MaxTime /\ 0 \in 0 .. MaxFailures
  BY AgentAssumption
<1>3. list = {} /\ agent = "down" /\ clock = 0 /\ failures = 0 /\ age = 0 /\ lag = 0 /\ valid = FALSE
  BY DEF Init
<1>4. valid \in BOOLEAN
  BY <1>3, Zenon
<1>5. \A k \in DOMAIN known : known[k] \in 1 .. 8
  BY <1>1, Zenon
<1>6. \A k \in DOMAIN news : news[k] \in {"reset", "new", "newAfterReset", "seen"}
  BY <1>1
<1>7. clock \in 0 .. MaxTime /\ failures \in 0 .. MaxFailures /\ age \in 0 .. 10 /\ lag \in 0 .. 10
  BY <1>2, <1>3
<1>8. agent \in {"down", "up", "undefined"}
  BY <1>3
<1>. QED BY <1>3, <1>4, <1>5, <1>6, <1>7, <1>8, Zenon DEF TypesInv

\* A request loads no more than there is, and no malloc fails beyond the bound.
LEMMA RefreshTypes ==
    ASSUME LoadInv, TypesInv, tab \notin Polled, Refresh
    PROVE  /\ failures' \in 0 .. MaxFailures /\ age' \in 0 .. 10 /\ lag' \in 0 .. 10
           /\ valid' \in BOOLEAN
           /\ list' # {} => loaded' # None /\ \E full \in Nat : list' = RowsOf(tab, loaded', full)
<1>1. CASE UNCHANGED <<list, valid, age, failures, loaded, lag>>
  BY <1>1 DEF TypesInv
<1>2. CASE /\ age' = 0 /\ loaded' = file /\ lag' = 0
           /\ valid' = (file # None \/ ~handler)
           /\ file = None /\ list' = {} /\ UNCHANGED failures
  BY <1>2 DEF TypesInv
<1>3. CASE /\ age' = 0 /\ loaded' = file /\ lag' = 0
           /\ valid' = (file # None \/ ~handler)
           /\ file # None /\ list' \in Loads(tab, file)
           /\ failures' = failures + IF list' = RowsOf(tab, file, Len(file)) THEN 0 ELSE 1
  <2>1. Len(file) \in Nat
    BY <1>3, ContentsAreFiles DEF LoadInv
  <2>2. PICK full \in Nat : /\ list' = RowsOf(tab, file, full)
                            /\ full = Len(file) \/ failures < MaxFailures
    BY <1>3, <2>1 DEF Loads
  <2>3. failures' = failures \/ (failures' = failures + 1 /\ failures < MaxFailures)
    <3>1. CASE list' = RowsOf(tab, file, Len(file))
      BY <1>3, <3>1 DEF TypesInv
    <3>2. CASE list' # RowsOf(tab, file, Len(file))
      BY <1>3, <2>2, <3>2
    <3>. QED BY <3>1, <3>2
  <2>4. failures' \in 0 .. MaxFailures
    BY <2>3, AgentAssumption DEF TypesInv
  <2>. QED BY <1>3, <2>2, <2>4
<1>. QED BY <1>1, <1>2, <1>3 DEF Refresh

\* What the manager knows is a status.
LEMMA StatusTypes == \A w : DevStatusOf(w) \in 1 .. 8
BY DEF DevStatusOf

\* Polls, and the loads at the start.
LEMMA PollTypes ==
    ASSUME FilesInv, TypesInv, tab \in Polled, NEW c, PollLoad(c)
    PROVE  TypesInv'
<1>1. /\ tab' = tab /\ clock' = clock /\ age' = 0 /\ lag' = lag /\ valid' = valid
  BY DEF PollLoad, kernel
<1>2. failures' \in 0 .. MaxFailures
  <2>1. PICK full : /\ full \in IF file = None THEN {0}
                               ELSE IF failures < MaxFailures /\ tab # SsnFailure THEN 0 .. Len(file)
                               ELSE {Len(file)}
                    /\ failures' = failures + IF file # None /\ full < Len(file) THEN 1 ELSE 0
    BY DEF PollLoad
  <2>2. file # None => Len(file) \in Nat
    BY FileHas DEF FilesInv, FileOK
  <2>3. file # None /\ full < Len(file) => failures < MaxFailures
    BY <2>1, <2>2
  <2>4. failures' = failures + 0 \/ (failures' = failures + 1 /\ failures < MaxFailures)
    BY <2>1, <2>3
  <2>. QED BY <2>4, AgentAssumption DEF TypesInv
<1>3. agent' \in {"up", "undefined"}
  BY DEF PollLoad, PollTargetAttributes, PollSessionFailure, PollTgtDev
<1>4. \A k \in DOMAIN news' : news'[k] = "seen" \/ (k \in DOMAIN news /\ news'[k] = news[k])
  <2>1. ASSUME NEW ks, SeesThose(ks)
        PROVE  \A k \in DOMAIN news' : news'[k] = "seen" \/ (k \in DOMAIN news /\ news'[k] = news[k])
    BY <2>1 DEF SeesThose
  <2>2. news' = news \/ \E ks : SeesThose(ks)
    BY DEF PollLoad, PollTargetAttributes, PollSessionFailure, PollTgtDev
  <2>. QED BY <2>1, <2>2
<1>5. \A k \in DOMAIN known' : known'[k] \in 1 .. 8
  <2>1. CASE known' = known
    BY <2>1 DEF TypesInv
  <2>2. CASE \E full : PollTgtDev(full)
    <3> DEFINE recs == IF file = None THEN <<>> ELSE file
               S == {KeyOf(TgtDev, recs[j]) : j \in DOMAIN recs}
               word(k) == recs[CHOOSE j \in DOMAIN recs : KeyOf(TgtDev, recs[j]) = k].words[4]
    <3>1. known' = [k \in S |->
             IF k \in DOMAIN known /\ \A t \in sent' : t.key # k THEN known[k]
             ELSE DevStatusOf(word(k))]
      BY <2>2 DEF PollTgtDev
    <3>. HIDE DEF recs, S, word
    <3>. QED BY <3>1, StatusTypes DEF TypesInv
  <2>. QED BY <2>1, <2>2 DEF PollLoad, PollTargetAttributes, PollSessionFailure
<1>. QED BY <1>1, <1>2, <1>3, <1>4, <1>5 DEF TypesInv

\* What becomes of the news of a record.
LEMMA KernelTypes ==
    ASSUME KernelActs
    PROVE  \A k \in DOMAIN news' :
             \/ news'[k] \in {"reset", "new", "newAfterReset"}
             \/ k \in DOMAIN news /\ news'[k] = news[k]
<1>1. ASSUME NEW q, NEW v \in {"reset", "new", "newAfterReset"}, news' = [news EXCEPT ![q] = v]
      PROVE  \A k \in DOMAIN news' :
             \/ news'[k] \in {"reset", "new", "newAfterReset"}
             \/ k \in DOMAIN news /\ news'[k] = news[k]
  BY <1>1
<1>2. ASSUME Module
      PROVE  \A k \in DOMAIN news' :
             \/ news'[k] \in {"reset", "new", "newAfterReset"}
             \/ k \in DOMAIN news /\ news'[k] = news[k]
  BY <1>2 DEF Module
<1>3. ASSUME NEW j, NEW w, Happens(j, w)
      PROVE  \E q : \E v \in {"reset", "new", "newAfterReset"} : news' = [news EXCEPT ![q] = v]
  <2> DEFINE q == KeyOf(tab, file[j])
             v == IF news[q] \in {"seen", "new"} THEN "new" ELSE "newAfterReset"
  <2>1. news' = [news EXCEPT ![q] = v]
    BY <1>3 DEF Happens
  <2>2. v \in {"reset", "new", "newAfterReset"}
    OBVIOUS
  <2>. HIDE DEF q, v
  <2>. QED BY <2>1, <2>2
<1>4. ASSUME ~Module
      PROVE  \E q : \E v \in {"reset", "new", "newAfterReset"} : news' = [news EXCEPT ![q] = v]
  <2>1. CASE \E i \in {1, 2} : Create(i) \/ Delete(i)
    <3>1. PICK q : news' = [news EXCEPT ![q] = "reset"]
      BY <2>1 DEF Create, Delete
    <3>. QED BY <3>1
  <2>2. CASE \E j, w : Happens(j, w)
    BY <1>3, <2>2
  <2>. QED BY <1>4, <2>1, <2>2 DEF KernelActs, StatusChanges, LoginFails, SessionFails
<1>. QED BY <1>1, <1>2, <1>4

\* Every step keeps the types.
LEMMA StepTypes == LoadInv /\ FilesInv /\ PolledInv /\ TypesInv /\ [Next]_vars => TypesInv'
<1>. SUFFICES ASSUME LoadInv, FilesInv, PolledInv, TypesInv, [Next]_vars PROVE TypesInv'
  OBVIOUS
<1>1. ASSUME NEW f, Writes(f),
             \A k \in DOMAIN news' : \/ news'[k] \in {"reset", "new", "newAfterReset"}
                                     \/ k \in DOMAIN news /\ news'[k] = news[k]
      PROVE  TypesInv'
  <2>1. /\ UNCHANGED <<tab, failures, agent, list, valid, age, known, loaded, clock>>
        /\ lag' = 0 \/ lag' = lag
    BY <1>1 DEF Writes, statics, notified
  <2>. QED BY <1>1, <2>1 DEF TypesInv
<1>2. ASSUME Change PROVE TypesInv'
  BY <1>1, <1>2 DEF Change
<1>3. ASSUME KernelActs PROVE TypesInv'
  <2>1. ASSUME NEW j, NEW w, Happens(j, w) PROVE \E f : Writes(f)
    BY <2>1 DEF Happens
  <2>2. \E f : Writes(f)
    BY <1>3, <2>1 DEF KernelActs, Module, Create, Delete, StatusChanges, LoginFails, SessionFails
  <2>. QED BY <1>1, <1>3, <2>2, KernelTypes
<1>4. ASSUME Tick PROVE TypesInv'
  <2>1. /\ UNCHANGED <<tab, failures, agent, list, valid, known, loaded, news>>
        /\ clock' \in 0 .. MaxTime
    BY <1>4, AgentAssumption DEF Tick, TypesInv
  <2>2. age' \in 0 .. 10 /\ lag' \in 0 .. 10
    BY <1>4 DEF Tick, TypesInv, AtMost
  <2>. QED BY <2>1, <2>2 DEF TypesInv
<1>5. ASSUME Start \/ Poll PROVE TypesInv'
  <2>1. CASE tab \in Polled
    BY <1>5, <2>1, PollTypes DEF Start, Poll
  <2>2. CASE tab \notin Polled
    BY <1>5, <2>2 DEF Start, Poll, TypesInv, kernel, statics, notified
  <2>. QED BY <2>1, <2>2
<1>6. ASSUME Stop PROVE TypesInv'
  <2>1. /\ UNCHANGED <<tab, clock, failures, news>> /\ agent' = "down" /\ list' = {}
        /\ valid' = FALSE /\ age' = 0 /\ lag' = 0 /\ known' = NoStatus
    BY <1>6 DEF Stop, Statics, kernel
  <2>2. DOMAIN known' = {}
    BY <2>1 DEF NoStatus
  <2>3. \A k \in DOMAIN known' : known'[k] \in 1 .. 8
    BY <2>2, Zenon
  <2>4. valid' \in BOOLEAN
    BY <2>1, Zenon
  <2>5. /\ agent' \in {"down", "up", "undefined"} /\ age' \in 0 .. 10 /\ lag' \in 0 .. 10
        /\ clock' \in 0 .. MaxTime /\ failures' \in 0 .. MaxFailures
    BY <2>1 DEF TypesInv
  <2>6. \A k \in DOMAIN news' : news'[k] \in {"reset", "new", "newAfterReset", "seen"}
    BY <2>1 DEF TypesInv
  <2>. QED BY <2>1, <2>3, <2>4, <2>5, <2>6, Zenon DEF TypesInv
<1>7. ASSUME Release PROVE TypesInv'
  BY <1>7 DEF Release, TypesInv, kernel, notified
<1>8. ASSUME GetNext PROVE TypesInv'
  <2>1. UNCHANGED <<tab, clock, agent, known, news>>
    BY <1>8 DEF GetNext, kernel, notified
  <2>2. CASE tab \in Polled
    BY <1>8, <2>1, <2>2 DEF GetNext, TypesInv
  <2>3. CASE tab \notin Polled
    <3>1. Refresh
      BY <1>8, <2>3 DEF GetNext
    <3>. QED BY <2>1, <2>3, <3>1, RefreshTypes DEF TypesInv
  <2>. QED BY <2>2, <2>3
<1>9. ASSUME UNCHANGED vars PROVE TypesInv'
  BY <1>9 DEF vars, TypesInv, kernel, statics, notified
<1>10. Next => KernelActs \/ Change \/ Tick \/ Start \/ Poll \/ Stop \/ Release \/ GetNext
  BY DEF Next, KernelActs
<1>. QED BY <1>2, <1>3, <1>4, <1>5, <1>6, <1>7, <1>8, <1>9, <1>10

\* The types of all that the agent has.
THEOREM TypeCorrect == Spec => []TypeOK
<1>1. LoadInv /\ WalkInv /\ PollsInv /\ TypesInv => TypeOK
  <2>. SUFFICES ASSUME LoadInv, WalkInv, PollsInv, TypesInv PROVE TypeOK
    OBVIOUS
  <2>1. file = None \/ \A j \in DOMAIN file : Len(file[j].words) = Len(Table(tab).line)
    BY FileHas DEF WalkInv, FilesInv, FileOK, RecordOK, WordsOK
  <2>2. tab \notin Polled => list = {} \/ (loaded # None /\ Cardinality(list) <= Len(loaded))
    <3>. SUFFICES ASSUME tab \notin Polled, list # {}
                  PROVE  loaded # None /\ Cardinality(list) <= Len(loaded)
      OBVIOUS
    <3>1. PICK full \in Nat : loaded # None /\ list = RowsOf(tab, loaded, full)
      BY DEF TypesInv
    <3>2. tab \in Tables \ Polled /\ loaded \in Contents(tab)
      BY <3>1 DEF LoadInv
    <3>. QED BY <3>1, <3>2, FewRows
  <2>. QED BY <2>1, <2>2 DEF TypeOK, TypesInv, LoadInv, PollsInv, LoginsInv
<1>2. LoadInv /\ WalkInv /\ PollsInv /\ TypesInv /\ [Next]_vars => TypesInv'
  BY StepTypes DEF WalkInv, PollsInv
<1>. QED BY <1>1, <1>2, InitLoad, InitWalk, InitPolls, InitTypes, StepLoad, StepWalk, StepPolls,
            PTL DEF Spec
=============================================================================
