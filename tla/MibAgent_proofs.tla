--------------------------- MODULE MibAgent_proofs ---------------------------
(* Theorems about MibAgent: how late the answers of the cached tables can be, that a load    *)
(* takes the rows of its file and no others, and that a walk passes no row by.               *)
EXTENDS MibAgent, FiniteSetTheorems, TLAPS

\* A load is a fold of ReadLine over the lines of a file.
Reads == INSTANCE LeftFolds WITH Op <- ReadLine

\* Since a load, the file cannot have said something else for longer than the list is old.
LagInv ==
    /\ tab \in Tables
    /\ age \in Nat /\ lag \in Nat
    /\ tab \notin Polled /\ valid => lag <= age

\* Every table that is cached has a timeout.
LEMMA IscsiTimeout == \A t \in init_iscsiMib \ Polled : Iscsi_table[t].timeout \in {5, 10}
BY SMTT(60)
   DEF init_iscsiMib, Polled, SsnFailure, TgtAttr, TgtDev, Iscsi_table,
   iscsiInstAttributes_table, iscsiInstSsnErrStats_table, iscsiPortalAttributes_table,
   iscsiTgtPortalAttributes_table, iscsiNodeAttributes_table, iscsiTgtLoginStats_table,
   iscsiTgtLogoutStats_table, iscsiTgtAuthAttributes_table, iscsiSessionAttributes_table,
   iscsiSessionStats_table, iscsiSsnCxnErrStats_table, iscsiCxnAttributes_table

LEMMA ScsiTimeout == \A t \in init_scsiMib \ Polled : Scsi_table[t].timeout \in {5, 10}
BY SMTT(60)
   DEF init_scsiMib, Polled, SsnFailure, TgtAttr, TgtDev, Scsi_table,
   scsiInstanceTable_table, scsiDeviceTable_table, scsiPortTable_table,
   scsiTransportTable_table, scsiTgtPortTable_table, scsiAuthorizedIntrTable_table,
   scsiAttIntrPortTable_table, scsiLuTable_table

LEMMA IpsAuthTimeout == \A t \in init_ipsAuthMib : IpsAuth_table[t].timeout \in {5, 10}
BY DEF init_ipsAuthMib, IpsAuth_table, ipsAuthInstAttr_table, ipsAuthIdentAttr_table,
   ipsAuthIdentNameAttr_table, ipsAuthCredAttr_table, ipsAuthCredChapAttr_table

LEMMA CachedTimeout == \A t \in Tables \ Polled : Timeout(t) \in {5, 10}
<1>. SUFFICES ASSUME NEW t \in Tables \ Polled PROVE Timeout(t) \in {5, 10}
  OBVIOUS
<1>1. CASE t \in init_iscsiMib
  <2>1. t \notin init_scsiMib /\ t \notin init_ipsAuthMib /\ t # SsnFailure
    BY <1>1 DEF init_iscsiMib, init_scsiMib, init_ipsAuthMib, SsnFailure
  <2>. QED BY <1>1, <2>1, IscsiTimeout DEF Timeout, Table
<1>2. CASE t \in init_scsiMib
  <2>1. t \notin init_iscsiMib /\ t \notin init_ipsAuthMib /\ t # SsnFailure
    BY <1>2 DEF init_iscsiMib, init_scsiMib, init_ipsAuthMib, SsnFailure
  <2>. QED BY <1>2, <2>1, ScsiTimeout DEF Timeout, Table
<1>3. CASE t \in init_ipsAuthMib
  <2>1. t \notin init_iscsiMib /\ t \notin init_scsiMib /\ t # SsnFailure
    BY <1>3 DEF init_iscsiMib, init_scsiMib, init_ipsAuthMib, SsnFailure
  <2>. QED BY <1>3, <2>1, IpsAuthTimeout DEF Timeout, Table
<1>. QED BY <1>1, <1>2, <1>3 DEF Tables, Polled

-----------------------------------------------------------------------------
LEMMA InitLag == Init => LagInv
BY DEF Init, LagInv

\* A request leaves the list as it was, young enough, or makes it anew.
LEMMA RefreshLag ==
    ASSUME LagInv, tab \notin Polled, Refresh
    PROVE  /\ age' \in Nat /\ lag' \in Nat /\ lag' <= age'
           /\ lag' < Timeout(tab)
<1>1. Timeout(tab) \in {5, 10}
  BY CachedTimeout DEF LagInv
<1>. QED BY <1>1 DEF Refresh, LagInv

LEMMA StepLag == LagInv /\ [Next]_vars => LagInv'
<1>. SUFFICES ASSUME LagInv, [Next]_vars PROVE LagInv'
  OBVIOUS
<1>. USE DEF LagInv, kernel, statics, walk, notified
<1>1. ASSUME NEW f, Writes(f) PROVE LagInv'
  BY <1>1 DEF Writes
<1>2. CASE Change \/ Module \/ \E i \in {1, 2} : Create(i) \/ Delete(i)
  BY <1>1, <1>2 DEF Change, Module, Create, Delete
<1>3. ASSUME NEW j, NEW words, Happens(j, words) PROVE LagInv'
  BY <1>1, <1>3 DEF Happens
<1>4. ASSUME NEW j \in {1, 2},
             \/ StatusChanges(j)
             \/ \E n \in Initiator, type \in {2, 4, 5} : LoginFails(j, n, type)
             \/ \E n \in Initiator, type \in {2, 4} : SessionFails(j, n, type)
      PROVE  LagInv'
  BY <1>3, <1>4 DEF StatusChanges, LoginFails, SessionFails
<1>5. CASE Tick
  BY <1>5 DEF Tick, AtMost
<1>6. CASE Start
  <2>1. ASSUME PollLoad(FALSE), tab \in Polled PROVE LagInv'
    BY <2>1 DEF PollLoad
  <2>2. CASE tab \notin Polled
    BY <1>6, <2>2 DEF Start
  <2>. QED BY <1>6, <2>1, <2>2 DEF Start
<1>7. CASE Stop \/ Release
  BY <1>7 DEF Stop, Release, Statics
<1>8. CASE Poll
  BY <1>8 DEF Poll, PollLoad
<1>9. CASE GetNext
  <2>1. CASE tab \in Polled
    BY <1>9, <2>1 DEF GetNext
  <2>2. CASE tab \notin Polled
    BY <1>9, <2>2, RefreshLag DEF GetNext
  <2>. QED BY <2>1, <2>2
<1>10. CASE UNCHANGED vars
  BY <1>10 DEF vars
<1>. QED BY <1>2, <1>4, <1>5, <1>6, <1>7, <1>8, <1>9, <1>10 DEF Next

LEMMA RequestLag == LagInv => (GetNext /\ tab \notin Polled => lag' < Timeout(tab))
BY RefreshLag DEF GetNext

\* Whether net-snmp keeps the marker of a cache or the table does, and whether or not the
\* kernel's module was there, a request is never answered with what the kernel stopped
\* saying a timeout ago.
THEOREM AnswersNotOld == Spec => AnswersAreRecent
BY InitLag, StepLag, RequestLag, PTL DEF Spec, AnswersAreRecent

-----------------------------------------------------------------------------
(* The lines of a file *)

\* The sequences that FlattenSeq goes through, each with one more of what it flattens.
LEMMA Flattened ==
    ASSUME NEW seqs, NEW n \in Nat, n # 0, Len(seqs) = n
    PROVE  \E g : /\ g[1] = seqs[1]
                  /\ \A i \in 2 .. n : g[i] = g[i - 1] \o seqs[i]
                  /\ FlattenSeq(seqs) = g[n]
<1> DEFINE IsFlat(h, k) == h = [i \in 1 .. k |-> IF i = 1 THEN seqs[1] ELSE h[i - 1] \o seqs[i]]
           T == {k \in Nat : \E h : IsFlat(h, k)}
<1>1. 0 \in T
  <2>1. IsFlat([i \in 1 .. 0 |-> seqs[1]], 0)
    OBVIOUS
  <2>. QED BY <2>1
<1>2. ASSUME NEW k \in Nat, k \in T PROVE k + 1 \in T
  <2>1. PICK h : IsFlat(h, k)
    BY <1>2
  <2> DEFINE e == [i \in 1 .. k + 1 |->
                     IF i = k + 1 THEN (IF i = 1 THEN seqs[1] ELSE h[k] \o seqs[i]) ELSE h[i]]
  <2>2. ASSUME NEW i \in 1 .. k + 1
        PROVE  e[i] = IF i = 1 THEN seqs[1] ELSE e[i - 1] \o seqs[i]
    <3>1. CASE i = k + 1
      <4>1. i # 1 => e[i - 1] = h[k]
        BY <3>1
      <4>. QED BY <3>1, <4>1
    <3>2. CASE i # k + 1
      <4>1. i \in 1 .. k /\ e[i] = h[i]
        BY <3>2
      <4>2. i # 1 => i - 1 \in 1 .. k + 1 /\ i - 1 # k + 1
        BY <3>2
      <4>3. i # 1 => e[i - 1] = h[i - 1]
        BY <4>2
      <4>4. h[i] = IF i = 1 THEN seqs[1] ELSE h[i - 1] \o seqs[i]
        BY <2>1, <4>1
      <4>. HIDE DEF e
      <4>. QED BY <4>1, <4>3, <4>4
    <3>. QED BY <3>1, <3>2
  <2>3. IsFlat(e, k + 1)
    <3>1. e = [i \in 1 .. k + 1 |-> e[i]]
      OBVIOUS
    <3>2. [i \in 1 .. k + 1 |-> e[i]] =
             [i \in 1 .. k + 1 |-> IF i = 1 THEN seqs[1] ELSE e[i - 1] \o seqs[i]]
      <4>. HIDE DEF e
      <4>. QED BY <2>2
    <3>. HIDE DEF e
    <3>. QED BY <3>1, <3>2, Zenon
  <2>. HIDE DEF e, IsFlat
  <2>. QED BY <2>3
<1>3. n \in T
  <2>. HIDE DEF T
  <2>. QED BY <1>1, <1>2, Reads!NatSetInduction
<1> DEFINE g == CHOOSE h : h = [i \in 1 .. Len(seqs) |->
                                  IF i = 1 THEN seqs[i] ELSE h[i - 1] \o seqs[i]]
<1>4. g = [i \in 1 .. Len(seqs) |-> IF i = 1 THEN seqs[i] ELSE g[i - 1] \o seqs[i]]
  <2>1. \E h : h = [i \in 1 .. Len(seqs) |-> IF i = 1 THEN seqs[i] ELSE h[i - 1] \o seqs[i]]
    <3>1. PICK h : IsFlat(h, n)
      BY <1>3
    <3>. QED BY <3>1
  <2>. QED BY <2>1
<1>5. FlattenSeq(seqs) = g[n]
  BY DEF FlattenSeq
<1>. HIDE DEF g
<1>6. ASSUME NEW i \in 1 .. n PROVE g[i] = IF i = 1 THEN seqs[i] ELSE g[i - 1] \o seqs[i]
  BY <1>4
<1>7. g[1] = seqs[1]
  <2>1. 1 \in 1 .. n
    OBVIOUS
  <2>2. g[1] = IF 1 = 1 THEN seqs[1] ELSE g[1 - 1] \o seqs[1]
    BY <2>1, <1>6
  <2>. QED BY <2>2
<1>8. ASSUME NEW i \in 2 .. n PROVE g[i] = g[i - 1] \o seqs[i]
  <2>1. i \in 1 .. n /\ i # 1
    OBVIOUS
  <2>2. g[i] = IF i = 1 THEN seqs[i] ELSE g[i - 1] \o seqs[i]
    BY <2>1, <1>6
  <2>. QED BY <2>1, <2>2
<1>. QED BY <1>5, <1>7, <1>8

\* Two sequences, one after the other.
LEMMA Joined ==
    ASSUME NEW S, NEW a \in Seq(S), NEW b \in Seq(S)
    PROVE  /\ a \o b \in Seq(S) /\ Len(a \o b) = Len(a) + Len(b)
           /\ \A i \in 1 .. Len(a) : (a \o b)[i] = a[i]
           /\ \A i \in 1 .. Len(b) : (a \o b)[Len(a) + i] = b[i]
OBVIOUS

\* Where the lines of record i end, when a record has m of them.
IsOffset(off, n, m) ==
    /\ off \in [0 .. n -> Nat]
    /\ off[0] = 0
    /\ \A i \in 1 .. n : off[i] = off[i - 1] + m

\* There are such places.
LEMMA OffsetExists == ASSUME NEW n \in Nat, NEW m \in Nat PROVE \E off : IsOffset(off, n, m)
<1> DEFINE off == [i \in 0 .. n |-> i * m]
<1>1. ASSUME NEW i \in 0 .. n PROVE i * m \in Nat
  OBVIOUS
<1>2. off \in [0 .. n -> Nat]
  BY <1>1
<1>3. off[0] = 0
  OBVIOUS
<1>4. ASSUME NEW i \in 1 .. n PROVE off[i] = off[i - 1] + m
  <2>1. i \in 0 .. n /\ i - 1 \in 0 .. n
    OBVIOUS
  <2>2. i * m = (i - 1) * m + m
    OBVIOUS
  <2>. QED BY <2>1, <2>2
<1>. HIDE DEF off
<1>. QED BY <1>2, <1>3, <1>4 DEF IsOffset

\* A later record does not end earlier.
LEMMA OffsetsGrow ==
    ASSUME NEW n \in Nat, NEW m \in Nat, NEW off, IsOffset(off, n, m)
    PROVE  \A x, y \in 0 .. n : x <= y => off[x] <= off[y]
<1>1. /\ \A k \in 0 .. n : off[k] \in Nat
      /\ \A k \in 1 .. n : off[k] = off[k - 1] + m
  BY DEF IsOffset
<1> DEFINE U == {e \in Nat : \A x \in 0 .. n : x + e \in 0 .. n => off[x] <= off[x + e]}
<1>2. 0 \in U
  BY <1>1
<1>3. ASSUME NEW e \in Nat, e \in U PROVE e + 1 \in U
  <2>. SUFFICES ASSUME NEW x \in 0 .. n, x + (e + 1) \in 0 .. n
                PROVE  off[x] <= off[x + (e + 1)]
    OBVIOUS
  <2>1. x + e \in 0 .. n /\ off[x] <= off[x + e]
    BY <1>3
  <2>2. x + (e + 1) \in 1 .. n /\ x + (e + 1) - 1 = x + e
    OBVIOUS
  <2>3. off[x + (e + 1)] = off[x + e] + m
    BY <1>1, <2>2
  <2>. QED BY <1>1, <2>1, <2>3
<1>. HIDE DEF U
<1>4. \A e \in Nat : e \in U
  BY <1>2, <1>3, Reads!NatSetInduction
<1>5. ASSUME NEW x \in 0 .. n, NEW y \in 0 .. n, x <= y PROVE off[x] <= off[y]
  <2>1. y - x \in Nat /\ x + (y - x) = y
    BY <1>5
  <2>. QED BY <1>4, <2>1 DEF U
<1>. QED BY <1>5

\* The lines of a file f of n records, with m lines each.
HasLines(seq, f, n, m, off) ==
    /\ seq \in Seq([record : {f[i] : i \in 1 .. n}, number : 0 .. m - 1])
    /\ Len(seq) = off[n]
    /\ \A i \in 1 .. n, l \in 1 .. m :
         seq[off[i - 1] + l] = [record |-> f[i], number |-> l - 1]

\* Its lines are those of one record after those of another.
LEMMA LinesAre ==
    ASSUME NEW t, NEW n \in Nat, NEW f, DOMAIN f = 1 .. n, Table(t).more \in Nat,
           NEW off, IsOffset(off, n, Table(t).more + 1)
    PROVE  HasLines(Lines(t, f), f, n, Table(t).more + 1, off)
<1> DEFINE m == Table(t).more + 1
           S == [record : {f[i] : i \in 1 .. n}, number : 0 .. m - 1]
           part(i) == [l \in 1 .. m |-> [record |-> f[i], number |-> l - 1]]
           seqs == [i \in DOMAIN f |-> part(i)]
<1>1. m \in Nat
  OBVIOUS
<1>2. Lines(t, f) = FlattenSeq(seqs)
  BY DEF Lines
<1>3. seqs = [i \in 1 .. n |-> part(i)]
  OBVIOUS
<1>4. Len(seqs) = n
  BY <1>3
<1>5. ASSUME NEW i \in 1 .. n
      PROVE  /\ seqs[i] = part(i) /\ part(i) \in Seq(S) /\ Len(part(i)) = m
             /\ \A l \in 1 .. m : part(i)[l] = [record |-> f[i], number |-> l - 1]
  <2>1. seqs[i] = part(i)
    BY <1>3
  <2>2. \A l \in 1 .. m : part(i)[l] = [record |-> f[i], number |-> l - 1]
    OBVIOUS
  <2>3. \A l \in 1 .. m : [record |-> f[i], number |-> l - 1] \in S
    <3>1. ASSUME NEW l \in 1 .. m PROVE l - 1 \in 0 .. m - 1
      BY <1>1
    <3>. HIDE DEF m
    <3>. QED BY <3>1
  <2>4. part(i) \in [1 .. m -> S]
    <3>. HIDE DEF S, m
    <3>. QED BY <2>3
  <2>5. part(i) \in Seq(S) /\ Len(part(i)) = m
    <3>. HIDE DEF S, part, m
    <3>. QED BY <1>1, <2>4
  <2>. QED BY <2>1, <2>2, <2>5
<1>6. CASE n = 0
  <2>1. Lines(t, f) = <<>>
    BY <1>2, <1>4, <1>6 DEF FlattenSeq
  <2>. QED BY <1>6, <2>1 DEF IsOffset, HasLines
<1>7. CASE n # 0
  <2>1. PICK g : /\ g[1] = seqs[1]
                 /\ \A i \in 2 .. n : g[i] = g[i - 1] \o seqs[i]
                 /\ FlattenSeq(seqs) = g[n]
    <3>. HIDE DEF seqs
    <3>. QED BY <1>4, <1>7, Flattened
  <2> DEFINE G(k) == /\ g[k] \in Seq(S) /\ Len(g[k]) = off[k]
                     /\ \A i \in 1 .. k, l \in 1 .. m :
                          g[k][off[i - 1] + l] = [record |-> f[i], number |-> l - 1]
             T == {k \in Nat : k + 1 \in 1 .. n => G(k + 1)}
  <2>2. \A k \in 0 .. n : off[k] \in Nat
    BY DEF IsOffset
  <2>3. \A k \in 1 .. n : off[k] = off[k - 1] + m
    BY DEF IsOffset
  <2>4. G(1)
    <3>1. 1 \in 1 .. n
      BY <1>7
    <3>2. g[1] = part(1)
      BY <1>5, <2>1, <3>1
    <3>3. off[0] = 0 /\ off[1] = m
      BY <2>3, <3>1, <1>1 DEF IsOffset
    <3>4. g[1] \in Seq(S) /\ Len(g[1]) = off[1]
      <4>. HIDE DEF part, S, m
      <4>. QED BY <1>5, <3>1, <3>2, <3>3
    <3>5. ASSUME NEW i \in 1 .. 1, NEW l \in 1 .. m
          PROVE  g[1][off[i - 1] + l] = [record |-> f[i], number |-> l - 1]
      <4>1. i = 1 /\ off[i - 1] + l = l
        BY <3>3, <1>1
      <4>. HIDE DEF part, S, m
      <4>. QED BY <1>5, <3>1, <3>2, <4>1
    <3>. HIDE DEF part, S, m
    <3>. QED BY <3>4, <3>5
  <2>5. ASSUME NEW k \in Nat, k \in T PROVE k + 1 \in T
    <3>. SUFFICES ASSUME k + 2 \in 1 .. n PROVE G(k + 2)
      OBVIOUS
    <3> DEFINE c == k + 1
               d == k + 2
    <3>1. c \in 1 .. n /\ d \in 1 .. n /\ d \in 2 .. n /\ d - 1 = c
      OBVIOUS
    <3>2. G(c)
      BY <2>5, <3>1
    <3>3. g[d] = g[c] \o part(d)
      BY <2>1, <1>5, <3>1
    <3>4. off[c] \in Nat /\ off[d] = off[c] + m
      BY <2>2, <2>3, <3>1
    <3>5. part(d) \in Seq(S) /\ Len(part(d)) = m
      BY <1>5, <3>1
    <3>. HIDE DEF part, S, m
    <3>j. /\ g[d] \in Seq(S) /\ Len(g[d]) = Len(g[c]) + Len(part(d))
          /\ \A i \in 1 .. Len(g[c]) : g[d][i] = g[c][i]
          /\ \A i \in 1 .. Len(part(d)) : g[d][Len(g[c]) + i] = part(d)[i]
      <4>1. g[c] \in Seq(S)
        BY <3>2
      <4> DEFINE a == g[c]
                 b == part(d)
      <4>2. a \in Seq(S) /\ b \in Seq(S)
        BY <3>5, <4>1
      <4>. HIDE DEF a, b, T, G
      <4>3. /\ a \o b \in Seq(S) /\ Len(a \o b) = Len(a) + Len(b)
            /\ \A i \in 1 .. Len(a) : (a \o b)[i] = a[i]
            /\ \A i \in 1 .. Len(b) : (a \o b)[Len(a) + i] = b[i]
        BY <4>2, Joined
      <4>4. g[d] = a \o b
        BY <3>3 DEF a, b
      <4>. QED BY <4>3, <4>4 DEF a, b
    <3>6. g[d] \in Seq(S) /\ Len(g[d]) = off[d]
      BY <3>2, <3>4, <3>5, <3>j
    <3>7. ASSUME NEW i \in 1 .. d, NEW l \in 1 .. m
          PROVE  g[d][off[i - 1] + l] = [record |-> f[i], number |-> l - 1]
      <4>1. CASE i = d
        <5>1. off[i - 1] + l = Len(g[c]) + l
          BY <3>1, <3>2, <4>1
        <5>2. g[d][Len(g[c]) + l] = part(d)[l]
          BY <3>5, <3>j
        <5>3. part(d)[l] = [record |-> f[d], number |-> l - 1]
          BY <1>5, <3>1
        <5>. QED BY <4>1, <5>1, <5>2, <5>3
      <4>2. CASE i # d
        <5>1. i \in 1 .. c
          BY <4>2
        <5>2. off[i - 1] \in Nat /\ off[i - 1] + m <= off[c]
          <6>1. \A x, y \in 0 .. n : x <= y => off[x] <= off[y]
            BY <1>1, OffsetsGrow
          <6>2. i \in 1 .. n /\ i - 1 \in 0 .. n /\ i \in 0 .. n /\ c \in 0 .. n /\ i <= c
            BY <3>1, <5>1
          <6>3. off[i] <= off[c] /\ off[i] = off[i - 1] + m
            BY <6>1, <6>2, <2>3
          <6>. QED BY <2>2, <6>2, <6>3
        <5>3. off[i - 1] + l \in 1 .. Len(g[c])
          <6> DEFINE o == off[i - 1]
                     z == off[c]
          <6>1. Len(g[c]) = z
            BY <3>2
          <6>2. o \in Nat /\ z \in Nat /\ o + m <= z
            BY <3>4, <5>2
          <6>. HIDE DEF o, z, G, T
          <6>3. o + l \in 1 .. z
            BY <1>1, <6>2
          <6>. QED BY <6>1, <6>3 DEF o
        <5>4. g[d][off[i - 1] + l] = g[c][off[i - 1] + l]
          BY <3>j, <5>3
        <5>. QED BY <3>2, <5>1, <5>4
      <4>. QED BY <4>1, <4>2
    <3>. QED BY <3>6, <3>7
  <2>6. G(n)
    <3>1. 0 \in T
      <4>. HIDE DEF G
      <4>. QED BY <2>4
    <3>. HIDE DEF T
    <3>2. n - 1 \in T
      BY <1>7, <2>5, <3>1, Reads!NatSetInduction
    <3>. QED BY <1>7, <3>2 DEF T
  <2>. HIDE DEF S, m
  <2>. USE <2>6
  <2>7. Lines(t, f) = g[n]
    BY <1>2, <2>1
  <2>8. Lines(t, f) \in Seq(S) /\ Len(Lines(t, f)) = off[n]
    BY <2>7
  <2>9. \A i \in 1 .. n, l \in 1 .. m :
          Lines(t, f)[off[i - 1] + l] = [record |-> f[i], number |-> l - 1]
    BY <2>7
  <2>. USE DEF S, m
  <2>. QED BY <2>8, <2>9 DEF HasLines
<1>. QED BY <1>6, <1>7

-----------------------------------------------------------------------------
(* The records of a file, one after another *)

\* What a load has, while it goes on and after it stopped.
Fields == {"rows", "met", "expects", "stopped"}
Going(a, rows, met, e) ==
    DOMAIN a = Fields /\ a.rows = rows /\ a.met = met /\ a.expects = e /\ ~a.stopped
Stopped(a, rows, met) ==
    DOMAIN a = Fields /\ a.rows = rows /\ a.met = met /\ a.stopped

\* What the three ways make of it to go on or stop.
LEMMA StoppedNow ==
    ASSUME NEW a, NEW rows, NEW met, NEW e, Going(a, rows, met, e)
    PROVE  Stopped([a EXCEPT !.stopped = TRUE], rows, met)
<1> DEFINE b == [a EXCEPT !.stopped = TRUE]
<1>1. DOMAIN a = Fields
  BY DEF Going
<1>2. DOMAIN b = Fields /\ b.rows = a.rows /\ b.met = a.met /\ b.stopped
  BY <1>1, Zenon DEF Fields
<1>. HIDE DEF b
<1>3. Stopped(b, rows, met)
  BY <1>2, Zenon DEF Going, Stopped
<1>. QED BY <1>3 DEF b

\* A load that goes on only expects another line,
LEMMA GoesOn ==
    ASSUME NEW a, NEW rows, NEW met, NEW e, Going(a, rows, met, e), NEW x
    PROVE  Going([a EXCEPT !.expects = x], rows, met, x)
<1> DEFINE b == [a EXCEPT !.expects = x]
<1>1. DOMAIN a = Fields
  BY DEF Going
<1>2. /\ DOMAIN b = Fields /\ b.rows = a.rows /\ b.met = a.met /\ b.expects = x
      /\ b.stopped = a.stopped
  BY <1>1, Zenon DEF Fields
<1>. HIDE DEF b
<1>3. Going(b, rows, met, x)
  BY <1>2, Zenon DEF Going
<1>. QED BY <1>3 DEF b

\* or also has more rows and met more records.
LEMMA HasMore ==
    ASSUME NEW a, NEW rows, NEW met, NEW e, Going(a, rows, met, e), NEW x, NEW y, NEW z
    PROVE  Going([a EXCEPT !.rows = x, !.met = y, !.expects = z], x, y, z)
<1> DEFINE b == [a EXCEPT !.rows = x, !.met = y, !.expects = z]
<1>1. DOMAIN a = Fields
  BY DEF Going
<1>2. DOMAIN b = Fields /\ b.rows = x /\ b.met = y /\ b.expects = z /\ b.stopped = a.stopped
  BY <1>1, Zenon DEF Fields
<1>. HIDE DEF b
<1>3. Going(b, x, y, z)
  BY <1>2, Zenon DEF Going
<1>. QED BY <1>3 DEF b

\* A line that is read after the load stopped makes no difference.
LEMMA LineAfterStop ==
    ASSUME NEW t, NEW full, NEW a, NEW rows, NEW met, NEW l, Stopped(a, rows, met)
    PROVE  ReadLine(t, a, l, full) = a
BY DEF ReadLine, Stopped

\* Rows, with that of one more record.
With(t, rows, r, met) == rows \cup {Load(t, r.words \o AliasOf(t, met))}

\* A line that is not a first one, where one is expected, makes none either.
LEMMA LineOutOfTurn ==
    ASSUME NEW t, NEW full, NEW a, NEW rows, NEW met, NEW r, NEW k \in Nat, k # 0,
           Going(a, rows, met, 0)
    PROVE  ReadLine(t, a, [record |-> r, number |-> k], full) = a
<1>1. a.expects = 0
  BY DEF Going
<1>. QED BY <1>1 DEF ReadLine

\* Line k of record r, when line e is expected.
LEMMA LineIs ==
    ASSUME NEW t, NEW full, NEW a, NEW rows, NEW met, NEW e \in Nat, NEW r, NEW k \in Nat,
           Going(a, rows, met, e)
    PROVE  LET b == ReadLine(t, a, [record |-> r, number |-> k], full)
           IN  /\ (e = 0 /\ k # 0) \/ (e = 0 /\ k = 0 /\ r.bad = 1) => b = a
               /\ k = e /\ e # 0 /\ r.bad = k + 1 => Stopped(b, rows, met)
               /\ k = e /\ r.bad # k + 1 /\ k # Table(t).more => Going(b, rows, met, e + 1)
               /\ k = e /\ r.bad # k + 1 /\ k = Table(t).more /\ met = full =>
                    Stopped(b, rows, met)
               /\ k = e /\ r.bad # k + 1 /\ k = Table(t).more /\ met # full =>
                    Going(b, With(t, rows, r, met), met + 1, 0)
<1> DEFINE l == [record |-> r, number |-> k]
           parses == k = e /\ r.bad # k + 1
           b == ReadLine(t, a, l, full)
<1>1. a.rows = rows /\ a.met = met /\ a.expects = e /\ ~a.stopped
  BY DEF Going
<1>2. l.record = r /\ l.number = k
  OBVIOUS
<1>3. Stopped([a EXCEPT !.stopped = TRUE], rows, met)
  BY StoppedNow
<1>4. Going([a EXCEPT !.expects = @ + 1], rows, met, e + 1)
  BY <1>1, GoesOn, Zenon
<1>5. met # full => Going(AddRow(t, a, r, full), With(t, rows, r, met), met + 1, 0)
  <2>1. Going([a EXCEPT !.rows = With(t, rows, r, met), !.met = met + 1, !.expects = 0],
              With(t, rows, r, met), met + 1, 0)
    BY HasMore
  <2>2. met # full =>
          AddRow(t, a, r, full) =
            [a EXCEPT !.rows = With(t, rows, r, met), !.met = met + 1, !.expects = 0]
    BY <1>1, Zenon DEF AddRow, With
  <2>. QED BY <2>1, <2>2, Zenon
<1>6. met = full => Stopped(AddRow(t, a, r, full), rows, met)
  BY <1>1, <1>3, Zenon DEF AddRow
<1>7. e = 0 /\ ~parses => b = a
  BY <1>1, <1>2, Zenon DEF ReadLine
<1>8. e # 0 /\ ~parses => b = [a EXCEPT !.stopped = TRUE]
  BY <1>1, <1>2, Zenon DEF ReadLine
<1>9. parses /\ k = Table(t).more => b = AddRow(t, a, r, full)
  BY <1>1, <1>2, Zenon DEF ReadLine
<1>10. parses /\ k # Table(t).more => b = [a EXCEPT !.expects = @ + 1]
  BY <1>1, <1>2, Zenon DEF ReadLine
<1>. HIDE DEF b
<1>11. (e = 0 /\ k # 0) \/ (e = 0 /\ k = 0 /\ r.bad = 1) => b = a
  <2>1. e = 0 /\ k # 0 => ~parses
    OBVIOUS
  <2>2. e = 0 /\ k = 0 /\ r.bad = 1 => ~parses
    OBVIOUS
  <2>. HIDE DEF parses
  <2>. QED BY <1>7, <2>1, <2>2
<1>12. k = e /\ e # 0 /\ r.bad = k + 1 => Stopped(b, rows, met)
  BY <1>3, <1>8, Zenon
<1>13. k = e /\ r.bad # k + 1 /\ k # Table(t).more => Going(b, rows, met, e + 1)
  BY <1>4, <1>10, Zenon
<1>14. k = e /\ r.bad # k + 1 /\ k = Table(t).more /\ met = full => Stopped(b, rows, met)
  BY <1>6, <1>9, Zenon
<1>15. k = e /\ r.bad # k + 1 /\ k = Table(t).more /\ met # full =>
         Going(b, With(t, rows, r, met), met + 1, 0)
  BY <1>5, <1>9, Zenon
<1>. QED BY <1>11, <1>12, <1>13, <1>14, <1>15, Zenon DEF b

\* The lines of record r are read from what there is in g[0].
ReadsRecord(t, r, full, m, g) ==
    \A l \in 1 .. m : g[l] = ReadLine(t, g[l - 1], [record |-> r, number |-> l - 1], full)

\* The lines of a record that comes after the load stopped make no difference.
LEMMA RecordAfterStop ==
    ASSUME NEW t, NEW full, NEW r, NEW g, NEW a, NEW b, NEW rows, NEW met, NEW m, m \in Nat,
           ReadsRecord(t, r, full, m, g), g[0] = a, g[m] = b, Stopped(a, rows, met)
    PROVE  b = a
<1> DEFINE T == {l \in Nat : l \in 0 .. m => g[l] = g[0]}
<1>1. 0 \in T
  OBVIOUS
<1>2. ASSUME NEW l \in Nat, l \in T PROVE l + 1 \in T
  <2>. SUFFICES ASSUME l + 1 \in 1 .. m PROVE g[l + 1] = g[0]
    OBVIOUS
  <2>1. g[l + 1 - 1] = g[0]
    BY <1>2
  <2>2. g[l + 1] = ReadLine(t, g[l + 1 - 1], [record |-> r, number |-> l + 1 - 1], full)
    BY DEF ReadsRecord
  <2>. HIDE DEF T
  <2>. QED BY <2>1, <2>2, LineAfterStop
<1>. HIDE DEF T
<1>3. m \in T
  BY <1>1, <1>2, Reads!NatSetInduction
<1>. QED BY <1>3 DEF T

\* What a record does to a load that goes on: with a bad first line nothing, with another bad
\* line it ends it, and so does one that there is no memory for; any other adds its row.
LEMMA RecordIsRead ==
    ASSUME NEW t, NEW full, NEW m \in Nat \ {0}, Table(t).more = m - 1, NEW r, r.bad \in 0 .. m,
           NEW g, ReadsRecord(t, r, full, m, g),
           NEW a, g[0] = a, NEW rows, NEW met, Going(a, rows, met, 0), NEW b, g[m] = b
    PROVE  /\ r.bad = 1 => b = a
           /\ r.bad > 1 => Stopped(b, rows, met)
           /\ r.bad = 0 /\ met = full => Stopped(b, rows, met)
           /\ r.bad = 0 /\ met # full => Going(b, With(t, rows, r, met), met + 1, 0)
<1> DEFINE bad == r.bad
           Read(x, k) == ReadLine(t, x, [record |-> r, number |-> k], full)
<1>1. ASSUME NEW l \in Nat, l + 1 \in 1 .. m PROVE g[l + 1] = Read(g[l], l)
  <2>1. l + 1 - 1 = l
    OBVIOUS
  <2>2. g[l + 1] = ReadLine(t, g[l + 1 - 1], [record |-> r, number |-> l + 1 - 1], full)
    BY <1>1 DEF ReadsRecord
  <2>. QED BY <2>1, <2>2
<1>2. bad \in 0 .. m
  OBVIOUS
<1>3. ASSUME NEW x, NEW e \in Nat, Going(x, rows, met, e)
      PROVE  LET y == Read(x, e)
             IN  /\ e = 0 /\ bad = 1 => y = x
                 /\ e # 0 /\ bad = e + 1 => Stopped(y, rows, met)
                 /\ bad # e + 1 /\ e # m - 1 => Going(y, rows, met, e + 1)
                 /\ bad # e + 1 /\ e = m - 1 /\ met = full => Stopped(y, rows, met)
                 /\ bad # e + 1 /\ e = m - 1 /\ met # full => 
                      Going(y, With(t, rows, r, met), met + 1, 0)
  <2> DEFINE y == Read(x, e)
  <2>1. /\ e = 0 /\ e = 0 /\ r.bad = 1 => y = x
        /\ e = e /\ e # 0 /\ r.bad = e + 1 => Stopped(y, rows, met)
        /\ e = e /\ r.bad # e + 1 /\ e # Table(t).more => Going(y, rows, met, e + 1)
        /\ e = e /\ r.bad # e + 1 /\ e = Table(t).more /\ met = full => Stopped(y, rows, met)
        /\ e = e /\ r.bad # e + 1 /\ e = Table(t).more /\ met # full =>
             Going(y, With(t, rows, r, met), met + 1, 0)
    BY <1>3, LineIs
  <2>2. Table(t).more = m - 1
    OBVIOUS
  <2>. HIDE DEF y
  <2>3. /\ e = 0 /\ bad = 1 => y = x
        /\ e # 0 /\ bad = e + 1 => Stopped(y, rows, met)
        /\ bad # e + 1 /\ e # m - 1 => Going(y, rows, met, e + 1)
        /\ bad # e + 1 /\ e = m - 1 /\ met = full => Stopped(y, rows, met)
        /\ bad # e + 1 /\ e = m - 1 /\ met # full =>
             Going(y, With(t, rows, r, met), met + 1, 0)
    BY <2>1, <2>2
  <2>. QED BY <2>3 DEF y
<1>4. ASSUME NEW x, Going(x, rows, met, 0), NEW k \in Nat, k # 0 PROVE Read(x, k) = x
  BY <1>4, LineOutOfTurn
<1>. HIDE DEF bad, Read
<1>5. CASE bad = 1
  <2> DEFINE T == {l \in Nat : l \in 0 .. m => g[l] = g[0]}
  <2>1. 0 \in T
    OBVIOUS
  <2>2. ASSUME NEW l \in Nat, l \in T PROVE l + 1 \in T
    <3>. SUFFICES ASSUME l + 1 \in 1 .. m PROVE g[l + 1] = g[0]
      OBVIOUS
    <3>1. g[l] = g[0]
      BY <2>2
    <3>2. g[l + 1] = Read(g[0], l)
      BY <1>1, <3>1
    <3>3. Read(g[0], l) = g[0]
      <4>1. CASE l = 0
        BY <1>3, <1>5, <4>1, Zenon
      <4>2. CASE l # 0
        BY <1>4, <4>2, Zenon
      <4>. QED BY <4>1, <4>2
    <3>. QED BY <3>2, <3>3
  <2>. HIDE DEF T
  <2>3. m \in T
    BY <2>1, <2>2, Reads!NatSetInduction
  <2>. QED BY <1>5, <2>3 DEF T, bad
<1>6. CASE bad # 1
  <2> DEFINE T == {l \in Nat : l <= m - 1 /\ (bad = 0 \/ l < bad) => Going(g[l], rows, met, l)}
  <2>1. 0 \in T
    OBVIOUS
  <2>2. ASSUME NEW l \in Nat, l \in T PROVE l + 1 \in T
    <3>. SUFFICES ASSUME l + 1 <= m - 1, bad = 0 \/ l + 1 < bad
                  PROVE  Going(g[l + 1], rows, met, l + 1)
      OBVIOUS
    <3>1. Going(g[l], rows, met, l)
      BY <2>2, <1>2
    <3>2. l + 1 \in 1 .. m
      OBVIOUS
    <3>3. g[l + 1] = Read(g[l], l)
      BY <1>1, <3>2
    <3>4. bad # l + 1 /\ l # m - 1
      BY <1>2
    <3>. HIDE DEF T
    <3>. QED BY <1>3, <3>1, <3>3, <3>4, Zenon
  <2>. HIDE DEF T
  <2>3. \A l \in Nat : l \in T
    BY <2>1, <2>2, Reads!NatSetInduction
  <2>4. CASE bad # 0
    <3> DEFINE c == bad - 1
    <3>1. c \in Nat /\ c # 0 /\ bad \in 1 .. m /\ bad = c + 1
      BY <1>2, <1>6, <2>4
    <3>2. Going(g[c], rows, met, c)
      BY <1>2, <2>3, <3>1 DEF T
    <3>3. g[bad] = Read(g[c], c)
      BY <1>1, <3>1
    <3>. HIDE DEF c
    <3>4. Stopped(g[bad], rows, met)
      BY <1>3, <3>1, <3>2, <3>3, Zenon
    <3> DEFINE U == {l \in Nat : bad + l <= m => Stopped(g[bad + l], rows, met)}
    <3>5. 0 \in U
      <4>1. bad + 0 = bad
        BY <3>1
      <4>. QED BY <3>4, <4>1
    <3>6. ASSUME NEW l \in Nat, l \in U PROVE l + 1 \in U
      <4>. SUFFICES ASSUME bad + (l + 1) <= m PROVE Stopped(g[bad + (l + 1)], rows, met)
        OBVIOUS
      <4> DEFINE k == bad + l
      <4>1. k \in Nat /\ k + 1 \in 1 .. m /\ k + 1 = bad + (l + 1) /\ k <= m
        BY <3>1
      <4>2. Stopped(g[k], rows, met)
        BY <3>6, <4>1
      <4>3. g[k + 1] = Read(g[k], k)
        BY <1>1, <4>1
      <4>. HIDE DEF k
      <4>a. Read(g[k], k) = g[k]
        BY <4>2, LineAfterStop DEF Read
      <4>4. Stopped(g[k + 1], rows, met)
        BY <4>2, <4>3, <4>a
      <4>. QED BY <4>1, <4>4
    <3>. HIDE DEF U
    <3>7. m - bad \in U
      BY <3>1, <3>5, <3>6, Reads!NatSetInduction
    <3>8. bad + (m - bad) = m
      BY <3>1
    <3>9. Stopped(g[m], rows, met)
      BY <3>7, <3>8 DEF U
    <3>. QED BY <1>6, <2>4, <3>9 DEF bad
  <2>5. CASE bad = 0
    <3> DEFINE k == m - 1
    <3>1. k \in Nat /\ k + 1 \in 1 .. m /\ k + 1 = m /\ bad # k + 1
      BY <2>5
    <3>2. Going(g[k], rows, met, k)
      BY <2>3, <2>5, <3>1 DEF T
    <3>3. g[m] = Read(g[k], k)
      BY <1>1, <3>1
    <3>4. met = full => Stopped(g[m], rows, met)
      BY <1>3, <3>1, <3>2, <3>3, Zenon
    <3>5. met # full => Going(g[m], With(t, rows, r, met), met + 1, 0)
      BY <1>3, <3>1, <3>2, <3>3, Zenon
    <3>. QED BY <2>5, <3>4, <3>5 DEF bad
  <2>. QED BY <2>4, <2>5
<1>. QED BY <1>5, <1>6

\* The records that a load can read, which of them it meets before record j, and the row that
\* it makes of record j.
ReadOf(recs) == {j \in DOMAIN recs : recs[j].bad = 0 /\ \A i \in 1 .. j : recs[i].bad <= 1}
MetBefore(recs, j) == Cardinality({i \in ReadOf(recs) : i < j})
RowAt(t, recs, j) == Load(t, recs[j].words \o AliasOf(t, MetBefore(recs, j)))

\* A file whose records have the lines of table t.
IsFile(t, f) ==
    /\ Table(t).more \in Nat
    /\ \E n \in Nat : DOMAIN f = 1 .. n
    /\ \A i \in DOMAIN f : f[i].bad \in 0 .. Table(t).more + 1

\* A load is a fold over the lines of its file.
LEMMA LoadFolds ==
    ASSUME NEW t, NEW f, NEW full
    PROVE  RowsOf(t, f, full) = Reads!Fold(t, full, Nothing, Lines(t, f)).rows
BY DEF RowsOf, Reads!Fold, FoldLeft, MapThenFoldSet, Reads!FoldLeft, Reads!MapThenFoldSet,
       Max, Reads!Max

\* What there is after each record of a file, from nothing to what the load leaves.
LEMMA RecordsAre ==
    ASSUME NEW t, NEW n \in Nat, NEW f, DOMAIN f = 1 .. n, IsFile(t, f), NEW full
    PROVE  \E h : /\ h[0] = Nothing
                  /\ RowsOf(t, f, full) = h[n].rows
                  /\ \A i \in 1 .. n : \E g : /\ g[0] = h[i - 1] /\ g[Table(t).more + 1] = h[i]
                                              /\ ReadsRecord(t, f[i], full, Table(t).more + 1, g)
<1> DEFINE m == Table(t).more + 1
           seq == Lines(t, f)
           S == [record : {f[i] : i \in 1 .. n}, number : 0 .. m - 1]
<1>1. m \in Nat \ {0} /\ Table(t).more \in Nat
  BY DEF IsFile
<1>2. PICK off : IsOffset(off, n, m)
  BY <1>1, OffsetExists
<1>3. HasLines(seq, f, n, m, off)
  BY <1>1, <1>2, LinesAre
<1>a. seq \in Seq(S) /\ Len(seq) = off[n]
  BY <1>3 DEF HasLines
<1>4. RowsOf(t, f, full) = Reads!Fold(t, full, Nothing, seq).rows
  BY LoadFolds
<1>. HIDE DEF seq, S, m
<1>5. PICK gg : /\ gg[0] = Nothing
                /\ \A k \in 1 .. Len(seq) : gg[k] = ReadLine(t, gg[k - 1], seq[k], full)
                /\ Reads!Fold(t, full, Nothing, seq) = gg[Len(seq)]
  BY <1>a, Reads!FoldSteps
<1> DEFINE h == [i \in 0 .. n |-> gg[off[i]]]
<1>6. h[0] = Nothing /\ RowsOf(t, f, full) = h[n].rows
  BY <1>2, <1>a, <1>4, <1>5 DEF IsOffset
<1>7. ASSUME NEW i \in 1 .. n
      PROVE  \E g : g[0] = h[i - 1] /\ g[m] = h[i] /\ ReadsRecord(t, f[i], full, m, g)
  <2> DEFINE o == off[i - 1]
             g == [l \in 0 .. m |-> gg[o + l]]
  <2>1. i - 1 \in 0 .. n /\ i \in 0 .. n /\ n \in 0 .. n /\ i <= n
    OBVIOUS
  <2>2. o \in Nat /\ off[i] = o + m /\ off[n] \in Nat
    BY <2>1, <1>2 DEF IsOffset
  <2>3. o + m <= off[n]
    BY <1>1, <1>2, <2>1, <2>2, OffsetsGrow
  <2>4. h[i - 1] = gg[o] /\ h[i] = gg[o + m]
    BY <2>1, <2>2
  <2>. HIDE DEF o, h
  <2>5. g[0] = h[i - 1] /\ g[m] = h[i]
    BY <1>1, <2>2, <2>4
  <2>6. ASSUME NEW l \in 1 .. m
        PROVE  g[l] = ReadLine(t, g[l - 1], [record |-> f[i], number |-> l - 1], full)
    <3>1. o + l \in 1 .. Len(seq) /\ o + l - 1 = o + (l - 1) /\ l - 1 \in 0 .. m /\ l \in 0 .. m
      BY <1>1, <1>a, <2>2, <2>3
    <3>2. gg[o + l] = ReadLine(t, gg[o + (l - 1)], seq[o + l], full)
      <4> DEFINE k == o + l
      <4>1. k \in 1 .. Len(seq) /\ k - 1 = o + (l - 1)
        BY <1>1, <2>2, <3>1
      <4>. HIDE DEF k, g
      <4>2. gg[k] = ReadLine(t, gg[k - 1], seq[k], full)
        BY <1>5, <4>1
      <4>3. gg[k] = ReadLine(t, gg[o + (l - 1)], seq[k], full)
        BY <4>1, <4>2
      <4>. QED BY <4>3 DEF k
    <3>3. seq[o + l] = [record |-> f[i], number |-> l - 1]
      BY <1>3, Zenon DEF o, HasLines
    <3>4. g[l] = gg[o + l] /\ g[l - 1] = gg[o + (l - 1)]
      BY <3>1
    <3>. HIDE DEF g
    <3>. QED BY <3>2, <3>3, <3>4
  <2>. HIDE DEF g
  <2>7. ReadsRecord(t, f[i], full, m, g)
    BY <2>6 DEF ReadsRecord
  <2>. QED BY <2>5, <2>7
<1>. HIDE DEF h
<1>. QED BY <1>6, <1>7 DEF m

\* The records that are read, up to one of them, can be counted.
LEMMA ReadsFinite ==
    ASSUME NEW n \in Nat, NEW f, DOMAIN f = 1 .. n, NEW i \in 0 .. n
    PROVE  LET r == {j \in ReadOf(f) : j <= i}
           IN  IsFiniteSet(r) /\ Cardinality(r) \in Nat
<1> DEFINE r == {j \in ReadOf(f) : j <= i}
<1>1. IsFiniteSet(1 .. n)
  BY FS_Interval
<1>2. r \in SUBSET (1 .. n)
  BY DEF ReadOf
<1>. HIDE DEF r
<1>3. IsFiniteSet(r)
  BY <1>1, <1>2, FS_Subset
<1>4. Cardinality(r) \in Nat
  BY <1>3, FS_CardinalityType
<1>. QED BY <1>3, <1>4 DEF r

\* The records before record j are those up to record j - 1, and those before a later one are
\* no fewer.
LEMMA MetIs ==
    ASSUME NEW n \in Nat, NEW f, DOMAIN f = 1 .. n, NEW i \in 0 .. n
    PROVE  /\ i < n => MetBefore(f, i + 1) = Cardinality({j \in ReadOf(f) : j <= i})
           /\ \A j \in ReadOf(f) : j > i =>
                MetBefore(f, j) >= Cardinality({k \in ReadOf(f) : k <= i})
<1>1. ReadOf(f) \subseteq 1 .. n
  BY DEF ReadOf
<1>2. ASSUME i < n PROVE MetBefore(f, i + 1) = Cardinality({j \in ReadOf(f) : j <= i})
  <2>1. {j \in ReadOf(f) : j < i + 1} = {j \in ReadOf(f) : j <= i}
    BY <1>1
  <2>. QED BY <2>1 DEF MetBefore
<1>3. ASSUME NEW j \in ReadOf(f), j > i
      PROVE  MetBefore(f, j) >= Cardinality({k \in ReadOf(f) : k <= i})
  <2> DEFINE a == {k \in ReadOf(f) : k <= i}
             b == {k \in ReadOf(f) : k < j}
  <2>1. a \in SUBSET b
    BY <1>1, <1>3
  <2>2. j - 1 \in 0 .. n /\ j \in 1 .. n
    BY <1>1
  <2>3. b = {k \in ReadOf(f) : k <= j - 1}
    BY <1>1, <2>2
  <2>4. IsFiniteSet(b) /\ Cardinality(b) \in Nat /\ Cardinality(a) \in Nat
    BY <2>2, <2>3, ReadsFinite
  <2>. HIDE DEF a, b
  <2>5. Cardinality(a) <= Cardinality(b)
    BY <2>1, <2>4, FS_Subset
  <2>6. MetBefore(f, j) = Cardinality(b)
    BY DEF MetBefore, b
  <2>. QED BY <2>4, <2>5, <2>6 DEF a
<1>. QED BY <1>2, <1>3

\* What is known after record i: the rows are those of the records read that there was memory
\* for, and either the load goes on, having met nothing that ends it, or it reads no more.
After(t, f, full, i) ==
    {RowAt(t, f, j) : j \in {j \in ReadOf(f) : j <= i /\ MetBefore(f, j) < full}}
Known(t, f, full, i, a) ==
    LET met == Cardinality({j \in ReadOf(f) : j <= i})
    IN  \/ /\ Going(a, After(t, f, full, i), met, 0)
           /\ met <= full /\ \A k \in 1 .. i : f[k].bad <= 1
        \/ /\ \E x : Stopped(a, After(t, f, full, i), x)
           /\ \A j \in ReadOf(f) : j > i => MetBefore(f, j) >= full

\* One more record keeps what is known.
LEMMA KnownAfter ==
    ASSUME NEW t, NEW n \in Nat, NEW f, DOMAIN f = 1 .. n, IsFile(t, f), NEW full \in Nat,
           NEW i \in 1 .. n, NEW a, NEW b, Known(t, f, full, i - 1, a),
           NEW m \in Nat \ {0}, Table(t).more = m - 1,
           NEW g, g[0] = a, g[m] = b, ReadsRecord(t, f[i], full, m, g)
    PROVE  Known(t, f, full, i, b)
<1> DEFINE R == ReadOf(f)
           R0 == {j \in R : j <= i - 1}
           R1 == {j \in R : j <= i}
           rows0 == After(t, f, full, i - 1)
           rows1 == After(t, f, full, i)
           met == Cardinality(R0)
<1>1. m \in Nat \ {0} /\ Table(t).more = m - 1 /\ f[i].bad \in 0 .. m
  BY DEF IsFile
<1>2. i - 1 \in 0 .. n /\ i \in 0 .. n /\ i - 1 < n /\ R \subseteq 1 .. n
  BY DEF ReadOf
<1>3. IsFiniteSet(R0) /\ met \in Nat /\ IsFiniteSet(R1) /\ Cardinality(R1) \in Nat
  BY <1>2, ReadsFinite
<1>4. MetBefore(f, i) = met
  <2>1. i - 1 + 1 = i
    OBVIOUS
  <2>. QED BY <1>2, <2>1, MetIs
<1>5. \A j \in R : j > i => MetBefore(f, j) >= Cardinality(R1)
  BY <1>2, MetIs
<1>6. i \in R /\ met < full => rows1 = rows0 \cup {RowAt(t, f, i)}
  BY <1>2, <1>4 DEF After
<1>7. ~(i \in R /\ met < full) => rows1 = rows0
  BY <1>2, <1>3, <1>4 DEF After
<1>8. i \in R => Cardinality(R1) = met + 1
  <2>1. i \in R => R1 = R0 \cup {i} /\ i \notin R0
    BY <1>2
  <2>. HIDE DEF R0, R1, R
  <2>. QED BY <2>1, <1>3, FS_AddElement
<1>9. i \notin R => R1 = R0
  BY <1>2
<1>10. g[0] = a /\ g[m] = b /\ ReadsRecord(t, f[i], full, m, g)
  OBVIOUS
<1>. HIDE DEF R0, R1, rows0, rows1, met
<1>11. ASSUME NEW x, Stopped(a, rows0, x), \A j \in R : j > i - 1 => MetBefore(f, j) >= full
       PROVE  Known(t, f, full, i, b)
  <2>1. b = a
    <3> DEFINE r == f[i]
    <3>1. m \in Nat /\ ReadsRecord(t, r, full, m, g)
      BY <1>1, <1>10
    <3>. HIDE DEF r
    <3>2. g[0] = a /\ g[m] = b /\ Stopped(a, rows0, x)
      BY <1>10, <1>11
    <3>. QED BY <3>1, <3>2, RecordAfterStop
  <2>2. ~(i \in R /\ met < full)
    BY <1>3, <1>4, <1>11
  <2>3. Stopped(b, rows1, x)
    BY <1>7, <1>11, <2>1, <2>2
  <2>4. \A j \in R : j > i => MetBefore(f, j) >= full
    BY <1>2, <1>11
  <2>. QED BY <2>3, <2>4 DEF Known, rows1
<1>12. ASSUME Going(a, rows0, met, 0), met <= full, \A k \in 1 .. i - 1 : f[k].bad <= 1
       PROVE  Known(t, f, full, i, b)
  <2>2. /\ f[i].bad = 1 => b = a
        /\ f[i].bad > 1 => Stopped(b, rows0, met)
        /\ f[i].bad = 0 /\ met = full => Stopped(b, rows0, met)
        /\ f[i].bad = 0 /\ met # full => Going(b, With(t, rows0, f[i], met), met + 1, 0)
    <3> DEFINE r == f[i]
    <3>1. r.bad \in 0 .. m /\ ReadsRecord(t, r, full, m, g)
      BY <1>1, <1>10
    <3>. HIDE DEF r
    <3>2. /\ r.bad = 1 => b = a
          /\ r.bad > 1 => Stopped(b, rows0, met)
          /\ r.bad = 0 /\ met = full => Stopped(b, rows0, met)
          /\ r.bad = 0 /\ met # full => Going(b, With(t, rows0, r, met), met + 1, 0)
      BY <1>1, <1>10, <1>12, <3>1, RecordIsRead
    <3>. QED BY <3>2 DEF r
  <2>3. f[i].bad = 0 => i \in R
    <3>1. f[i].bad = 0 => \A k \in 1 .. i : f[k].bad <= 1
      BY <1>12
    <3>. QED BY <1>2, <3>1 DEF ReadOf
  <2>4. CASE f[i].bad = 1
    <3>1. i \notin R
      BY <2>4 DEF ReadOf
    <3>2. Going(b, rows1, Cardinality(R1), 0)
      BY <1>7, <1>9, <1>12, <2>2, <2>4, <3>1 DEF met
    <3>3. Cardinality(R1) <= full
      BY <1>9, <1>12, <3>1 DEF met
    <3>4. \A k \in 1 .. i : f[k].bad <= 1
      BY <1>12, <2>4
    <3>. QED BY <3>2, <3>3, <3>4 DEF Known, rows1, R1
  <2>5. CASE f[i].bad > 1
    <3>1. i \notin R
      BY <2>5 DEF ReadOf
    <3>2. Stopped(b, rows1, met)
      BY <1>7, <2>2, <2>5, <3>1
    <3>3. \A j \in R : ~(j > i)
      <4>1. ASSUME NEW j \in R, j > i PROVE FALSE
        <5>1. i \in 1 .. j
          BY <1>2, <4>1
        <5>. QED BY <2>5, <5>1, <1>1, <4>1 DEF ReadOf
      <4>. QED BY <4>1
    <3>. QED BY <3>2, <3>3 DEF Known, rows1
  <2>6. CASE f[i].bad = 0 /\ met = full
    <3>1. i \in R
      BY <2>3, <2>6
    <3>2. Stopped(b, rows1, met)
      BY <1>3, <1>7, <2>2, <2>6
    <3>3. \A j \in R : j > i => MetBefore(f, j) >= full
      <4>1. ASSUME NEW j \in R, j > i PROVE MetBefore(f, j) >= full
        <5>1. MetBefore(f, j) >= met + 1
          BY <1>5, <1>8, <3>1, <4>1
        <5>2. j - 1 \in 0 .. n /\ j \in 1 .. n /\ j - 1 + 1 = j /\ j - 1 < n
          BY <1>2
        <5>3. MetBefore(f, j) \in Nat
          <6>1. MetBefore(f, j - 1 + 1) = Cardinality({k \in ReadOf(f) : k <= j - 1})
            BY ZenonT(60), <5>2, MetIs
          <6>. QED BY <5>2, <6>1, ReadsFinite
        <5>. QED BY <1>3, <2>6, <5>1, <5>3
      <4>. QED BY <4>1
    <3>. QED BY <3>2, <3>3 DEF Known, rows1
  <2>7. CASE f[i].bad = 0 /\ met # full
    <3>1. i \in R /\ met < full
      BY <1>3, <1>12, <2>3, <2>7
    <3>2. With(t, rows0, f[i], met) = rows1
      BY <1>4, <1>6, <3>1 DEF With, RowAt
    <3>3. Going(b, rows1, Cardinality(R1), 0)
      BY <1>8, <2>2, <2>7, <3>1, <3>2
    <3>4. Cardinality(R1) <= full
      BY <1>3, <1>8, <3>1
    <3>5. \A k \in 1 .. i : f[k].bad <= 1
      BY <1>12, <2>7
    <3>. QED BY <3>3, <3>4, <3>5 DEF Known, rows1, R1
  <2>. QED BY <1>1, <2>4, <2>5, <2>6, <2>7
<1>. QED BY <1>11, <1>12 DEF Known, rows0, met, R0

\* A load makes the rows of the records that it can read, as many as there is memory for,
\* with the lines of the aliases in the order of these records.
LEMMA RowsAre ==
    ASSUME NEW t, NEW n \in Nat, NEW f, DOMAIN f = 1 .. n, IsFile(t, f), NEW full \in Nat
    PROVE  RowsOf(t, f, full) = {RowAt(t, f, j) : j \in {j \in ReadOf(f) : MetBefore(f, j) < full}}
<1>1. PICK h : /\ h[0] = Nothing
               /\ RowsOf(t, f, full) = h[n].rows
               /\ \A i \in 1 .. n : \E g : /\ g[0] = h[i - 1] /\ g[Table(t).more + 1] = h[i]
                                           /\ ReadsRecord(t, f[i], full, Table(t).more + 1, g)
  BY RecordsAre
<1> DEFINE T == {i \in Nat : i <= n => Known(t, f, full, i, h[i])}
<1>2. 0 \in T
  <2>1. {j \in ReadOf(f) : j <= 0} = {}
    BY DEF ReadOf
  <2>2. Cardinality({j \in ReadOf(f) : j <= 0}) = 0
    BY <2>1, FS_EmptySet
  <2>3. After(t, f, full, 0) = {}
    BY DEF ReadOf, After
  <2>4. Going(Nothing, {}, 0, 0)
    BY DEF Nothing, Going, Fields
  <2>5. Known(t, f, full, 0, h[0])
    <3>1. Going(h[0], After(t, f, full, 0), Cardinality({j \in ReadOf(f) : j <= 0}), 0)
      BY <1>1, <2>2, <2>3, <2>4
    <3>2. Cardinality({j \in ReadOf(f) : j <= 0}) <= full
      BY <2>2
    <3>3. \A k \in 1 .. 0 : f[k].bad <= 1
      OBVIOUS
    <3>. QED BY <3>1, <3>2, <3>3 DEF Known
  <2>. QED BY <2>5
<1>3. ASSUME NEW i \in Nat, i \in T PROVE i + 1 \in T
  <2>. SUFFICES ASSUME i + 1 <= n PROVE Known(t, f, full, i + 1, h[i + 1])
    OBVIOUS
  <2> DEFINE k == i + 1
  <2>1. k \in 1 .. n /\ k - 1 = i /\ i <= n
    OBVIOUS
  <2>2. Known(t, f, full, k - 1, h[k - 1])
    BY <1>3, <2>1
  <2> DEFINE m == Table(t).more + 1
  <2>3. PICK g : g[0] = h[k - 1] /\ g[m] = h[k] /\ ReadsRecord(t, f[k], full, m, g)
    BY <1>1, <2>1
  <2>m. m \in Nat \ {0} /\ Table(t).more = m - 1
    BY DEF IsFile
  <2>. HIDE DEF k, m
  <2>4. Known(t, f, full, k, h[k])
    BY <2>1, <2>2, <2>3, <2>m, KnownAfter
  <2>. QED BY <2>4 DEF k
<1>. HIDE DEF T
<1>4. n \in T
  BY <1>2, <1>3, Reads!NatSetInduction
<1>5. h[n].rows = After(t, f, full, n)
  BY <1>4 DEF T, Known, Going, Stopped
<1>6. After(t, f, full, n) = {RowAt(t, f, j) : j \in {j \in ReadOf(f) : MetBefore(f, j) < full}}
  BY DEF After, ReadOf
<1>. QED BY <1>1, <1>5, <1>6

-----------------------------------------------------------------------------
(* What a file of a cached table may say *)

\* How many lines a record has is a number, and one for the entries of the identities.
LEMMA IscsiMore == \A t \in init_iscsiMib : Iscsi_table[t].more \in Nat
BY SMTT(60)
   DEF init_iscsiMib, Iscsi_table, iscsiTargetAttributes_table,
   iscsiInstAttributes_table, iscsiInstSsnErrStats_table, iscsiPortalAttributes_table,
   iscsiTgtPortalAttributes_table, iscsiNodeAttributes_table, iscsiTgtLoginStats_table,
   iscsiTgtLogoutStats_table, iscsiTgtAuthAttributes_table, iscsiSessionAttributes_table,
   iscsiSessionStats_table, iscsiSsnCxnErrStats_table, iscsiCxnAttributes_table

LEMMA ScsiMore == \A t \in init_scsiMib : Scsi_table[t].more \in Nat
BY SMTT(60)
   DEF init_scsiMib, Scsi_table, scsiTgtDevTable_table,
   scsiInstanceTable_table, scsiDeviceTable_table, scsiPortTable_table,
   scsiTransportTable_table, scsiTgtPortTable_table, scsiAuthorizedIntrTable_table,
   scsiAttIntrPortTable_table, scsiLuTable_table

LEMMA IpsAuthMore == \A t \in init_ipsAuthMib : IpsAuth_table[t].more = 0
BY DEF init_ipsAuthMib, IpsAuth_table, ipsAuthInstAttr_table, ipsAuthIdentAttr_table,
   ipsAuthIdentNameAttr_table, ipsAuthCredAttr_table, ipsAuthCredChapAttr_table

\* The tables are each of one of the three modules.
LEMMA TablesApart ==
    ASSUME NEW t \in Tables \ {SsnFailure}
    PROVE  \/ /\ t \in init_iscsiMib /\ t \notin init_scsiMib /\ t \notin init_ipsAuthMib
              /\ Table(t) = Iscsi_table[t] /\ \A k : Load(t, k) = Iscsi_load(t, k)
           \/ /\ t \in init_scsiMib /\ t \notin init_iscsiMib /\ t \notin init_ipsAuthMib
              /\ Table(t) = Scsi_table[t] /\ \A k : Load(t, k) = Scsi_load(t, k)
           \/ /\ t \in init_ipsAuthMib /\ t \notin init_iscsiMib /\ t \notin init_scsiMib
              /\ Table(t) = IpsAuth_table[t] /\ \A k : Load(t, k) = IpsAuth_load(t, k)
<1>1. CASE t \in init_iscsiMib
  <2>1. t \notin init_scsiMib /\ t \notin init_ipsAuthMib
    BY <1>1 DEF init_iscsiMib, init_scsiMib, init_ipsAuthMib
  <2>. QED BY <1>1, <2>1 DEF Table, Load
<1>2. CASE t \in init_scsiMib
  <2>1. t \notin init_iscsiMib /\ t \notin init_ipsAuthMib
    BY <1>2 DEF init_iscsiMib, init_scsiMib, init_ipsAuthMib
  <2>. QED BY <1>2, <2>1 DEF Table, Load
<1>3. CASE t \in init_ipsAuthMib
  <2>1. t \notin init_iscsiMib /\ t \notin init_scsiMib
    BY <1>3 DEF init_iscsiMib, init_scsiMib, init_ipsAuthMib
  <2>. QED BY <1>3, <2>1 DEF Table, Load
<1>. QED BY <1>1, <1>2, <1>3 DEF Tables

\* No line of a record is bad but those that it has.
LEMMA WorstLines ==
    ASSUME NEW t \in Tables \ Polled
    PROVE  Table(t).more \in Nat /\ WorstLine(t) \in 0 .. Table(t).more + 1
<1>1. CASE t \notin init_ipsAuthMib
  <2>1. Table(t).more \in Nat
    BY <1>1, TablesApart, IscsiMore, ScsiMore DEF Polled
  <2>2. WorstLine(t) = Table(t).more + 1
    BY <1>1 DEF WorstLine
  <2>. QED BY <2>1, <2>2
<1>2. CASE t \in init_ipsAuthMib
  <2>1. Table(t).more = 0
    BY <1>2, TablesApart, IpsAuthMore DEF Polled
  <2>2. WorstLine(t) \in {0, 1}
    BY <1>2 DEF WorstLine
  <2>. QED BY <2>1, <2>2
<1>. QED BY <1>1, <1>2

\* What a file may say: as many records as the shape, each bad no later than in its last line.
LEMMA ContentsAreFiles ==
    ASSUME NEW t \in Tables \ Polled, NEW f \in Contents(t), f # None
    PROVE  IsFile(t, f) /\ Len(f) \in Nat /\ DOMAIN f = 1 .. Len(f)
<1> DEFINE shapes == {s \in Shapes : \A i \in DOMAIN s : s[i].bad <= WorstLine(t)}
           files == {[i \in DOMAIN s |-> Record(t, s[i])] : s \in shapes}
<1>1. f \in files
  BY DEF Contents
<1>2. PICK s \in shapes : f = [i \in DOMAIN s |-> Record(t, s[i])]
  BY <1>1
<1>3. s \in Seq([last : {1, 2}, variant : {1, 2}, bad : 0 .. 4])
  BY <1>2, AgentAssumption
<1>4. /\ Len(s) \in Nat /\ DOMAIN s = 1 .. Len(s)
      /\ \A i \in DOMAIN s : s[i] \in [last : {1, 2}, variant : {1, 2}, bad : 0 .. 4]
  <2> DEFINE S == [last : {1, 2}, variant : {1, 2}, bad : 0 .. 4]
  <2>1. s \in Seq(S)
    BY <1>3
  <2>. HIDE DEF S
  <2>2. Len(s) \in Nat /\ DOMAIN s = 1 .. Len(s) /\ \A i \in DOMAIN s : s[i] \in S
    BY <2>1
  <2>. QED BY <2>2 DEF S
<1>5. \A i \in DOMAIN f : f[i].bad \in 0 .. Table(t).more + 1
  <2>. SUFFICES ASSUME NEW i \in DOMAIN f PROVE f[i].bad \in 0 .. Table(t).more + 1
    OBVIOUS
  <2>1. i \in DOMAIN s /\ f[i] = Record(t, s[i])
    BY <1>2
  <2>2. f[i].bad = s[i].bad
    BY <2>1 DEF Record
  <2>3. s[i].bad \in 0 .. 4
    BY <2>1, <1>4
  <2>4. s[i].bad <= WorstLine(t)
    BY <1>2, <2>1
  <2>. QED BY <2>2, <2>3, <2>4, WorstLines
<1>6. DOMAIN f = 1 .. Len(s)
  BY <1>2, <1>4
<1>7. Len(f) = Len(s)
  <2>. f = [i \in 1 .. Len(s) |-> f[i]]
    BY <1>2, <1>4
  <2>. QED BY <1>4, <1>6
<1>. QED BY <1>4, <1>5, <1>6, <1>7, WorstLines DEF IsFile

-----------------------------------------------------------------------------
(* The invariant of a load *)

\* The list of a cached table is what a load made of the file as it then was, all of it
\* when there always was memory.
LoadInv ==
    /\ tab \in Tables
    /\ tab \notin Polled => file \in Contents(tab) /\ loaded \in Contents(tab) \cup {None}
    /\ failures \in Nat
    /\ tab \in Polled => valid = FALSE
    /\ valid /\ failures = 0 =>
         list = IF loaded = None THEN {} ELSE RowsOf(tab, loaded, Len(loaded))

\* Nothing is loaded when the agent is down.
LEMMA InitLoad == Init => LoadInv
BY DEF Init, LoadInv

\* A request keeps what the last load made, or makes it of the file as it is.
LEMMA RefreshLoads ==
    ASSUME LoadInv, tab \notin Polled, Refresh, UNCHANGED <<tab, file>>
    PROVE  LoadInv'
<1>1. file \in Contents(tab) /\ file' = file /\ tab' = tab /\ tab \in Tables
  BY DEF LoadInv
<1>2. CASE UNCHANGED <<list, valid, age, failures, loaded, lag>>
  BY <1>1, <1>2 DEF LoadInv
<1>3. CASE loaded' = file /\ file = None /\ list' = {} /\ failures' = failures
  BY <1>1, <1>3 DEF LoadInv
<1>4. CASE /\ loaded' = file /\ file # None
           /\ failures' = failures + IF list' = RowsOf(tab, file, Len(file)) THEN 0 ELSE 1
  <2>1. failures' \in Nat /\ (failures' = 0 => list' = RowsOf(tab, file, Len(file)))
    BY <1>4 DEF LoadInv
  <2>2. loaded' # None /\ loaded' = file
    BY <1>4
  <2>. QED BY <1>1, <2>1, <2>2 DEF LoadInv
<1>. QED BY <1>2, <1>3, <1>4 DEF Refresh

\* What a poll leaves alone.
LEMMA PollLeaves ==
    ASSUME LoadInv, NEW c \in BOOLEAN, PollLoad(c)
    PROVE  /\ UNCHANGED <<tab, file, valid, loaded>>
           /\ failures' \in Nat /\ tab \in Polled
<1>1. UNCHANGED <<tab, file, valid, loaded>>
  BY DEF PollLoad, kernel
<1>2. tab \in Polled
  BY DEF PollLoad, Polled
<1>3. PICK full \in Nat : failures' = failures + IF file # None /\ full < Len(file) THEN 1 ELSE 0
  BY DEF PollLoad
<1>. QED BY <1>1, <1>2, <1>3 DEF LoadInv

\* No step makes the list of a valid cache anything else.
LEMMA StepLoad == LoadInv /\ [Next]_vars => LoadInv'
<1>. SUFFICES ASSUME LoadInv, [Next]_vars PROVE LoadInv'
  OBVIOUS
<1>1. ASSUME Change PROVE LoadInv'
  BY <1>1 DEF Change, Writes, LoadInv, statics
<1>2. ASSUME NEW f, Writes(f), tab \in Polled PROVE LoadInv'
  BY <1>2 DEF Writes, LoadInv, statics
<1>3. ASSUME Module PROVE LoadInv'
  BY <1>2, <1>3 DEF Module
<1>4. ASSUME NEW i \in {1, 2}, Create(i) \/ Delete(i) PROVE LoadInv'
  BY <1>2, <1>4 DEF Create, Delete
<1>5. ASSUME NEW j, NEW w, tab \in Polled, Happens(j, w) PROVE LoadInv'
  BY <1>2, <1>5 DEF Happens
<1>6. ASSUME NEW j \in {1, 2}, StatusChanges(j) PROVE LoadInv'
  BY <1>5, <1>6 DEF StatusChanges, Polled
<1>7. ASSUME NEW j \in {1, 2}, NEW n \in Initiator, NEW type \in {2, 4, 5},
             LoginFails(j, n, type)
      PROVE  LoadInv'
  BY <1>5, <1>7 DEF LoginFails, Polled
<1>8. ASSUME NEW j \in {1, 2}, NEW n \in Initiator, NEW type \in {2, 4},
             SessionFails(j, n, type)
      PROVE  LoadInv'
  BY <1>5, <1>8 DEF SessionFails, Polled
<1>9. ASSUME Tick PROVE LoadInv'
  BY <1>9 DEF Tick, LoadInv
<1>10. ASSUME NEW c \in BOOLEAN, PollLoad(c) PROVE LoadInv'
  BY <1>10, PollLeaves DEF LoadInv
<1>11. ASSUME Start \/ Poll PROVE LoadInv'
  <2>1. CASE tab \in Polled
    BY <1>10, <1>11, <2>1 DEF Start, Poll
  <2>2. CASE tab \notin Polled
    BY <1>11, <2>2 DEF Start, Poll, LoadInv, kernel, statics
  <2>. QED BY <2>1, <2>2
<1>12. ASSUME Stop PROVE LoadInv'
  BY <1>12 DEF Stop, Statics, LoadInv, kernel
<1>13. ASSUME Release PROVE LoadInv'
  BY <1>13 DEF Release, LoadInv, kernel
<1>14. ASSUME GetNext PROVE LoadInv'
  <2>1. CASE tab \in Polled
    BY <1>14, <2>1 DEF GetNext, LoadInv, kernel
  <2>2. CASE tab \notin Polled
    BY <1>14, <2>2, RefreshLoads DEF GetNext, kernel
  <2>. QED BY <2>1, <2>2
<1>15. ASSUME UNCHANGED vars PROVE LoadInv'
  BY <1>15 DEF vars, kernel, statics, LoadInv
<1>. QED BY <1>1, <1>3, <1>4, <1>6, <1>7, <1>8, <1>9, <1>11, <1>12, <1>13, <1>14, <1>15 DEF Next

\* A load for which there is memory takes a row of every record that is read.
LEMMA WholeFile ==
    ASSUME NEW t \in Tables \ Polled, NEW f \in Contents(t), f # None
    PROVE  RowsOf(t, f, Len(f)) = {RowAt(t, f, j) : j \in ReadOf(f)}
<1>1. IsFile(t, f) /\ Len(f) \in Nat /\ DOMAIN f = 1 .. Len(f)
  BY ContentsAreFiles
<1> DEFINE n == Len(f)
<1>2. RowsOf(t, f, n) = {RowAt(t, f, j) : j \in {j \in ReadOf(f) : MetBefore(f, j) < n}}
  BY <1>1, RowsAre
<1>3. \A j \in ReadOf(f) : MetBefore(f, j) < n
  <2>. SUFFICES ASSUME NEW j \in ReadOf(f) PROVE MetBefore(f, j) < n
    OBVIOUS
  <2>1. j \in 1 .. n
    BY <1>1 DEF ReadOf
  <2>2. {i \in ReadOf(f) : i < j} \subseteq 1 .. j - 1
    BY <1>1, <2>1 DEF ReadOf
  <2>3. IsFiniteSet(1 .. j - 1) /\ Cardinality(1 .. j - 1) = j - 1
    BY <2>1, FS_Interval
  <2>4. MetBefore(f, j) \in Nat /\ MetBefore(f, j) <= j - 1
    BY <2>2, <2>3, FS_Subset, FS_CardinalityType DEF MetBefore
  <2>. QED BY <2>1, <2>4
<1>. QED BY <1>2, <1>3

\* A cached list has exactly the rows of the file it was made of.
THEOREM LoadsTakeWholePrefix == Spec => []LoadTakesWholePrefix
<1>1. LoadInv => LoadTakesWholePrefix
  <2>. SUFFICES ASSUME LoadInv, valid, failures = 0 PROVE LoadTakesWholePrefix
    BY DEF LoadTakesWholePrefix
  <2> DEFINE recs == IF loaded = None THEN <<>> ELSE loaded
  <2>1. tab \in Tables \ Polled /\ loaded \in Contents(tab) \cup {None}
    BY DEF LoadInv
  <2>2. CASE loaded = None
    <3>1. list = {} /\ recs = <<>> /\ DOMAIN <<>> = {}
      BY <2>2 DEF LoadInv
    <3>. HIDE DEF recs
    <3>2. ReadOf(recs) = {}
      BY <3>1 DEF ReadOf
    <3>3. list = {RowAt(tab, recs, j) : j \in ReadOf(recs)}
      BY <3>1, <3>2
    <3>. QED BY <3>3 DEF recs, RowAt, ReadOf, MetBefore, LoadTakesWholePrefix
  <2>3. CASE loaded # None
    <3>1. recs = loaded /\ list = RowsOf(tab, loaded, Len(loaded))
      BY <2>3 DEF LoadInv
    <3>. HIDE DEF recs
    <3>2. list = {RowAt(tab, recs, j) : j \in ReadOf(recs)}
      BY <2>1, <2>3, <3>1, WholeFile
    <3>. QED BY <3>2 DEF recs, RowAt, ReadOf, MetBefore, LoadTakesWholePrefix
  <2>. QED BY <2>2, <2>3
<1>. QED BY <1>1, InitLoad, StepLoad, PTL DEF Spec

-----------------------------------------------------------------------------
(* What names a row *)

\* The first n words of a record of this table name it, and the row made of the words k has
\* the objects of the index, and no other that tells rows apart.
Keyed(table, k, row, n) ==
    /\ Len(table.index) \in Nat \ {0} /\ DOMAIN table.index = 1 .. Len(table.index)
    /\ IndexObjects \cap DOMAIN row = {table.index[i] : i \in DOMAIN table.index}
    /\ Len(table.line) \in Nat /\ DOMAIN table.line = 1 .. Len(table.line)
    /\ {i \in DOMAIN table.line : table.line[i] = Key} = 1 .. n
    /\ (\A i \in 1 .. n : k[i] \in Int) =>
         \A i \in DOMAIN table.index : row[table.index[i]] \in Int

\* The tables of iscsiMib, with the words that name their records,
LEMMA IscsiKeyed ==
    ASSUME NEW t \in init_iscsiMib, NEW k
    PROVE  \E n \in 1 .. 4 : Keyed(Iscsi_table[t], k, Iscsi_load(t, k), n)
<1>. USE DEF Keyed, IndexObjects, Key, Num, OrZero, Text, AddrType, Proto, Digests, YesNo,
        LoginFailType, Identity, SsnType, AuthType, AliasWord, U64, CxnState, DigestWord
<1>1. Keyed(iscsiInstAttributes_table, k, iscsiInstAttributes_load(k), 1)
  BY SMTT(60) DEF iscsiInstAttributes_table, iscsiInstAttributes_LINE, iscsiInstAttributes_load
<1>2. Keyed(iscsiInstSsnErrStats_table, k, iscsiInstSsnErrStats_load(k), 1)
  BY SMTT(60) DEF iscsiInstSsnErrStats_table, iscsiInstSsnErrStats_LINE,
     iscsiInstSsnErrStats_load
<1>3. Keyed(iscsiPortalAttributes_table, k, iscsiPortalAttributes_load(k), 2)
  BY SMTT(60) DEF iscsiPortalAttributes_table, iscsiPortalAttributes_LINE,
     iscsiPortalAttributes_load
<1>4. Keyed(iscsiTgtPortalAttributes_table, k, iscsiTgtPortalAttributes_load(k), 3)
  BY SMTT(60) DEF iscsiTgtPortalAttributes_table, iscsiTgtPortalAttributes_LINE,
     iscsiTgtPortalAttributes_load
<1>5. Keyed(iscsiNodeAttributes_table, k, iscsiNodeAttributes_load(k), 2)
  BY SMTT(60) DEF iscsiNodeAttributes_table, iscsiNodeAttributes_LINE, iscsiNodeAttributes_load
<1>6. Keyed(iscsiTargetAttributes_table, k, iscsiTargetAttributes_load(k), 2)
  BY SMTT(60) DEF iscsiTargetAttributes_table, iscsiTargetAttributes_LINE,
     iscsiTargetAttributes_load
<1>7. Keyed(iscsiTgtLoginStats_table, k, iscsiTgtLoginStats_load(k), 2)
  <2> DEFINE table == iscsiTgtLoginStats_table
             row == iscsiTgtLoginStats_load(k)
  <2>. HIDE DEF Keyed
  <2>1. Len(table.index) \in Nat \ {0} /\ DOMAIN table.index = 1 .. Len(table.index)
    BY DEF iscsiTgtLoginStats_table
  <2>2. IndexObjects \cap DOMAIN row = {table.index[i] : i \in DOMAIN table.index}
    <3>1. IndexObjects \cap DOMAIN row = {"iscsiInstIndex", "iscsiNodeIndex"}
      BY DEF iscsiTgtLoginStats_load
    <3>. QED BY <3>1 DEF iscsiTgtLoginStats_table
  <2>3. Len(table.line) \in Nat /\ DOMAIN table.line = 1 .. Len(table.line)
    BY SMTT(60) DEF iscsiTgtLoginStats_table, iscsiTgtLoginStats_LINE
  <2>4. {i \in DOMAIN table.line : table.line[i] = Key} = 1 .. 2
    BY SMTT(60) DEF iscsiTgtLoginStats_table, iscsiTgtLoginStats_LINE
  <2>5. (\A i \in 1 .. 2 : k[i] \in Int) =>
          \A i \in DOMAIN table.index : row[table.index[i]] \in Int
    BY DEF iscsiTgtLoginStats_table, iscsiTgtLoginStats_load
  <2>. HIDE DEF table, row
  <2>. QED BY <2>1, <2>2, <2>3, <2>4, <2>5 DEF Keyed, table, row
<1>8. Keyed(iscsiTgtLogoutStats_table, k, iscsiTgtLogoutStats_load(k), 2)
  BY SMTT(60) DEF iscsiTgtLogoutStats_table, iscsiTgtLogoutStats_LINE, iscsiTgtLogoutStats_load
<1>9. Keyed(iscsiTgtAuthAttributes_table, k, iscsiTgtAuthAttributes_load(k), 3)
  BY SMTT(60) DEF iscsiTgtAuthAttributes_table, iscsiTgtAuthAttributes_LINE,
     iscsiTgtAuthAttributes_load
<1>10. Keyed(iscsiSessionAttributes_table, k, iscsiSessionAttributes_load(k), 3)
  BY SMTT(60) DEF iscsiSessionAttributes_table, iscsiSessionAttributes_LINE,
     iscsiSessionAttributes_load
<1>11. Keyed(iscsiSessionStats_table, k, iscsiSessionStats_load(k), 3)
  BY SMTT(60) DEF iscsiSessionStats_table, iscsiSessionStats_LINE, iscsiSessionStats_load
<1>12. Keyed(iscsiSsnCxnErrStats_table, k, iscsiSsnCxnErrStats_load(k), 3)
  BY SMTT(60) DEF iscsiSsnCxnErrStats_table, iscsiSsnCxnErrStats_LINE, iscsiSsnCxnErrStats_load
<1>13. Keyed(iscsiCxnAttributes_table, k, iscsiCxnAttributes_load(k), 4)
  BY SMTT(60) DEF iscsiCxnAttributes_table, iscsiCxnAttributes_LINE, iscsiCxnAttributes_load
<1>. HIDE DEF Keyed
<1>. QED BY <1>1, <1>2, <1>3, <1>4, <1>5, <1>6, <1>7, <1>8, <1>9, <1>10, <1>11, <1>12, <1>13,
         SMTT(60) DEF init_iscsiMib, Iscsi_table, Iscsi_load

\* those of scsiMib
LEMMA ScsiKeyed ==
    ASSUME NEW t \in init_scsiMib, NEW k
    PROVE  \E n \in 1 .. 4 : Keyed(Scsi_table[t], k, Scsi_load(t, k), n)
<1>. USE DEF Keyed, IndexObjects, Key, Num, Text, DevStatus, U64, WwnWord, LuStatus
<1>1. Keyed(scsiInstanceTable_table, k, scsiInstanceTable_load(k), 1)
  BY SMTT(60) DEF scsiInstanceTable_table, scsiInstanceTable_LINE, scsiInstanceTable_load
<1>2. Keyed(scsiDeviceTable_table, k, scsiDeviceTable_load(k), 2)
  BY SMTT(60) DEF scsiDeviceTable_table, scsiDeviceTable_LINE, scsiDeviceTable_load
<1>3. Keyed(scsiPortTable_table, k, scsiPortTable_load(k), 3)
  BY SMTT(60) DEF scsiPortTable_table, scsiPortTable_LINE, scsiPortTable_load
<1>4. Keyed(scsiTransportTable_table, k, scsiTransportTable_load(k), 3)
  BY SMTT(60) DEF scsiTransportTable_table, scsiTransportTable_LINE, scsiTransportTable_load
<1>5. Keyed(scsiTgtDevTable_table, k, scsiTgtDevTable_load(k), 2)
  BY SMTT(60) DEF scsiTgtDevTable_table, scsiTgtDevTable_LINE, scsiTgtDevTable_load
<1>6. Keyed(scsiTgtPortTable_table, k, scsiTgtPortTable_load(k), 3)
  BY SMTT(60) DEF scsiTgtPortTable_table, scsiTgtPortTable_LINE, scsiTgtPortTable_load
<1>7. Keyed(scsiAuthorizedIntrTable_table, k, scsiAuthorizedIntrTable_load(k), 4)
  <2> DEFINE table == scsiAuthorizedIntrTable_table
             row == scsiAuthorizedIntrTable_load(k)
  <2>1. table.index = <<"scsiInstIndex", "scsiDeviceIndex", "scsiAuthIntrTgtPortIndex",
                        "scsiAuthIntrIndex">>
    BY DEF scsiAuthorizedIntrTable_table
  <2>2. IndexObjects \cap DOMAIN row = {table.index[i] : i \in DOMAIN table.index}
    BY <2>1 DEF scsiAuthorizedIntrTable_load
  <2>3. {i \in DOMAIN table.line : table.line[i] = Key} = 1 .. 4
    <3>1. /\ DOMAIN table.line = 1 .. 12
          /\ \A i \in 1 .. 4 : table.line[i] = Key
          /\ \A i \in 5 .. 12 : table.line[i] # Key
      BY SMTT(30) DEF scsiAuthorizedIntrTable_table, scsiAuthorizedIntrTable_LINE
    <3>. HIDE DEF table
    <3>. QED BY ONLY <3>1
  <2>4. /\ row.scsiInstIndex = k[1] /\ row.scsiDeviceIndex = k[2]
        /\ row.scsiAuthIntrTgtPortIndex = k[3] /\ row.scsiAuthIntrIndex = k[4]
    BY DEF scsiAuthorizedIntrTable_load
  <2>. QED BY <2>1, <2>2, <2>3, <2>4
<1>8. Keyed(scsiAttIntrPortTable_table, k, scsiAttIntrPortTable_load(k), 4)
  BY SMTT(60) DEF scsiAttIntrPortTable_table, scsiAttIntrPortTable_LINE,
     scsiAttIntrPortTable_load
<1>9. Keyed(scsiLuTable_table, k, scsiLuTable_load(k), 3)
  BY SMTT(60) DEF scsiLuTable_table, scsiLuTable_LINE, scsiLuTable_load
<1>. HIDE DEF Keyed
<1>. QED BY <1>1, <1>2, <1>3, <1>4, <1>5, <1>6, <1>7, <1>8, <1>9, SMTT(60) DEF init_scsiMib,
         Scsi_table, Scsi_load

\* and those of ipsAuthMib.
LEMMA IpsAuthKeyed ==
    ASSUME NEW t \in init_ipsAuthMib, NEW k
    PROVE  \E n \in 1 .. 4 : Keyed(IpsAuth_table[t], k, IpsAuth_load(t, k), n)
<1>. USE DEF Keyed, IndexObjects, Key, Text, Enforced
<1>1. Keyed(ipsAuthInstAttr_table, k, ipsAuthInstAttr_load(k), 1)
  <2> DEFINE table == ipsAuthInstAttr_table
             row == ipsAuthInstAttr_load(k)
  <2>1. table.index = <<"ipsAuthInstIndex">> /\ table.line = <<Key>>
    BY DEF ipsAuthInstAttr_table, ipsAuthInstAttr_LINE
  <2>2. IndexObjects \cap DOMAIN row = {table.index[i] : i \in DOMAIN table.index}
    BY <2>1 DEF ipsAuthInstAttr_load
  <2>3. {i \in DOMAIN table.line : table.line[i] = Key} = 1 .. 1
    BY <2>1
  <2>4. row.ipsAuthInstIndex = 1
    BY DEF ipsAuthInstAttr_load, AUTH_INST_INDEX
  <2>. QED BY <2>1, <2>2, <2>3, <2>4
<1>2. Keyed(ipsAuthIdentAttr_table, k, ipsAuthIdentAttr_load(k), 1)
  BY SMTT(60) DEF ipsAuthIdentAttr_table, ipsAuthIdentAttr_LINE, ipsAuthIdentAttr_load,
     AUTH_INST_INDEX
<1>3. Keyed(ipsAuthIdentNameAttr_table, k, ipsAuthIdentNameAttr_load(k), 1)
  BY SMTT(60) DEF ipsAuthIdentNameAttr_table, ipsAuthIdentNameAttr_LINE,
     ipsAuthIdentNameAttr_load, AUTH_INST_INDEX, AUTH_ID_NAME_INDEX
<1>4. Keyed(ipsAuthCredAttr_table, k, ipsAuthCredAttr_load(k), 2)
  BY SMTT(60) DEF ipsAuthCredAttr_table, ipsAuthCredAttr_LINE, ipsAuthCredAttr_load,
     AUTH_INST_INDEX
<1>5. Keyed(ipsAuthCredChapAttr_table, k, ipsAuthCredChapAttr_load(k), 2)
  BY SMTT(60) DEF ipsAuthCredChapAttr_table, ipsAuthCredChapAttr_LINE, ipsAuthCredChapAttr_load,
     AUTH_INST_INDEX
<1>. HIDE DEF Keyed
<1>. QED BY <1>1, <1>2, <1>3, <1>4, <1>5, SMTT(60) DEF init_ipsAuthMib, IpsAuth_table,
         IpsAuth_load

\* Every table that has rows names them.
LEMMA TablesKeyed ==
    ASSUME NEW t \in Tables \ {SsnFailure}, NEW k
    PROVE  Keys(t) \in 1 .. 4 /\ Keyed(Table(t), k, Load(t, k), Keys(t))
<1>1. \E n \in 1 .. 4 : Keyed(Table(t), k, Load(t, k), n)
  <2>1. CASE t \in init_iscsiMib
    <3>1. Table(t) = Iscsi_table[t] /\ Load(t, k) = Iscsi_load(t, k)
      BY <2>1, TablesApart
    <3>. QED BY <2>1, <3>1, IscsiKeyed
  <2>2. CASE t \in init_scsiMib
    <3>1. Table(t) = Scsi_table[t] /\ Load(t, k) = Scsi_load(t, k)
      BY <2>2, TablesApart
    <3>. QED BY <2>2, <3>1, ScsiKeyed
  <2>3. CASE t \in init_ipsAuthMib
    <3>1. Table(t) = IpsAuth_table[t] /\ Load(t, k) = IpsAuth_load(t, k)
      BY <2>3, TablesApart
    <3>. QED BY <2>3, <3>1, IpsAuthKeyed
  <2>. QED BY <2>1, <2>2, <2>3 DEF Tables
<1>2. ASSUME NEW n \in 1 .. 4, Keyed(Table(t), k, Load(t, k), n) PROVE Keys(t) = n
  <2>1. Keys(t) = Cardinality(1 .. n)
    BY <1>2 DEF Keyed, Keys
  <2>2. Cardinality(1 .. n) = IF 1 > n THEN 0 ELSE n - 1 + 1
    BY FS_Interval
  <2>. QED BY <2>1, <2>2
<1>. QED BY <1>1, <1>2

\* The row has the objects of the index, all of them numbers, and these alone tell it apart.
RowOK(t, row) ==
    /\ IndexObjects \cap DOMAIN row = {Table(t).index[i] : i \in DOMAIN Table(t).index}
    /\ \A i \in DOMAIN Table(t).index : row[Table(t).index[i]] \in Int

\* The words of a record of t: as many as its lines have, and numbers that name it.
WordsOK(t, w) ==
    /\ \E W : w \in Seq(W)
    /\ Len(w) = Len(Table(t).line)
    /\ \A i \in 1 .. Keys(t) : w[i] \in Int

\* The line of a table has at least the words that name its records.
LEMMA KeysOfTables ==
    ASSUME NEW t \in Tables
    PROVE  /\ Keys(t) \in 1 .. 4 /\ Keys(t) <= Len(Table(t).line)
           /\ Len(Table(t).line) \in Nat /\ DOMAIN Table(t).line = 1 .. Len(Table(t).line)
<1> DEFINE line == Table(t).line
<1>1. PICK n \in 1 .. 4 : {i \in DOMAIN line : line[i] = Key} = 1 .. n
                        /\ Len(line) \in Nat /\ DOMAIN line = 1 .. Len(line)
  <2>1. CASE t # SsnFailure
    <3>1. Keys(t) \in 1 .. 4 /\ Keyed(Table(t), <<>>, Load(t, <<>>), Keys(t))
      BY <2>1, TablesKeyed
    <3>. QED BY <3>1 DEF Keyed
  <2>2. CASE t = SsnFailure
    <3>1. t \notin init_iscsiMib /\ t \notin init_scsiMib /\ t \notin init_ipsAuthMib
      BY <2>2 DEF init_iscsiMib, init_scsiMib, init_ipsAuthMib, SsnFailure
    <3>2. Table(t) = iscsiInstAttributes_table
      BY <2>2, <3>1 DEF Table
    <3>3. Table(t) = Iscsi_table["iscsiInstAttributes"]
      BY <3>2 DEF Iscsi_table
    <3>4. "iscsiInstAttributes" \in init_iscsiMib
      BY DEF init_iscsiMib
    <3>5. \E n \in 1 .. 4 : Keyed(Table(t), <<>>, Iscsi_load("iscsiInstAttributes", <<>>), n)
      BY <3>3, <3>4, IscsiKeyed
    <3>. QED BY <3>5 DEF Keyed
  <2>. QED BY <2>1, <2>2
<1>2. Keys(t) = n
  <2>1. Cardinality(1 .. n) = IF 1 > n THEN 0 ELSE n - 1 + 1
    BY FS_Interval
  <2>2. Keys(t) = Cardinality(1 .. n)
    BY <1>1 DEF Keys
  <2>. QED BY <2>1, <2>2
<1>3. n \in 1 .. Len(line)
  BY <1>1
<1>. QED BY <1>1, <1>2, <1>3

\* A row made of such words, with or without a line of the aliases, is named by them.
LEMMA RowsNamed ==
    ASSUME NEW t \in Tables \ {SsnFailure}, NEW w, WordsOK(t, w), NEW n
    PROVE  RowOK(t, Load(t, w \o AliasOf(t, n)))
<1> DEFINE k == w \o AliasOf(t, n)
<1>1. PICK W : w \in Seq(W)
  BY DEF WordsOK
<1>2. \E A : AliasOf(t, n) \in Seq(A)
  <2>1. <<>> \in Seq({}) /\ <<"">> \in Seq({""}) /\ <<Aliases[n + 1]>> \in Seq({Aliases[n + 1]})
    OBVIOUS
  <2>. QED BY <2>1 DEF AliasOf
<1>3. PICK A : AliasOf(t, n) \in Seq(A)
  BY <1>2
<1>4. \A i \in 1 .. Len(w) : k[i] = w[i]
  <2>1. w \in Seq(W \cup A) /\ AliasOf(t, n) \in Seq(W \cup A)
    BY <1>1, <1>3
  <2>. QED BY <2>1, Joined
<1>5. \A i \in 1 .. Keys(t) : k[i] \in Int
  BY <1>4, KeysOfTables DEF WordsOK
<1>. HIDE DEF k
<1>6. Keyed(Table(t), k, Load(t, k), Keys(t))
  BY TablesKeyed
<1>7. RowOK(t, Load(t, k))
  BY <1>5, <1>6 DEF Keyed, RowOK
<1>. QED BY <1>7 DEF k

-----------------------------------------------------------------------------
(* What the order of indices does *)

\* Nothing comes before the first row.
LEMMA FirstLess ==
    ASSUME NEW m \in Nat \ {0}, NEW b, DOMAIN b = 1 .. m
    PROVE  Less(<<>>, b)
BY DEF Less

\* One of two different indices comes first.
LEMMA LessTotal ==
    ASSUME NEW m \in Nat, NEW a \in [1 .. m -> Int], NEW b \in [1 .. m -> Int],
           a # b, ~Less(a, b)
    PROVE  Less(b, a)
<1> DEFINE U == {i \in 1 .. m : a[i] # b[i]}
<1>1. U \in SUBSET Nat /\ U # {}
  OBVIOUS
<1>2. PICK i \in U : \A j \in U : i <= j
  <2>. HIDE DEF U
  <2>. QED BY <1>1, Reads!LeastNatural
<1>3. Len(a) = m /\ Len(b) = m
  <2>. a \in Seq(Int) /\ b \in Seq(Int)
    OBVIOUS
  <2>. QED OBVIOUS
<1>4. \A j \in 1 .. i - 1 : j <= m /\ a[j] = b[j]
  BY <1>2
<1>5. i \in DOMAIN a /\ i \in DOMAIN b /\ a[i] \in Int /\ b[i] \in Int /\ a[i] # b[i]
  OBVIOUS
<1>6. ~(a[i] < b[i])
  BY <1>3, <1>4, <1>5 DEF Less
<1>7. b[i] < a[i]
  BY <1>5, <1>6
<1>. QED BY <1>3, <1>4, <1>5, <1>7 DEF Less

\* Rows that are told apart have different indices, and what tells a row apart says where it
\* comes.
LEMMA IndexTells ==
    ASSUME NEW t, NEW m \in Nat, DOMAIN Table(t).index = 1 .. m, NEW r, RowOK(t, r)
    PROVE  /\ Index(t, r) \in [1 .. m -> Int]
           /\ Index(t, Id(r)) = Index(t, r)
           /\ \A o : RowOK(t, o) /\ Index(t, o) = Index(t, r) => Id(o) = Id(r)
<1> DEFINE ix == Table(t).index
<1>1. \A i \in 1 .. m : ix[i] \in IndexObjects \cap DOMAIN r /\ r[ix[i]] \in Int
  BY DEF RowOK
<1>2. Index(t, r) \in [1 .. m -> Int]
  BY <1>1 DEF Index
<1>3. \A i \in 1 .. m : Id(r)[ix[i]] = r[ix[i]]
  BY <1>1 DEF Id
<1>4. Index(t, Id(r)) = Index(t, r)
  BY <1>3 DEF Index
<1>5. ASSUME NEW o, RowOK(t, o), Index(t, o) = Index(t, r) PROVE Id(o) = Id(r)
  <2>1. IndexObjects \cap DOMAIN o = IndexObjects \cap DOMAIN r
    BY <1>5 DEF RowOK
  <2>2. \A i \in 1 .. m : o[ix[i]] = r[ix[i]]
    BY <1>5 DEF Index
  <2>3. \A x \in IndexObjects \cap DOMAIN r : o[x] = r[x]
    BY <2>2 DEF RowOK
  <2>. QED BY <2>1, <2>3 DEF Id
<1>. QED BY <1>2, <1>4, <1>5

\* The rows still to be answered come after the answer.
PendingLater ==
    /\ answer.index = <<>> => pending = {}
    /\ \A id \in pending : Less(answer.index, Index(tab, id))

\* A request passes by no row: it is answered with the first of those that come later.
LEMMA IteratePassesNone ==
    ASSUME tab \in Tables \ {SsnFailure}, tab' = tab, PendingLater,
           NEW rows, \A r \in rows : RowOK(tab, r), Iterate(rows)
    PROVE  PendingLater'
<1> DEFINE later == {r \in rows : Less(answer.index, Index(tab, r))}
           here == {Id(r) : r \in rows}
           there == IF answer.index = <<>> THEN here ELSE pending \cap here
<1>1. PICK m \in Nat \ {0} : DOMAIN Table(tab).index = 1 .. m
  <2>1. Keyed(Table(tab), <<>>, Load(tab, <<>>), Keys(tab))
    BY TablesKeyed
  <2>. QED BY <2>1 DEF Keyed
<1>2. ASSUME NEW r \in rows
      PROVE  Index(tab, r) \in [1 .. m -> Int] /\ Index(tab, Id(r)) = Index(tab, r)
  BY <1>1, IndexTells
<1>3. ASSUME NEW r \in rows, Id(r) \in there PROVE r \in later
  <2>1. CASE answer.index = <<>>
    <3>1. DOMAIN Index(tab, r) = 1 .. m
      BY <1>2
    <3>. HIDE DEF there
    <3>. QED BY <2>1, <3>1, FirstLess
  <2>2. CASE answer.index # <<>>
    <3>1. Less(answer.index, Index(tab, Id(r)))
      BY <1>3, <2>2 DEF PendingLater
    <3>. QED BY <1>2, <3>1
  <2>. QED BY <2>1, <2>2
<1>4. CASE later = {} /\ answer' = NoAnswer /\ pending' = there
  <2>1. there = {}
    <3>1. there \subseteq here
      OBVIOUS
    <3>. QED BY <1>3, <1>4, <3>1
  <2>. QED BY <1>4, <2>1 DEF PendingLater, NoAnswer
<1>5. ASSUME NEW r \in later, \A o \in later : ~Less(Index(tab, o), Index(tab, r)),
             answer'.index = Index(tab, r), pending' = there \ {Id(r)}
      PROVE  PendingLater'
  <2>1. Index(tab, r) # <<>>
    <3>1. DOMAIN Index(tab, r) = 1 .. m /\ DOMAIN <<>> = {}
      BY <1>2
    <3>. QED BY <3>1
  <2>2. ASSUME NEW id \in pending' PROVE Less(Index(tab, r), Index(tab, id))
    <3>1. PICK o \in rows : Id(o) = id
      BY <1>5
    <3>2. o \in later /\ Id(o) # Id(r)
      BY <1>3, <1>5, <3>1
    <3>3. Index(tab, o) # Index(tab, r)
      BY <1>1, <3>2, IndexTells
    <3>4. Less(Index(tab, r), Index(tab, o))
      BY <1>2, <1>5, <3>2, <3>3, LessTotal
    <3>. QED BY <1>2, <3>1, <3>4
  <2>. QED BY <1>5, <2>1, <2>2 DEF PendingLater
<1>. QED BY <1>4, <1>5 DEF Iterate

-----------------------------------------------------------------------------
(* What a file says, of cached and of polled tables *)

RecordOK(t, r) ==
    /\ DOMAIN r = {"words", "bad"}
    /\ WordsOK(t, r.words)
    /\ Table(t).more \in Nat /\ r.bad \in 0 .. Table(t).more + 1

\* A file says nothing, or has some records.
RecordsOK(t, f) == \E S : f \in Seq(S) /\ \A r \in S : RecordOK(t, r)
FileOK(t, f) == f = None \/ RecordsOK(t, f)

\* A function on the first n numbers is a sequence.
LEMMA SequenceIs ==
    ASSUME NEW n \in Nat, NEW f, f = [i \in 1 .. n |-> f[i]]
    PROVE  f \in Seq({f[i] : i \in 1 .. n}) /\ Len(f) = n
OBVIOUS

\* A record as the kernel makes it.
LEMMA RecordMade ==
    ASSUME NEW t \in Tables, NEW s, s.last \in Int
    PROVE  WordsOK(t, Record(t, s).words)
<1> DEFINE n == Len(Table(t).line)
           w == Record(t, s).words
<1>1. /\ n \in Nat /\ DOMAIN Table(t).line = 1 .. n
      /\ Keys(t) \in 1 .. 4 /\ Keys(t) <= n
  BY KeysOfTables
<1>2. w = [i \in 1 .. n |->
             IF i < Keys(t) THEN 1
             ELSE IF i = Keys(t) THEN s.last ELSE Table(t).line[i][s.variant]]
  BY <1>1 DEF Record
<1>3. \A i \in 1 .. Keys(t) : w[i] = IF i < Keys(t) THEN 1 ELSE s.last
  BY <1>1, <1>2
<1>4. w = [i \in 1 .. n |-> w[i]]
  BY <1>2
<1>. HIDE DEF w
<1>5. w \in Seq({w[i] : i \in 1 .. n}) /\ Len(w) = n
  BY <1>1, <1>4, SequenceIs
<1>6. \A i \in 1 .. Keys(t) : w[i] \in Int
  BY <1>3
<1>7. WordsOK(t, w)
  BY <1>5, <1>6 DEF WordsOK
<1>. QED BY <1>7 DEF w

\* Other words than those that name a record may change.
LEMMA WordsChange ==
    ASSUME NEW t \in Tables, NEW w, WordsOK(t, w), NEW x, DOMAIN x = DOMAIN w,
           x = [i \in DOMAIN x |-> x[i]], \A i \in DOMAIN w : i \in 1 .. Keys(t) => x[i] = w[i]
    PROVE  WordsOK(t, x)
<1>1. Len(w) \in Nat /\ DOMAIN w = 1 .. Len(w)
  BY DEF WordsOK
<1>2. x \in Seq({x[i] : i \in 1 .. Len(w)}) /\ Len(x) = Len(w)
  BY <1>1, SequenceIs
<1>3. Keys(t) <= Len(w) /\ Keys(t) \in Nat
  BY KeysOfTables DEF WordsOK
<1>. QED BY <1>1, <1>2, <1>3 DEF WordsOK

\* A file that a table is cached of has some records.
LEMMA CachedFileOK ==
    ASSUME NEW t \in Tables \ Polled, NEW f \in Contents(t)
    PROVE  FileOK(t, f)
<1>. SUFFICES ASSUME f # None PROVE \E S : f \in Seq(S) /\ \A r \in S : RecordOK(t, r)
  BY DEF FileOK, RecordsOK
<1> DEFINE shapes == {s \in Shapes : \A i \in DOMAIN s : s[i].bad <= WorstLine(t)}
           files == {[i \in DOMAIN s |-> Record(t, s[i])] : s \in shapes}
<1>1. f \in files
  BY DEF Contents
<1>2. PICK s \in shapes : f = [i \in DOMAIN s |-> Record(t, s[i])]
  BY <1>1
<1>3. IsFile(t, f) /\ Len(f) \in Nat /\ DOMAIN f = 1 .. Len(f)
  BY ContentsAreFiles
<1>4. f \in Seq({f[i] : i \in 1 .. Len(f)})
  <2>. f = [i \in 1 .. Len(f) |-> f[i]]
    BY <1>2, <1>3
  <2>. QED BY <1>3, SequenceIs
<1>5. ASSUME NEW i \in 1 .. Len(f) PROVE RecordOK(t, f[i])
  <2>1. i \in DOMAIN s /\ f[i] = Record(t, s[i])
    BY <1>2, <1>3
  <2>2. s[i].last \in Int
    <3> DEFINE S == [last : {1, 2}, variant : {1, 2}, bad : 0 .. 4]
    <3>1. s \in Seq(S)
      BY <1>2, AgentAssumption
    <3>. HIDE DEF S
    <3>2. s[i] \in S
      BY <2>1, <3>1
    <3>. QED BY <3>2 DEF S
  <2>3. WordsOK(t, f[i].words)
    BY <2>1, <2>2, RecordMade
  <2>4. DOMAIN f[i] = {"words", "bad"}
    BY <2>1 DEF Record
  <2>5. Table(t).more \in Nat /\ f[i].bad \in 0 .. Table(t).more + 1
    BY <1>3 DEF IsFile
  <2>. QED BY <2>3, <2>4, <2>5 DEF RecordOK
<1>. QED BY <1>4, <1>5

\* The rows that a load makes of some records are told apart by their index.
LEMMA RowsAreOK ==
    ASSUME NEW t \in Tables \ {SsnFailure}, NEW f, RecordsOK(t, f), NEW full \in Nat
    PROVE  \A r \in RowsOf(t, f, full) : RowOK(t, r)
<1>1. PICK S : f \in Seq(S) /\ \A r \in S : RecordOK(t, r)
  BY DEF RecordsOK
<1>2. Len(f) \in Nat /\ DOMAIN f = 1 .. Len(f) /\ \A i \in 1 .. Len(f) : RecordOK(t, f[i])
  BY <1>1
<1>3. Table(t).more \in Nat
  <2>1. t \notin init_ipsAuthMib \/ t \in init_ipsAuthMib
    OBVIOUS
  <2>. QED BY <2>1, TablesApart, IscsiMore, ScsiMore, IpsAuthMore
<1>4. IsFile(t, f)
  BY <1>2, <1>3 DEF IsFile, RecordOK
<1>5. RowsOf(t, f, full) = {RowAt(t, f, j) : j \in {j \in ReadOf(f) : MetBefore(f, j) < full}}
  BY <1>2, <1>4, RowsAre
<1>6. ASSUME NEW j \in ReadOf(f) PROVE RowOK(t, RowAt(t, f, j))
  <2>1. WordsOK(t, f[j].words)
    BY <1>2 DEF ReadOf, RecordOK
  <2>. QED BY <2>1, RowsNamed DEF RowAt
<1>. QED BY <1>5, <1>6

\* The lines of every table.
LEMMA MoreLines == ASSUME NEW t \in Tables PROVE Table(t).more \in Nat
<1>1. CASE t # SsnFailure
  <2>1. t \notin init_ipsAuthMib \/ t \in init_ipsAuthMib
    OBVIOUS
  <2>. QED BY <1>1, <2>1, TablesApart, IscsiMore, ScsiMore, IpsAuthMore
<1>2. CASE t = SsnFailure
  <2>1. t \notin init_iscsiMib /\ t \notin init_scsiMib /\ t \notin init_ipsAuthMib
    BY <1>2 DEF init_iscsiMib, init_scsiMib, init_ipsAuthMib, SsnFailure
  <2>. QED BY <1>2, <2>1 DEF Table, iscsiInstAttributes_table
<1>. QED BY <1>1, <1>2

\* The words that name a node, a device and the instance.
LEMMA PolledKeysAre == Keys(TgtAttr) = 2 /\ Keys(TgtDev) = 2 /\ Keys(SsnFailure) = 1
<1>. USE DEF init_iscsiMib, init_scsiMib, init_ipsAuthMib, SsnFailure, TgtAttr, TgtDev
<1>1. ASSUME NEW t, NEW n \in 1 .. 4, {i \in DOMAIN Table(t).line : Table(t).line[i] = Key} = 1 .. n
      PROVE  Keys(t) = n
  <2>1. Cardinality(1 .. n) = IF 1 > n THEN 0 ELSE n - 1 + 1
    BY FS_Interval
  <2>2. Keys(t) = Cardinality(1 .. n)
    BY <1>1 DEF Keys
  <2>. QED BY <2>1, <2>2
<1>2. /\ Table(TgtAttr) = iscsiTargetAttributes_table
      /\ Table(TgtDev) = scsiTgtDevTable_table
      /\ Table(SsnFailure) = iscsiInstAttributes_table
  BY DEF Table, Iscsi_table, Scsi_table
<1>3. LET line == iscsiTargetAttributes_table.line
      IN  {i \in DOMAIN line : line[i] = Key} = 1 .. 2
  BY DEF iscsiTargetAttributes_table, iscsiTargetAttributes_LINE, Key, Num, LoginFailType, Text,
         AddrType
<1>4. LET line == scsiTgtDevTable_table.line
      IN  {i \in DOMAIN line : line[i] = Key} = 1 .. 2
  BY DEF scsiTgtDevTable_table, scsiTgtDevTable_LINE, Key, Num, DevStatus
<1>5. LET line == iscsiInstAttributes_table.line
      IN  {i \in DOMAIN line : line[i] = Key} = 1 .. 1
  BY DEF iscsiInstAttributes_table, iscsiInstAttributes_LINE, Key, Num, OrZero, Text
<1>. QED BY <1>1, <1>2, <1>3, <1>4, <1>5

\* The tables that are polled are tables.
LEMMA PolledTables == Polled \subseteq Tables
BY DEF Polled, Tables, TgtAttr, TgtDev, SsnFailure, init_iscsiMib, init_scsiMib

\* A record of a polled table as it is made.
LEMMA FreshOK ==
    ASSUME NEW t \in Polled, NEW i \in {1, 2}
    PROVE  RecordOK(t, Fresh(t, i))
<1> DEFINE s == [last |-> i, variant |-> 1, bad |-> 0]
           r == Record(t, s)
           w == r.words
           y == Fresh(t, i)
<1>1. WordsOK(t, w) /\ t \in Tables
  BY PolledTables, RecordMade
<1>2. r = [words |-> w, bad |-> 0]
  BY DEF Record
<1>3. Table(t).more \in Nat
  BY <1>1, MoreLines
<1>4. ASSUME WordsOK(t, y.words), y.bad = 0, DOMAIN y = {"words", "bad"}
      PROVE  RecordOK(t, y)
  BY <1>3, <1>4 DEF RecordOK
<1>5. w = [j \in DOMAIN w |-> w[j]]
  BY DEF Record
<1>. SUFFICES RecordOK(t, y)
  OBVIOUS
<1>. HIDE DEF w, r, y
<1>6. CASE t = TgtAttr
  <2> DEFINE x == [w EXCEPT ![3] = 0, ![4] = 0, ![5] = 0, ![6] = None]
  <2>1. y = [r EXCEPT !.words[3] = 0, !.words[4] = 0, !.words[5] = 0, !.words[6] = None]
    BY <1>6 DEF Fresh, y, r, TgtAttr, SsnFailure
  <2>2. y.words = x /\ y.bad = 0 /\ DOMAIN y = {"words", "bad"}
    BY <1>2, <2>1
  <2>3. DOMAIN x = DOMAIN w /\ x = [j \in DOMAIN x |-> x[j]]
    BY <1>5
  <2>4. \A j \in DOMAIN w : j \in 1 .. 2 => x[j] = w[j]
    BY <1>5
  <2>. HIDE DEF x
  <2>5. WordsOK(t, x)
    BY <1>1, <1>6, <2>3, <2>4, WordsChange, PolledKeysAre
  <2>. QED BY <1>4, <2>2, <2>5
<1>7. CASE t = SsnFailure
  <2> DEFINE x == [w EXCEPT ![7] = 0, ![8] = 0, ![9] = None]
  <2>1. y = [r EXCEPT !.words[7] = 0, !.words[8] = 0, !.words[9] = None]
    BY <1>7 DEF Fresh, y, r, TgtAttr, SsnFailure
  <2>2. y.words = x /\ y.bad = 0 /\ DOMAIN y = {"words", "bad"}
    BY <1>2, <2>1
  <2>3. DOMAIN x = DOMAIN w /\ x = [j \in DOMAIN x |-> x[j]]
    BY <1>5
  <2>4. \A j \in DOMAIN w : j = 1 => x[j] = w[j]
    BY <1>5
  <2>. HIDE DEF x
  <2>5. WordsOK(t, x)
    BY <1>1, <1>7, <2>3, <2>4, WordsChange, PolledKeysAre
  <2>. QED BY <1>4, <2>2, <2>5
<1>8. CASE t = TgtDev
  <2>1. y = r
    BY <1>8 DEF Fresh, y, r, TgtAttr, SsnFailure, TgtDev
  <2>2. y.words = w /\ y.bad = 0 /\ DOMAIN y = {"words", "bad"}
    BY <1>2, <2>1
  <2>. QED BY <1>1, <1>4, <2>2
<1>. QED BY <1>6, <1>7, <1>8 DEF Polled

\* What the kernel does to the file of a polled table leaves records in it: none when the module
\* comes, one more,
LEMMA FileAppended ==
    ASSUME NEW t, NEW f, FileOK(t, f), f # None, NEW r, RecordOK(t, r)
    PROVE  FileOK(t, Append(f, r))
<1>1. PICK S : f \in Seq(S) /\ \A x \in S : RecordOK(t, x)
  BY DEF FileOK, RecordsOK
<1>2. Append(f, r) \in Seq(S \cup {r})
  BY <1>1
<1>. QED BY <1>1, <1>2 DEF FileOK, RecordsOK

\* one less,
LEMMA FileRemoved ==
    ASSUME NEW t, NEW f, FileOK(t, f), f # None, NEW j \in DOMAIN f
    PROVE  FileOK(t, RemoveAt(f, j))
<1>1. PICK S : f \in Seq(S) /\ \A x \in S : RecordOK(t, x)
  BY DEF FileOK, RecordsOK
<1>2. j \in 1 .. Len(f) /\ Len(f) \in Nat
  BY <1>1
<1>3. SubSeq(f, 1, j - 1) \in Seq(S) /\ SubSeq(f, j + 1, Len(f)) \in Seq(S)
  BY <1>1, <1>2
<1>4. RemoveAt(f, j) \in Seq(S)
  BY <1>3 DEF RemoveAt
<1>. QED BY <1>1, <1>4 DEF FileOK, RecordsOK

\* or one that says something else.
LEMMA FileRewritten ==
    ASSUME NEW t, NEW f, FileOK(t, f), f # None, NEW j \in DOMAIN f, NEW w, WordsOK(t, w)
    PROVE  FileOK(t, [f EXCEPT ![j].words = w])
<1>1. PICK S : f \in Seq(S) /\ \A x \in S : RecordOK(t, x)
  BY DEF FileOK, RecordsOK
<1> DEFINE r == [f[j] EXCEPT !.words = w]
<1>2. f[j] \in S
  BY <1>1
<1>3. DOMAIN r = {"words", "bad"} /\ r.words = w /\ r.bad = f[j].bad
  BY <1>1, <1>2, Zenon DEF RecordOK
<1>4. RecordOK(t, r)
  BY <1>1, <1>2, <1>3 DEF RecordOK
<1>. HIDE DEF r
<1>5. [f EXCEPT ![j] = r] \in Seq(S \cup {r})
  BY <1>1
<1>6. [f EXCEPT ![j].words = w] = [f EXCEPT ![j] = r]
  BY DEF r
<1>. QED BY <1>1, <1>4, <1>5, <1>6 DEF FileOK, RecordsOK

-----------------------------------------------------------------------------
(* The invariant of a walk *)

FilesInv ==
    /\ tab \in Tables
    /\ tab \notin Polled => file \in Contents(tab)
    /\ FileOK(tab, file)

\* What a list has is told apart by its index, whatever made it, and the rows of a walk that
\* were not answered yet come after the answer.
WalkInv ==
    /\ FilesInv
    /\ tab = SsnFailure => list = {}
    /\ \A r \in list : RowOK(tab, r)
    /\ PendingLater

\* No file, and one that says nothing.
LEMMA EmptyFileOK == \A t : RecordsOK(t, <<>>) /\ FileOK(t, <<>>) /\ FileOK(t, None)
<1>1. <<>> \in Seq({})
  OBVIOUS
<1>. QED BY <1>1 DEF FileOK, RecordsOK

\* A walk has not begun.
LEMMA InitWalk == Init => WalkInv
<1>. SUFFICES ASSUME Init PROVE WalkInv
  OBVIOUS
<1>1. FileOK(tab, file)
  BY EmptyFileOK, CachedFileOK DEF Init
<1>2. tab \in Tables /\ (tab \notin Polled => file \in Contents(tab))
  BY DEF Init
<1>3. list = {} /\ pending = {}
  BY DEF Init
<1>. QED BY <1>1, <1>2, <1>3 DEF WalkInv, FilesInv, PendingLater

\* What happens to the first words of a record is nothing.
LEMMA HappensKeepsFile ==
    ASSUME FilesInv, file # None, NEW j \in DOMAIN file, NEW w, Happens(j, w), WordsOK(tab, w)
    PROVE  tab' = tab /\ FileOK(tab, file')
BY FileRewritten DEF Happens, Writes, FilesInv

\* The words of a record in the file.
LEMMA WordsOfFile ==
    ASSUME FilesInv, file # None, NEW j \in DOMAIN file
    PROVE  WordsOK(tab, file[j].words)
<1>1. PICK S : file \in Seq(S) /\ \A r \in S : RecordOK(tab, r)
  BY DEF FilesInv, FileOK, RecordsOK
<1>2. file[j] \in S
  BY <1>1
<1>. QED BY <1>1, <1>2 DEF RecordOK

\* A login that fails, a session that fails and a status that changes are of this kind.
LEMMA LoginFailsKeepsFile ==
    ASSUME FilesInv, NEW j, NEW n, NEW type, LoginFails(j, n, type)
    PROVE  tab' = tab /\ tab \in Polled /\ FileOK(tab, file')
<1> DEFINE w == file[j].words
           x == [w EXCEPT ![3] = @ + 1, ![4] = clock, ![5] = type, ![6] = n]
<1>1. tab = TgtAttr /\ file # None /\ j \in DOMAIN file /\ Happens(j, x)
  BY DEF LoginFails
<1>2. WordsOK(tab, w) /\ tab \in Tables
  BY <1>1, WordsOfFile DEF FilesInv
<1>3. w = [i \in DOMAIN w |-> w[i]]
  <2>1. PICK W : w \in Seq(W)
    BY <1>2 DEF WordsOK
  <2>. HIDE DEF w
  <2>. QED BY <2>1
<1>. HIDE DEF w
<1>4. DOMAIN x = DOMAIN w /\ x = [i \in DOMAIN x |-> x[i]]
  BY <1>3
<1>5. \A i \in DOMAIN w : i \in 1 .. 2 => x[i] = w[i]
  BY <1>3
<1>. HIDE DEF x
<1>6. WordsOK(tab, x)
  BY <1>1, <1>2, <1>4, <1>5, WordsChange, PolledKeysAre
<1>. QED BY <1>1, <1>6, HappensKeepsFile DEF Polled

LEMMA SessionFailsKeepsFile ==
    ASSUME FilesInv, NEW j, NEW n, NEW type, SessionFails(j, n, type)
    PROVE  tab' = tab /\ tab \in Polled /\ FileOK(tab, file')
<1> DEFINE w == file[j].words
           x == [w EXCEPT ![7] = @ + 1, ![8] = type, ![9] = n]
<1>1. tab = SsnFailure /\ file # None /\ j \in DOMAIN file /\ Happens(j, x)
  BY DEF SessionFails
<1>2. WordsOK(tab, w) /\ tab \in Tables
  BY <1>1, WordsOfFile DEF FilesInv
<1>3. w = [i \in DOMAIN w |-> w[i]]
  <2>1. PICK W : w \in Seq(W)
    BY <1>2 DEF WordsOK
  <2>. HIDE DEF w
  <2>. QED BY <2>1
<1>. HIDE DEF w
<1>4. DOMAIN x = DOMAIN w /\ x = [i \in DOMAIN x |-> x[i]]
  BY <1>3
<1>5. \A i \in DOMAIN w : i \in 1 .. 1 => x[i] = w[i]
  BY <1>3
<1>. HIDE DEF x
<1>6. WordsOK(tab, x)
  BY <1>1, <1>2, <1>4, <1>5, WordsChange, PolledKeysAre
<1>. QED BY <1>1, <1>6, HappensKeepsFile DEF Polled

LEMMA StatusChangesKeepsFile ==
    ASSUME FilesInv, NEW j, StatusChanges(j)
    PROVE  tab' = tab /\ tab \in Polled /\ FileOK(tab, file')
<1> DEFINE w == file[j].words
<1>1. PICK s : Happens(j, [w EXCEPT ![4] = s])
  BY DEF StatusChanges
<1> DEFINE x == [w EXCEPT ![4] = s]
<1>2. tab = TgtDev /\ file # None /\ j \in DOMAIN file /\ Happens(j, x)
  BY <1>1 DEF StatusChanges
<1>3. WordsOK(tab, w) /\ tab \in Tables
  BY <1>2, WordsOfFile DEF FilesInv
<1>4. w = [i \in DOMAIN w |-> w[i]]
  <2>1. PICK W : w \in Seq(W)
    BY <1>3 DEF WordsOK
  <2>. HIDE DEF w
  <2>. QED BY <2>1
<1>. HIDE DEF w
<1>5. /\ DOMAIN x = DOMAIN w /\ x = [i \in DOMAIN x |-> x[i]]
      /\ \A i \in DOMAIN w : i \in 1 .. 2 => x[i] = w[i]
  BY <1>4
<1>. HIDE DEF x
<1>6. WordsOK(tab, x)
  BY <1>2, <1>3, <1>5, WordsChange, PolledKeysAre
<1>. QED BY <1>2, <1>6, HappensKeepsFile DEF Polled

\* The kernel leaves a file of the table, and all that the agent has.
LEMMA KernelKeepsWalk ==
    ASSUME WalkInv, NEW f, Writes(f), FileOK(tab, f), tab \in Polled \/ f \in Contents(tab)
    PROVE  WalkInv'
<1>1. tab' = tab /\ list' = list /\ answer' = answer /\ pending' = pending /\ file' = f
  BY DEF Writes, statics, walk
<1>. QED BY <1>1 DEF WalkInv, FilesInv, PendingLater

\* A list that is made of the file has rows told apart by their index.
LEMMA LoadsAreOK ==
    ASSUME FilesInv, tab # SsnFailure, file # None, NEW l \in Loads(tab, file)
    PROVE  \A r \in l : RowOK(tab, r)
<1>1. Len(file) \in Nat
  BY DEF FilesInv, FileOK, RecordsOK
<1>2. PICK full \in Nat : l = RowsOf(tab, file, full)
  BY <1>1 DEF Loads
<1>3. RecordsOK(tab, file)
  BY DEF FilesInv, FileOK
<1>. QED BY <1>2, <1>3, RowsAreOK DEF FilesInv

\* So does one that a request left alone, or made anew.
LEMMA RefreshKeepsRows ==
    ASSUME WalkInv, tab \notin Polled, Refresh
    PROVE  \A r \in list' : RowOK(tab, r)
<1>1. list' = list \/ list' = {} \/ (file # None /\ list' \in Loads(tab, file))
  BY DEF Refresh
<1>2. tab # SsnFailure
  BY DEF Polled
<1>. QED BY <1>1, <1>2, LoadsAreOK DEF WalkInv

\* A poll makes its list of the file too, or of none.
LEMMA PollKeepsWalk ==
    ASSUME WalkInv, NEW c, PollLoad(c)
    PROVE  WalkInv'
<1>1. tab' = tab /\ file' = file /\ answer' = answer /\ pending' = pending
  BY DEF PollLoad, kernel, walk
<1>2. tab = SsnFailure \/ tab = TgtAttr \/ tab = TgtDev
  BY DEF PollLoad
<1>3. CASE tab = SsnFailure
  <2>1. list' = list
    BY <1>3 DEF PollLoad, PollSessionFailure, SsnFailure, TgtAttr, TgtDev
  <2>. QED BY <1>1, <2>1 DEF WalkInv, FilesInv, PendingLater
<1>4. CASE tab # SsnFailure
  <2> DEFINE recs == IF file = None THEN <<>> ELSE file
  <2>1. PICK full \in Nat : list' = RowsOf(tab, recs, full)
    <3>1. file # None => Len(file) \in Nat
      BY DEF WalkInv, FilesInv, FileOK, RecordsOK
    <3>2. PICK full \in Nat : \/ tab = TgtAttr /\ PollTargetAttributes(c, full)
                              \/ tab = TgtDev /\ PollTgtDev(full)
      BY <1>4, <3>1 DEF PollLoad
    <3>. QED BY <3>2 DEF PollTargetAttributes, PollTgtDev
  <2>2. RecordsOK(tab, recs)
    <3>1. RecordsOK(tab, <<>>)
      BY EmptyFileOK
    <3>. QED BY <3>1 DEF WalkInv, FilesInv, FileOK
  <2>. HIDE DEF recs
  <2>3. \A r \in list' : RowOK(tab, r)
    BY <1>4, <2>1, <2>2, RowsAreOK DEF WalkInv, FilesInv
  <2>. QED BY <1>1, <1>4, <2>3 DEF WalkInv, FilesInv, PendingLater
<1>. QED BY <1>3, <1>4

\* No step leaves a row of a walk behind.
LEMMA StepWalk == WalkInv /\ [Next]_vars => WalkInv'
<1>. SUFFICES ASSUME WalkInv, [Next]_vars PROVE WalkInv'
  OBVIOUS
<1>0. FilesInv
  BY DEF WalkInv
<1>1. ASSUME Change PROVE WalkInv'
  <2>1. PICK f \in Contents(tab) : Writes(f)
    BY <1>1 DEF Change
  <2>2. FileOK(tab, f)
    BY <1>0, <1>1, CachedFileOK DEF Change, FilesInv
  <2>. QED BY <2>1, <2>2, KernelKeepsWalk
<1>2. ASSUME Module PROVE WalkInv'
  BY <1>2, EmptyFileOK, KernelKeepsWalk DEF Module
<1>3. ASSUME NEW i \in {1, 2}, Create(i) PROVE WalkInv'
  <2>1. tab \in Polled /\ file # None /\ Writes(Append(file, Fresh(tab, i)))
    BY <1>3 DEF Create
  <2>. QED BY <1>0, <2>1, FreshOK, FileAppended, KernelKeepsWalk DEF FilesInv
<1>4. ASSUME NEW i \in {1, 2}, Delete(i) PROVE WalkInv'
  <2>1. PICK j \in DOMAIN file : tab \in Polled /\ file # None /\ Writes(RemoveAt(file, j))
    BY <1>4 DEF Delete
  <2>. QED BY <1>0, <2>1, FileRemoved, KernelKeepsWalk DEF FilesInv
<1>5. ASSUME NEW j, NEW w, Happens(j, w), tab \in Polled, FileOK(tab, file') PROVE WalkInv'
  <2>1. PICK f : Writes(f) /\ f = file'
    BY <1>5 DEF Happens, Writes
  <2>. QED BY <1>5, <2>1, KernelKeepsWalk
<1>6. ASSUME NEW j, StatusChanges(j) PROVE WalkInv'
  <2>1. \E w : Happens(j, w)
    BY <1>6 DEF StatusChanges
  <2>. QED BY <1>0, <1>5, <1>6, <2>1, StatusChangesKeepsFile
<1>7. ASSUME NEW j, NEW n, NEW type, LoginFails(j, n, type) PROVE WalkInv'
  <2>1. \E w : Happens(j, w)
    BY <1>7 DEF LoginFails
  <2>. QED BY <1>0, <1>5, <1>7, <2>1, LoginFailsKeepsFile
<1>8. ASSUME NEW j, NEW n, NEW type, SessionFails(j, n, type) PROVE WalkInv'
  <2>1. \E w : Happens(j, w)
    BY <1>8 DEF SessionFails
  <2>. QED BY <1>0, <1>5, <1>8, <2>1, SessionFailsKeepsFile
<1>9. ASSUME UNCHANGED <<tab, file, list, walk>> PROVE WalkInv'
  BY <1>9 DEF walk, WalkInv, FilesInv, PendingLater
<1>10. ASSUME Tick PROVE WalkInv'
  BY <1>9, <1>10 DEF Tick
<1>11. ASSUME Start \/ Poll PROVE WalkInv'
  <2>1. CASE tab \in Polled
    BY <1>11, <2>1, PollKeepsWalk DEF Start, Poll
  <2>2. CASE tab \notin Polled
    BY <1>9, <1>11, <2>2 DEF Start, Poll, kernel, statics
  <2>. QED BY <2>1, <2>2
<1>12. ASSUME UNCHANGED <<tab, file, walk>>, list' = {} PROVE WalkInv'
  BY <1>12 DEF walk, WalkInv, FilesInv, PendingLater
<1>13. ASSUME Stop PROVE WalkInv'
  BY <1>12, <1>13 DEF Stop, Statics, kernel
<1>14. ASSUME Release PROVE WalkInv'
  BY <1>9, <1>12, <1>14 DEF Release, kernel
<1>15. ASSUME GetNext PROVE WalkInv'
  <2>1. tab' = tab /\ file' = file /\ tab # SsnFailure /\ Iterate(list')
    BY <1>15 DEF GetNext, kernel
  <2>2. \A r \in list' : RowOK(tab, r)
    BY <1>15, RefreshKeepsRows DEF GetNext, WalkInv
  <2>3. PendingLater'
    BY <1>0, <2>1, <2>2, IteratePassesNone DEF WalkInv, FilesInv
  <2>. QED BY <1>0, <2>1, <2>2, <2>3 DEF WalkInv, FilesInv
<1>16. ASSUME UNCHANGED vars PROVE WalkInv'
  BY <1>9, <1>16 DEF vars, kernel, statics
<1>. QED BY <1>1, <1>2, <1>3, <1>4, <1>6, <1>7, <1>8, <1>10, <1>11, <1>13, <1>14, <1>15, <1>16
         DEF Next

\* A walk answers with every row that was there at all of its requests, whatever the kernel, the
\* cache and net-snmp do to the list between one request and the next.
THEOREM WalksAreComplete == Spec => []WalkComplete
<1>1. WalkInv => WalkComplete
  BY DEF WalkInv, PendingLater, WalkComplete
<1>. QED BY <1>1, InitWalk, StepWalk, PTL DEF Spec
=============================================================================
