----------------------- MODULE MibAgent_column_proofs -----------------------
(* Theorem about the columns that MibAgent answers with: each has a value but for a few that *)
(* are named.  It goes from the words that the kernel writes over the rows that loads make   *)
(* of them to what the handlers of the tables find in the rows.                              *)
EXTENDS MibAgent_poll_proofs

\* The columns that a row may leave as memset left them.
Hollow == {"scsiLuInResets", "scsiLuOutTaskSetFullStatus",
           "iscsiPortalAddrType", "iscsiTgtLastIntrFailureAddrType", "iscsiCxnAddrType"}

\* The kinds of words in the lines of records.
Kinds == {Num, OrZero, Text, YesNo, AddrType, Proto, DigestWord, Digests, SsnType, AuthType,
          CxnState, DevStatus, LuStatus, AliasWord, WwnWord, Identity, LoginFailType, U64,
          Enforced}

\* What memset leaves stands for nothing that is ever stored: it is neither a number nor a word
\* nor a structure of them, and neither an alias nor the name of an initiator.
UnsetIsApart ==
    /\ Unset \notin Int \cup {"", "iSCSI Target", None} \cup Initiator
    /\ \A kind \in Kinds : Unset \notin {kind[1], kind[2]}
    /\ Unset # [x \in DOMAIN Unset |-> Unset[x]]
    /\ \A n \in Nat : n < Len(Aliases) => Aliases[n + 1] # Unset

\* What the loads and the handlers put into fields and answers,
LEMMA StructuresApart ==
    ASSUME UnsetIsApart
    PROVE  /\ \A o, i : Pointer(o, i) # Unset /\ PointerOrNone(o, i) # Unset
           /\ \A chap : AuthMethod(chap) # Unset
           /\ \A w, a : InetAddr(w, a) # Unset /\ Octets(w, a) # Unset
           /\ \A n : Counter64(n) # Unset /\ Counter64(n).low = n.low
           /\ \A n : [high |-> 0, low |-> n] # Unset
<1>1. ASSUME NEW o, NEW i PROVE Pointer(o, i) # Unset
  <2> DEFINE p == Pointer(o, i)
  <2>1. p = [x \in DOMAIN p |-> p[x]]
    BY Zenon DEF Pointer
  <2>. HIDE DEF p
  <2>2. p # Unset
    BY <2>1 DEF UnsetIsApart
  <2>. QED BY <2>2 DEF p
<1>2. ASSUME NEW w, NEW a PROVE InetAddr(w, a) # Unset
  <2> DEFINE p == InetAddr(w, a)
  <2>1. p = [x \in DOMAIN p |-> p[x]]
    BY Zenon DEF InetAddr
  <2>. HIDE DEF p
  <2>2. p # Unset
    BY <2>1 DEF UnsetIsApart
  <2>. QED BY <2>2 DEF p
<1>3. ASSUME NEW w, NEW a PROVE Octets(w, a) # Unset
  <2> DEFINE p == Octets(w, a)
  <2>1. p = [x \in DOMAIN p |-> p[x]]
    BY Zenon DEF Octets
  <2>. HIDE DEF p
  <2>2. p # Unset
    BY <2>1 DEF UnsetIsApart
  <2>. QED BY <2>2 DEF p
<1>4. ASSUME NEW m, NEW n PROVE [high |-> m, low |-> n] # Unset
  <2> DEFINE p == [high |-> m, low |-> n]
  <2>1. p = [x \in DOMAIN p |-> p[x]]
    BY Zenon
  <2>. HIDE DEF p
  <2>2. p # Unset
    BY <2>1 DEF UnsetIsApart
  <2>. QED BY <2>2 DEF p
<1>5. \A n : Counter64(n) # Unset /\ Counter64(n).low = n.low
  BY <1>4, Zenon DEF Counter64
<1>. QED BY <1>1, <1>2, <1>3, <1>4, <1>5 DEF PointerOrNone, AuthMethod

\* and the numbers of enumerations.
LEMMA NumbersApart ==
    ASSUME UnsetIsApart
    PROVE  /\ \A w : TruthValue(w) # Unset /\ Digest(w) # Unset /\ Secondary(w) # Unset
           /\ \A w : DevStatusOf(w) # Unset /\ LuStatusOf(w) # Unset
           /\ \A w \in {"TCP", "SCTP"} : TransportProto(w) # Unset
           /\ \A w \in {"login", "logout"} : CxnStateOf(w) # Unset
           /\ \A w \in {"Normal", "Discovery"} : SsnTypeOf(w) # Unset
           /\ \A w : w # Unset => NoneIsEmpty(w) # Unset
           /\ RS_ACTIVE # Unset /\ ST_READONLY # Unset /\ ROLE_TARGET # Unset
           /\ SSN_DIR_INBOUND # Unset /\ AUTH_INST_INDEX # Unset /\ AUTH_ID_NAME_INDEX # Unset
           /\ EXPOSED # Unset /\ TV_TRUE # Unset /\ SCSI_TRANSPORT_INDEX # Unset
<1>0. Unset \notin Int /\ Unset # ""
  BY DEF UnsetIsApart
<1>1. \A w : TruthValue(w) \in Int /\ Digest(w) \in Int
  BY DEF TruthValue, Digest, TV_TRUE
<1>2. \A w : Secondary(w) \in Int
  BY <1>1 DEF Secondary
<1>3. \A w : DevStatusOf(w) \in Int /\ LuStatusOf(w) \in Int
  BY DEF DevStatusOf, LuStatusOf
<1>4. \A w \in {"TCP", "SCTP"} : TransportProto(w) \in Int
  BY DEF TransportProto
<1>5. \A w \in {"login", "logout"} : CxnStateOf(w) \in Int
  BY DEF CxnStateOf
<1>6. \A w \in {"Normal", "Discovery"} : SsnTypeOf(w) \in Int
  BY DEF SsnTypeOf
<1>7. \A w : w # Unset => NoneIsEmpty(w) # Unset
  BY <1>0 DEF NoneIsEmpty
<1>8. /\ RS_ACTIVE \in Int /\ ST_READONLY \in Int /\ ROLE_TARGET \in Int
      /\ SSN_DIR_INBOUND \in Int /\ AUTH_INST_INDEX \in Int /\ AUTH_ID_NAME_INDEX \in Int
      /\ EXPOSED \in Int /\ TV_TRUE \in Int /\ SCSI_TRANSPORT_INDEX \in Int
  BY DEF RS_ACTIVE, ST_READONLY, ROLE_TARGET, SSN_DIR_INBOUND, AUTH_INST_INDEX, EXPOSED, TV_TRUE,
     SCSI_TRANSPORT_INDEX, AUTH_ID_NAME_INDEX
<1>. QED BY <1>0, <1>1, <1>2, <1>3, <1>4, <1>5, <1>6, <1>7, <1>8

\* The words k are those of a record of the table, and perhaps an alias.
Fit(t, k) ==
    /\ Len(k) >= Len(Table(t).line) /\ \E S : k \in Seq(S)
    /\ \A i \in 1 .. Keys(t) : k[i] \in Int
    /\ \A i \in DOMAIN Table(t).line :
         i > Keys(t) => k[i] \in {Table(t).line[i][1], Table(t).line[i][2]}
    /\ Table(t).alias => k[Len(Table(t).line) + 1] # Unset

\* What comes of it: every word is something, and those of which a column has a number are of
\* their kind.
Told(table, k) ==
    /\ Len(k) >= Len(table.line) /\ \E S : k \in Seq(S)
    /\ \A i \in DOMAIN table.line :
         /\ k[i] # Unset
         /\ table.line[i] = Key => k[i] \in Int
         /\ table.line[i] = Proto => k[i] \in {"TCP", "SCTP"}
         /\ table.line[i] = CxnState => k[i] \in {"login", "logout"}
         /\ table.line[i] = SsnType => k[i] \in {"Normal", "Discovery"}
         /\ table.line[i] = U64 => k[i].low \in Int
    /\ table.alias => k[Len(table.line) + 1] # Unset

-----------------------------------------------------------------------------
(* The lines of the tables *)

\* The lines of iscsiMib,
LEMMA IscsiKinds ==
    \A t \in init_iscsiMib : LET line == Iscsi_table[t].line
                          IN  \A i \in DOMAIN line : line[i] \in Kinds \cup {Key}
<1>1. LET line == iscsiInstAttributes_table.line
      IN  \A i \in DOMAIN line : line[i] \in Kinds \cup {Key}
  BY DEF iscsiInstAttributes_table, iscsiInstAttributes_LINE, Kinds
<1>2. LET line == iscsiInstSsnErrStats_table.line
      IN  \A i \in DOMAIN line : line[i] \in Kinds \cup {Key}
  BY DEF iscsiInstSsnErrStats_table, iscsiInstSsnErrStats_LINE, Kinds
<1>3. LET line == iscsiPortalAttributes_table.line
      IN  \A i \in DOMAIN line : line[i] \in Kinds \cup {Key}
  BY DEF iscsiPortalAttributes_table, iscsiPortalAttributes_LINE, Kinds
<1>4. LET line == iscsiTgtPortalAttributes_table.line
      IN  \A i \in DOMAIN line : line[i] \in Kinds \cup {Key}
  BY DEF iscsiTgtPortalAttributes_table, iscsiTgtPortalAttributes_LINE, Kinds
<1>5. LET line == iscsiNodeAttributes_table.line
      IN  \A i \in DOMAIN line : line[i] \in Kinds \cup {Key}
  BY DEF iscsiNodeAttributes_table, iscsiNodeAttributes_LINE, Kinds
<1>6. LET line == iscsiTargetAttributes_table.line
      IN  \A i \in DOMAIN line : line[i] \in Kinds \cup {Key}
  BY DEF iscsiTargetAttributes_table, iscsiTargetAttributes_LINE, Kinds
<1>7. LET line == iscsiTgtLoginStats_table.line
      IN  \A i \in DOMAIN line : line[i] \in Kinds \cup {Key}
  BY DEF iscsiTgtLoginStats_table, iscsiTgtLoginStats_LINE, Kinds
<1>8. LET line == iscsiTgtLogoutStats_table.line
      IN  \A i \in DOMAIN line : line[i] \in Kinds \cup {Key}
  BY DEF iscsiTgtLogoutStats_table, iscsiTgtLogoutStats_LINE, Kinds
<1>9. LET line == iscsiTgtAuthAttributes_table.line
      IN  \A i \in DOMAIN line : line[i] \in Kinds \cup {Key}
  BY DEF iscsiTgtAuthAttributes_table, iscsiTgtAuthAttributes_LINE, Kinds
<1>10. LET line == iscsiSessionAttributes_table.line
      IN  \A i \in DOMAIN line : line[i] \in Kinds \cup {Key}
  BY DEF iscsiSessionAttributes_table, iscsiSessionAttributes_LINE, Kinds
<1>11. LET line == iscsiSessionStats_table.line
      IN  \A i \in DOMAIN line : line[i] \in Kinds \cup {Key}
  BY DEF iscsiSessionStats_table, iscsiSessionStats_LINE, Kinds
<1>12. LET line == iscsiSsnCxnErrStats_table.line
      IN  \A i \in DOMAIN line : line[i] \in Kinds \cup {Key}
  BY DEF iscsiSsnCxnErrStats_table, iscsiSsnCxnErrStats_LINE, Kinds
<1>13. LET line == iscsiCxnAttributes_table.line
      IN  \A i \in DOMAIN line : line[i] \in Kinds \cup {Key}
  BY DEF iscsiCxnAttributes_table, iscsiCxnAttributes_LINE, Kinds
<1>. QED BY <1>1, <1>2, <1>3, <1>4, <1>5, <1>6, <1>7, <1>8, <1>9, <1>10, <1>11, <1>12, <1>13
     DEF init_iscsiMib, Iscsi_table

\* of scsiMib
LEMMA ScsiKinds ==
    \A t \in init_scsiMib : LET line == Scsi_table[t].line
                          IN  \A i \in DOMAIN line : line[i] \in Kinds \cup {Key}
<1>1. LET line == scsiInstanceTable_table.line
      IN  \A i \in DOMAIN line : line[i] \in Kinds \cup {Key}
  BY DEF scsiInstanceTable_table, scsiInstanceTable_LINE, Kinds
<1>2. LET line == scsiDeviceTable_table.line
      IN  \A i \in DOMAIN line : line[i] \in Kinds \cup {Key}
  BY DEF scsiDeviceTable_table, scsiDeviceTable_LINE, Kinds
<1>3. LET line == scsiPortTable_table.line
      IN  \A i \in DOMAIN line : line[i] \in Kinds \cup {Key}
  BY DEF scsiPortTable_table, scsiPortTable_LINE, Kinds
<1>4. LET line == scsiTransportTable_table.line
      IN  \A i \in DOMAIN line : line[i] \in Kinds \cup {Key}
  BY DEF scsiTransportTable_table, scsiTransportTable_LINE, Kinds
<1>5. LET line == scsiTgtDevTable_table.line
      IN  \A i \in DOMAIN line : line[i] \in Kinds \cup {Key}
  BY DEF scsiTgtDevTable_table, scsiTgtDevTable_LINE, Kinds
<1>6. LET line == scsiTgtPortTable_table.line
      IN  \A i \in DOMAIN line : line[i] \in Kinds \cup {Key}
  BY DEF scsiTgtPortTable_table, scsiTgtPortTable_LINE, Kinds
<1>7. LET line == scsiAuthorizedIntrTable_table.line
      IN  \A i \in DOMAIN line : line[i] \in Kinds \cup {Key}
  BY DEF scsiAuthorizedIntrTable_table, scsiAuthorizedIntrTable_LINE, Kinds
<1>8. LET line == scsiAttIntrPortTable_table.line
      IN  \A i \in DOMAIN line : line[i] \in Kinds \cup {Key}
  BY DEF scsiAttIntrPortTable_table, scsiAttIntrPortTable_LINE, Kinds
<1>9. LET line == scsiLuTable_table.line
      IN  \A i \in DOMAIN line : line[i] \in Kinds \cup {Key}
  BY DEF scsiLuTable_table, scsiLuTable_LINE, Kinds
<1>. QED BY <1>1, <1>2, <1>3, <1>4, <1>5, <1>6, <1>7, <1>8, <1>9 DEF init_scsiMib, Scsi_table

\* and of ipsAuthMib have words of these kinds.
LEMMA IpsAuthKinds ==
    \A t \in init_ipsAuthMib : LET line == IpsAuth_table[t].line
                          IN  \A i \in DOMAIN line : line[i] \in Kinds \cup {Key}
<1>1. LET line == ipsAuthInstAttr_table.line
      IN  \A i \in DOMAIN line : line[i] \in Kinds \cup {Key}
  BY DEF ipsAuthInstAttr_table, ipsAuthInstAttr_LINE, Kinds
<1>2. LET line == ipsAuthIdentAttr_table.line
      IN  \A i \in DOMAIN line : line[i] \in Kinds \cup {Key}
  BY DEF ipsAuthIdentAttr_table, ipsAuthIdentAttr_LINE, Kinds
<1>3. LET line == ipsAuthIdentNameAttr_table.line
      IN  \A i \in DOMAIN line : line[i] \in Kinds \cup {Key}
  BY DEF ipsAuthIdentNameAttr_table, ipsAuthIdentNameAttr_LINE, Kinds
<1>4. LET line == ipsAuthCredAttr_table.line
      IN  \A i \in DOMAIN line : line[i] \in Kinds \cup {Key}
  BY DEF ipsAuthCredAttr_table, ipsAuthCredAttr_LINE, Kinds
<1>5. LET line == ipsAuthCredChapAttr_table.line
      IN  \A i \in DOMAIN line : line[i] \in Kinds \cup {Key}
  BY DEF ipsAuthCredChapAttr_table, ipsAuthCredChapAttr_LINE, Kinds
<1>. QED BY <1>1, <1>2, <1>3, <1>4, <1>5 DEF init_ipsAuthMib, IpsAuth_table

-----------------------------------------------------------------------------
(* What the loads and handlers of each table make of such words *)

\* A part of the words is a structure too.
LEMMA PartsApart ==
    ASSUME UnsetIsApart, NEW k, \E S : k \in Seq(S), Len(k) >= 13
    PROVE  SubSeq(k, 8, 13) # Unset
<1> DEFINE p == SubSeq(k, 8, 13)
<1>1. PICK S : k \in Seq(S)
  OBVIOUS
<1>2. p \in Seq(S)
  BY <1>1
<1>. HIDE DEF p
<1>3. p = [x \in DOMAIN p |-> p[x]]
  BY <1>2
<1>4. p # Unset
  BY <1>3 DEF UnsetIsApart
<1>. QED BY <1>4 DEF p

\* What the loads of iscsiMib store fills the columns of its tables,
LEMMA IscsiFilled ==
    ASSUME UnsetIsApart, NEW t \in init_iscsiMib \ Polled, NEW k, Told(Iscsi_table[t], k)
    PROVE  \A c \in DOMAIN Iscsi_table[t].columns :
             Iscsi_handler(t, Iscsi_load(t, k), c) = Unset => Iscsi_table[t].columns[c] \in Hollow
<1>. SUFFICES ASSUME NEW c \in DOMAIN Iscsi_table[t].columns,
                      Iscsi_handler(t, Iscsi_load(t, k), c) = Unset
              PROVE  Iscsi_table[t].columns[c] \in Hollow
  OBVIOUS
<1>. USE StructuresApart, NumbersApart
<1>0. Unset \notin Int
  BY DEF UnsetIsApart
<1>1. ASSUME Told(iscsiInstAttributes_table, k), c \in DOMAIN iscsiInstAttributes_table.columns,
             iscsiInstAttributes_handler(iscsiInstAttributes_load(k), c) = Unset
      PROVE  iscsiInstAttributes_table.columns[c] \in Hollow
  <2> DEFINE line == iscsiInstAttributes_table.line
  <2>1. DOMAIN line = 1 .. 13
    BY DEF iscsiInstAttributes_table, iscsiInstAttributes_LINE
  <2>. HIDE DEF line
  <2>2. \A i \in 1 .. 13 : k[i] # Unset
    BY <1>0, <1>1, <2>1 DEF Told, line
  <2>. QED
    BY <1>1, <2>2, SMTT(60)
       DEF iscsiInstAttributes_table, iscsiInstAttributes_columns, iscsiInstAttributes_handler,
           iscsiInstAttributes_load, Column, Hollow
<1>2. ASSUME Told(iscsiInstSsnErrStats_table, k),
             c \in DOMAIN iscsiInstSsnErrStats_table.columns,
             iscsiInstSsnErrStats_handler(iscsiInstSsnErrStats_load(k), c) = Unset
      PROVE  iscsiInstSsnErrStats_table.columns[c] \in Hollow
  <2> DEFINE line == iscsiInstSsnErrStats_table.line
  <2>1. DOMAIN line = 1 .. 4
    BY DEF iscsiInstSsnErrStats_table, iscsiInstSsnErrStats_LINE
  <2>. HIDE DEF line
  <2>2. \A i \in 1 .. 4 : k[i] # Unset
    BY <1>0, <1>2, <2>1 DEF Told, line
  <2>. QED
    BY <1>2, <2>2, SMTT(60)
       DEF iscsiInstSsnErrStats_table, iscsiInstSsnErrStats_columns,
           iscsiInstSsnErrStats_handler, iscsiInstSsnErrStats_load, Column, Hollow
<1>3. ASSUME Told(iscsiPortalAttributes_table, k),
             c \in DOMAIN iscsiPortalAttributes_table.columns,
             iscsiPortalAttributes_handler(iscsiPortalAttributes_load(k), c) = Unset
      PROVE  iscsiPortalAttributes_table.columns[c] \in Hollow
  <2> DEFINE line == iscsiPortalAttributes_table.line
  <2>1. DOMAIN line = 1 .. 10 /\ line[6] = Proto
    BY DEF iscsiPortalAttributes_table, iscsiPortalAttributes_LINE
  <2>. HIDE DEF line
  <2>2. /\ \A i \in 1 .. 10 : k[i] # Unset
        /\ k[6] \in {"TCP", "SCTP"}
    BY <1>0, <1>3, <2>1 DEF Told, line
  <2>. QED
    BY <1>3, <2>2, SMTT(60)
       DEF iscsiPortalAttributes_table, iscsiPortalAttributes_columns,
           iscsiPortalAttributes_handler, iscsiPortalAttributes_load, Column, Hollow
<1>4. ASSUME Told(iscsiTgtPortalAttributes_table, k),
             c \in DOMAIN iscsiTgtPortalAttributes_table.columns,
             iscsiTgtPortalAttributes_handler(iscsiTgtPortalAttributes_load(k), c) = Unset
      PROVE  iscsiTgtPortalAttributes_table.columns[c] \in Hollow
  <2> DEFINE line == iscsiTgtPortalAttributes_table.line
  <2>1. DOMAIN line = 1 .. 5
    BY DEF iscsiTgtPortalAttributes_table, iscsiTgtPortalAttributes_LINE
  <2>. HIDE DEF line
  <2>2. \A i \in 1 .. 5 : k[i] # Unset
    BY <1>0, <1>4, <2>1 DEF Told, line
  <2>. QED
    BY <1>4, <2>2, SMTT(60)
       DEF iscsiTgtPortalAttributes_table, iscsiTgtPortalAttributes_columns,
           iscsiTgtPortalAttributes_handler, iscsiTgtPortalAttributes_load, Column, Hollow
<1>5. ASSUME Told(iscsiNodeAttributes_table, k), c \in DOMAIN iscsiNodeAttributes_table.columns,
             iscsiNodeAttributes_handler(iscsiNodeAttributes_load(k), c) = Unset
      PROVE  iscsiNodeAttributes_table.columns[c] \in Hollow
  <2> DEFINE line == iscsiNodeAttributes_table.line
  <2>1. DOMAIN line = 1 .. 16 /\ Len(line) = 16 /\ iscsiNodeAttributes_table.alias
    BY DEF iscsiNodeAttributes_table, iscsiNodeAttributes_LINE
  <2>. HIDE DEF line
  <2>2. /\ \A i \in 1 .. 16 : k[i] # Unset
        /\ k[17] # Unset
    BY <1>0, <1>5, <2>1 DEF Told, line
  <2>. QED
    BY <1>5, <2>2, SMTT(60)
       DEF iscsiNodeAttributes_table, iscsiNodeAttributes_columns, iscsiNodeAttributes_handler,
           iscsiNodeAttributes_load, Column, Hollow
<1>6. ASSUME Told(iscsiTgtLoginStats_table, k), c \in DOMAIN iscsiTgtLoginStats_table.columns,
             iscsiTgtLoginStats_handler(iscsiTgtLoginStats_load(k), c) = Unset
      PROVE  iscsiTgtLoginStats_table.columns[c] \in Hollow
  <2> DEFINE line == iscsiTgtLoginStats_table.line
  <2>1. DOMAIN line = 1 .. 8
    BY DEF iscsiTgtLoginStats_table, iscsiTgtLoginStats_LINE
  <2>. HIDE DEF line
  <2>2. \A i \in 1 .. 8 : k[i] # Unset
    BY <1>0, <1>6, <2>1 DEF Told, line
  <2>. QED
    BY <1>6, <2>2, SMTT(60)
       DEF iscsiTgtLoginStats_table, iscsiTgtLoginStats_columns, iscsiTgtLoginStats_handler,
           iscsiTgtLoginStats_load, Column, Hollow
<1>7. ASSUME Told(iscsiTgtLogoutStats_table, k), c \in DOMAIN iscsiTgtLogoutStats_table.columns,
             iscsiTgtLogoutStats_handler(iscsiTgtLogoutStats_load(k), c) = Unset
      PROVE  iscsiTgtLogoutStats_table.columns[c] \in Hollow
  <2> DEFINE line == iscsiTgtLogoutStats_table.line
  <2>1. DOMAIN line = 1 .. 4
    BY DEF iscsiTgtLogoutStats_table, iscsiTgtLogoutStats_LINE
  <2>. HIDE DEF line
  <2>2. \A i \in 1 .. 4 : k[i] # Unset
    BY <1>0, <1>7, <2>1 DEF Told, line
  <2>. QED
    BY <1>7, <2>2, SMTT(60)
       DEF iscsiTgtLogoutStats_table, iscsiTgtLogoutStats_columns, iscsiTgtLogoutStats_handler,
           iscsiTgtLogoutStats_load, Column, Hollow
<1>8. ASSUME Told(iscsiTgtAuthAttributes_table, k),
             c \in DOMAIN iscsiTgtAuthAttributes_table.columns,
             iscsiTgtAuthAttributes_handler(iscsiTgtAuthAttributes_load(k), c) = Unset
      PROVE  iscsiTgtAuthAttributes_table.columns[c] \in Hollow
  <2> DEFINE line == iscsiTgtAuthAttributes_table.line
  <2>1. DOMAIN line = 1 .. 4
    BY DEF iscsiTgtAuthAttributes_table, iscsiTgtAuthAttributes_LINE
  <2>. HIDE DEF line
  <2>2. \A i \in 1 .. 4 : k[i] # Unset
    BY <1>0, <1>8, <2>1 DEF Told, line
  <2>. QED
    BY <1>8, <2>2, SMTT(60)
       DEF iscsiTgtAuthAttributes_table, iscsiTgtAuthAttributes_columns,
           iscsiTgtAuthAttributes_handler, iscsiTgtAuthAttributes_load, Column, Hollow
<1>9. ASSUME Told(iscsiSessionAttributes_table, k),
             c \in DOMAIN iscsiSessionAttributes_table.columns,
             iscsiSessionAttributes_handler(iscsiSessionAttributes_load(k), c) = Unset
      PROVE  iscsiSessionAttributes_table.columns[c] \in Hollow
  <2> DEFINE line == iscsiSessionAttributes_table.line
  <2>1. DOMAIN line = 1 .. 27 /\ Len(line) = 27 /\ line[16] = SsnType
    BY DEF iscsiSessionAttributes_table, iscsiSessionAttributes_LINE
  <2>. HIDE DEF line
  <2>2. \A i \in 1 .. 27 : k[i] # Unset
    BY <1>9, <2>1 DEF Told, line
  <2>3. k[16] \in {"Normal", "Discovery"}
    BY <1>9, <2>1 DEF Told, line
  <2>4. Len(k) >= 27 /\ \E S : k \in Seq(S)
    BY <1>9, <2>1 DEF Told, line
  <2>5. SubSeq(k, 8, 13) # Unset
    <3>1. Len(k) >= 13
      BY <2>4
    <3>. QED BY <2>4, <3>1, PartsApart
  <2>6. iscsiSessionAttributes_table.columns = iscsiSessionAttributes_columns
    BY DEF iscsiSessionAttributes_table
  <2>7. k[26] # Unset /\ k[16] # Unset /\ SsnTypeOf(k[16]) # Unset /\ NoneIsEmpty(k[26]) # Unset
    BY <2>2, <2>3
  <2>. QED
    BY <1>9, <2>2, <2>5, <2>6, <2>7, SMTT(60)
       DEF iscsiSessionAttributes_columns, iscsiSessionAttributes_handler,
           iscsiSessionAttributes_load, Column, Hollow
<1>10. ASSUME Told(iscsiSessionStats_table, k), c \in DOMAIN iscsiSessionStats_table.columns,
             iscsiSessionStats_handler(iscsiSessionStats_load(k), c) = Unset
      PROVE  iscsiSessionStats_table.columns[c] \in Hollow
  <2> DEFINE line == iscsiSessionStats_table.line
  <2>1. DOMAIN line = 1 .. 7 /\ line[6] = U64 /\ line[7] = U64
    BY DEF iscsiSessionStats_table, iscsiSessionStats_LINE
  <2>. HIDE DEF line
  <2>2. /\ \A i \in 1 .. 7 : k[i] # Unset
        /\ k[6].low # Unset
        /\ k[7].low # Unset
    BY <1>0, <1>10, <2>1 DEF Told, line
  <2>. QED
    BY <1>10, <2>2, SMTT(60)
       DEF iscsiSessionStats_table, iscsiSessionStats_columns, iscsiSessionStats_handler,
           iscsiSessionStats_load, Column, Hollow
<1>11. ASSUME Told(iscsiSsnCxnErrStats_table, k), c \in DOMAIN iscsiSsnCxnErrStats_table.columns,
             iscsiSsnCxnErrStats_handler(iscsiSsnCxnErrStats_load(k), c) = Unset
      PROVE  iscsiSsnCxnErrStats_table.columns[c] \in Hollow
  <2> DEFINE line == iscsiSsnCxnErrStats_table.line
  <2>1. DOMAIN line = 1 .. 5
    BY DEF iscsiSsnCxnErrStats_table, iscsiSsnCxnErrStats_LINE
  <2>. HIDE DEF line
  <2>2. \A i \in 1 .. 5 : k[i] # Unset
    BY <1>0, <1>11, <2>1 DEF Told, line
  <2>. QED
    BY <1>11, <2>2, SMTT(60)
       DEF iscsiSsnCxnErrStats_table, iscsiSsnCxnErrStats_columns, iscsiSsnCxnErrStats_handler,
           iscsiSsnCxnErrStats_load, Column, Hollow
<1>12. ASSUME Told(iscsiCxnAttributes_table, k), c \in DOMAIN iscsiCxnAttributes_table.columns,
             iscsiCxnAttributes_handler(iscsiCxnAttributes_load(k), c) = Unset
      PROVE  iscsiCxnAttributes_table.columns[c] \in Hollow
  <2> DEFINE line == iscsiCxnAttributes_table.line
  <2>1. DOMAIN line = 1 .. 19 /\ line[6] = CxnState /\ line[9] = Proto
    BY DEF iscsiCxnAttributes_table, iscsiCxnAttributes_LINE
  <2>. HIDE DEF line
  <2>2. /\ \A i \in 1 .. 19 : k[i] # Unset
        /\ k[6] \in {"login", "logout"}
        /\ k[9] \in {"TCP", "SCTP"}
    BY <1>0, <1>12, <2>1 DEF Told, line
  <2>. QED
    BY <1>12, <2>2, SMTT(60)
       DEF iscsiCxnAttributes_table, iscsiCxnAttributes_columns, iscsiCxnAttributes_handler,
           iscsiCxnAttributes_load, Column, Hollow
<1>. QED
  BY <1>1, <1>2, <1>3, <1>4, <1>5, <1>6, <1>7, <1>8, <1>9, <1>10, <1>11, <1>12, SMTT(60)
     DEF init_iscsiMib, Iscsi_table, Iscsi_load, Iscsi_handler, Polled, SsnFailure, TgtAttr,
         TgtDev

\* so does that of scsiMib
LEMMA ScsiFilled ==
    ASSUME UnsetIsApart, NEW t \in init_scsiMib \ Polled, NEW k, Told(Scsi_table[t], k)
    PROVE  \A c \in DOMAIN Scsi_table[t].columns :
             Scsi_handler(t, Scsi_load(t, k), c) = Unset => Scsi_table[t].columns[c] \in Hollow
<1>. SUFFICES ASSUME NEW c \in DOMAIN Scsi_table[t].columns,
                      Scsi_handler(t, Scsi_load(t, k), c) = Unset
              PROVE  Scsi_table[t].columns[c] \in Hollow
  OBVIOUS
<1>. USE StructuresApart, NumbersApart
<1>0. Unset \notin Int
  BY DEF UnsetIsApart
<1>1. ASSUME Told(scsiInstanceTable_table, k), c \in DOMAIN scsiInstanceTable_table.columns,
             scsiInstanceTable_handler(scsiInstanceTable_load(k), c) = Unset
      PROVE  scsiInstanceTable_table.columns[c] \in Hollow
  <2> DEFINE line == scsiInstanceTable_table.line
  <2>1. DOMAIN line = 1 .. 3 /\ Len(line) = 3 /\ scsiInstanceTable_table.alias
    BY DEF scsiInstanceTable_table, scsiInstanceTable_LINE
  <2>. HIDE DEF line
  <2>2. /\ \A i \in 1 .. 3 : k[i] # Unset
        /\ k[4] # Unset
    BY <1>0, <1>1, <2>1 DEF Told, line
  <2>. QED
    BY <1>1, <2>2, SMTT(60)
       DEF scsiInstanceTable_table, scsiInstanceTable_columns, scsiInstanceTable_handler,
           scsiInstanceTable_load, Column, Hollow
<1>2. ASSUME Told(scsiDeviceTable_table, k), c \in DOMAIN scsiDeviceTable_table.columns,
             scsiDeviceTable_handler(scsiDeviceTable_load(k), c) = Unset
      PROVE  scsiDeviceTable_table.columns[c] \in Hollow
  <2> DEFINE line == scsiDeviceTable_table.line
  <2>1. DOMAIN line = 1 .. 5
    BY DEF scsiDeviceTable_table, scsiDeviceTable_LINE
  <2>. HIDE DEF line
  <2>2. \A i \in 1 .. 5 : k[i] # Unset
    BY <1>0, <1>2, <2>1 DEF Told, line
  <2>. QED
    BY <1>2, <2>2, SMTT(60)
       DEF scsiDeviceTable_table, scsiDeviceTable_columns, scsiDeviceTable_handler,
           scsiDeviceTable_load, Column, Hollow
<1>3. ASSUME Told(scsiPortTable_table, k), c \in DOMAIN scsiPortTable_table.columns,
             scsiPortTable_handler(scsiPortTable_load(k), c) = Unset
      PROVE  scsiPortTable_table.columns[c] \in Hollow
  <2> DEFINE line == scsiPortTable_table.line
  <2>1. DOMAIN line = 1 .. 5
    BY DEF scsiPortTable_table, scsiPortTable_LINE
  <2>. HIDE DEF line
  <2>2. \A i \in 1 .. 5 : k[i] # Unset
    BY <1>0, <1>3, <2>1 DEF Told, line
  <2>. QED
    BY <1>3, <2>2, SMTT(60)
       DEF scsiPortTable_table, scsiPortTable_columns, scsiPortTable_handler, scsiPortTable_load,
           Column, Hollow
<1>4. ASSUME Told(scsiTransportTable_table, k), c \in DOMAIN scsiTransportTable_table.columns,
             scsiTransportTable_handler(scsiTransportTable_load(k), c) = Unset
      PROVE  scsiTransportTable_table.columns[c] \in Hollow
  <2> DEFINE line == scsiTransportTable_table.line
  <2>1. DOMAIN line = 1 .. 4
    BY DEF scsiTransportTable_table, scsiTransportTable_LINE
  <2>. HIDE DEF line
  <2>2. \A i \in 1 .. 4 : k[i] # Unset
    BY <1>0, <1>4, <2>1 DEF Told, line
  <2>. QED
    BY <1>4, <2>2, SMTT(60)
       DEF scsiTransportTable_table, scsiTransportTable_columns, scsiTransportTable_handler,
           scsiTransportTable_load, Column, Hollow
<1>5. ASSUME Told(scsiTgtPortTable_table, k), c \in DOMAIN scsiTgtPortTable_table.columns,
             scsiTgtPortTable_handler(scsiTgtPortTable_load(k), c) = Unset
      PROVE  scsiTgtPortTable_table.columns[c] \in Hollow
  <2> DEFINE line == scsiTgtPortTable_table.line
  <2>1. DOMAIN line = 1 .. 8 /\ line[6] = U64
    BY DEF scsiTgtPortTable_table, scsiTgtPortTable_LINE
  <2>. HIDE DEF line
  <2>2. /\ \A i \in 1 .. 8 : k[i] # Unset
        /\ k[6].low # Unset
    BY <1>0, <1>5, <2>1 DEF Told, line
  <2>. QED
    BY <1>5, <2>2, SMTT(60)
       DEF scsiTgtPortTable_table, scsiTgtPortTable_columns, scsiTgtPortTable_handler,
           scsiTgtPortTable_load, Column, Hollow
<1>6. ASSUME Told(scsiAuthorizedIntrTable_table, k),
             c \in DOMAIN scsiAuthorizedIntrTable_table.columns,
             scsiAuthorizedIntrTable_handler(scsiAuthorizedIntrTable_load(k), c) = Unset
      PROVE  scsiAuthorizedIntrTable_table.columns[c] \in Hollow
  <2> DEFINE line == scsiAuthorizedIntrTable_table.line
  <2>1. DOMAIN line = 1 .. 12
    BY DEF scsiAuthorizedIntrTable_table, scsiAuthorizedIntrTable_LINE
  <2>. HIDE DEF line
  <2>2. \A i \in 1 .. 12 : k[i] # Unset
    BY <1>0, <1>6, <2>1 DEF Told, line
  <2>. QED
    BY <1>6, <2>2, SMTT(60)
       DEF scsiAuthorizedIntrTable_table, scsiAuthorizedIntrTable_columns,
           scsiAuthorizedIntrTable_handler, scsiAuthorizedIntrTable_load, Column, Hollow
<1>7. ASSUME Told(scsiAttIntrPortTable_table, k),
             c \in DOMAIN scsiAttIntrPortTable_table.columns,
             scsiAttIntrPortTable_handler(scsiAttIntrPortTable_load(k), c) = Unset
      PROVE  scsiAttIntrPortTable_table.columns[c] \in Hollow
  <2> DEFINE line == scsiAttIntrPortTable_table.line
  <2>1. DOMAIN line = 1 .. 6
    BY DEF scsiAttIntrPortTable_table, scsiAttIntrPortTable_LINE
  <2>. HIDE DEF line
  <2>2. \A i \in 1 .. 6 : k[i] # Unset
    BY <1>0, <1>7, <2>1 DEF Told, line
  <2>. QED
    BY <1>7, <2>2, SMTT(60)
       DEF scsiAttIntrPortTable_table, scsiAttIntrPortTable_columns,
           scsiAttIntrPortTable_handler, scsiAttIntrPortTable_load, Column, Hollow
<1>8. ASSUME Told(scsiLuTable_table, k), c \in DOMAIN scsiLuTable_table.columns,
             scsiLuTable_handler(scsiLuTable_load(k), c) = Unset
      PROVE  scsiLuTable_table.columns[c] \in Hollow
  <2> DEFINE line == scsiLuTable_table.line
  <2>1. DOMAIN line = 1 .. 15 /\ line[4] = U64 /\ line[9] = U64
    BY DEF scsiLuTable_table, scsiLuTable_LINE
  <2>. HIDE DEF line
  <2>2. /\ \A i \in 1 .. 15 : k[i] # Unset
        /\ k[4].low # Unset
        /\ k[9].low # Unset
    BY <1>0, <1>8, <2>1 DEF Told, line
  <2>. QED
    BY <1>8, <2>2, SMTT(60)
       DEF scsiLuTable_table, scsiLuTable_columns, scsiLuTable_handler, scsiLuTable_load, Column,
           Hollow
<1>. QED
  BY <1>1, <1>2, <1>3, <1>4, <1>5, <1>6, <1>7, <1>8, SMTT(60)
     DEF init_scsiMib, Scsi_table, Scsi_load, Scsi_handler, Polled, SsnFailure, TgtAttr, TgtDev

\* and of ipsAuthMib.
LEMMA IpsAuthFilled ==
    ASSUME UnsetIsApart, NEW t \in init_ipsAuthMib \ Polled, NEW k, Told(IpsAuth_table[t], k)
    PROVE  \A c \in DOMAIN IpsAuth_table[t].columns :
             IpsAuth_handler(t, IpsAuth_load(t, k), c) = Unset =>
               IpsAuth_table[t].columns[c] \in Hollow
<1>. SUFFICES ASSUME NEW c \in DOMAIN IpsAuth_table[t].columns,
                      IpsAuth_handler(t, IpsAuth_load(t, k), c) = Unset
              PROVE  IpsAuth_table[t].columns[c] \in Hollow
  OBVIOUS
<1>. USE StructuresApart, NumbersApart
<1>0. Unset \notin Int
  BY DEF UnsetIsApart
<1>1. ASSUME Told(ipsAuthInstAttr_table, k), c \in DOMAIN ipsAuthInstAttr_table.columns,
             ipsAuthInstAttr_handler(ipsAuthInstAttr_load(k), c) = Unset
      PROVE  ipsAuthInstAttr_table.columns[c] \in Hollow
  <2>2. ipsAuthInstAttr_table.columns = ipsAuthInstAttr_columns
    BY DEF ipsAuthInstAttr_table
  <2> DEFINE descr == "iSCSI Target"
  <2>3. descr # Unset
    BY DEF UnsetIsApart
  <2>4. ipsAuthInstAttr_load(k) =
          [ipsAuthInstIndex |-> AUTH_INST_INDEX, ipsAuthInstDescr |-> descr,
           ipsAuthInstStorageType |-> ST_READONLY]
    BY Zenon DEF ipsAuthInstAttr_load
  <2>. HIDE DEF descr
  <2>. QED
    BY <1>1, <2>2, <2>3, <2>4
       DEF ipsAuthInstAttr_columns, ipsAuthInstAttr_handler, Column, Hollow
<1>2. ASSUME Told(ipsAuthIdentAttr_table, k), c \in DOMAIN ipsAuthIdentAttr_table.columns,
             ipsAuthIdentAttr_handler(ipsAuthIdentAttr_load(k), c) = Unset
      PROVE  ipsAuthIdentAttr_table.columns[c] \in Hollow
  <2> DEFINE line == ipsAuthIdentAttr_table.line
  <2>1. DOMAIN line = 1 .. 2
    BY DEF ipsAuthIdentAttr_table, ipsAuthIdentAttr_LINE
  <2>. HIDE DEF line
  <2>2. \A i \in 1 .. 2 : k[i] # Unset
    BY <1>0, <1>2, <2>1 DEF Told, line
  <2>. QED
    BY <1>2, <2>2, SMTT(60)
       DEF ipsAuthIdentAttr_table, ipsAuthIdentAttr_columns, ipsAuthIdentAttr_handler,
           ipsAuthIdentAttr_load, Column, Hollow
<1>3. ASSUME Told(ipsAuthIdentNameAttr_table, k),
             c \in DOMAIN ipsAuthIdentNameAttr_table.columns,
             ipsAuthIdentNameAttr_handler(ipsAuthIdentNameAttr_load(k), c) = Unset
      PROVE  ipsAuthIdentNameAttr_table.columns[c] \in Hollow
  <2> DEFINE line == ipsAuthIdentNameAttr_table.line
  <2>1. DOMAIN line = 1 .. 2
    BY DEF ipsAuthIdentNameAttr_table, ipsAuthIdentNameAttr_LINE
  <2>. HIDE DEF line
  <2>2. \A i \in 1 .. 2 : k[i] # Unset
    BY <1>0, <1>3, <2>1 DEF Told, line
  <2>. QED
    BY <1>3, <2>2, SMTT(60)
       DEF ipsAuthIdentNameAttr_table, ipsAuthIdentNameAttr_columns,
           ipsAuthIdentNameAttr_handler, ipsAuthIdentNameAttr_load, Column, Hollow
<1>4. ASSUME Told(ipsAuthCredAttr_table, k), c \in DOMAIN ipsAuthCredAttr_table.columns,
             ipsAuthCredAttr_handler(ipsAuthCredAttr_load(k), c) = Unset
      PROVE  ipsAuthCredAttr_table.columns[c] \in Hollow
  <2> DEFINE line == ipsAuthCredAttr_table.line
  <2>1. DOMAIN line = 1 .. 3 /\ line[2] = Key
    BY DEF ipsAuthCredAttr_table, ipsAuthCredAttr_LINE
  <2>. HIDE DEF line
  <2>2. /\ \A i \in 1 .. 3 : k[i] # Unset
        /\ k[2] + 1 # Unset
    BY <1>0, <1>4, <2>1 DEF Told, line
  <2>. QED
    BY <1>4, <2>2, SMTT(60)
       DEF ipsAuthCredAttr_table, ipsAuthCredAttr_columns, ipsAuthCredAttr_handler,
           ipsAuthCredAttr_load, Column, Hollow
<1>5. ASSUME Told(ipsAuthCredChapAttr_table, k), c \in DOMAIN ipsAuthCredChapAttr_table.columns,
             ipsAuthCredChapAttr_handler(ipsAuthCredChapAttr_load(k), c) = Unset
      PROVE  ipsAuthCredChapAttr_table.columns[c] \in Hollow
  <2> DEFINE line == ipsAuthCredChapAttr_table.line
  <2>1. DOMAIN line = 1 .. 3 /\ line[2] = Key
    BY DEF ipsAuthCredChapAttr_table, ipsAuthCredChapAttr_LINE
  <2>. HIDE DEF line
  <2>2. /\ \A i \in 1 .. 3 : k[i] # Unset
        /\ k[2] + 1 # Unset
    BY <1>0, <1>5, <2>1 DEF Told, line
  <2>. QED
    BY <1>5, <2>2, SMTT(60)
       DEF ipsAuthCredChapAttr_table, ipsAuthCredChapAttr_columns, ipsAuthCredChapAttr_handler,
           ipsAuthCredChapAttr_load, Column, Hollow
<1>. QED
  BY <1>1, <1>2, <1>3, <1>4, <1>5, SMTT(60)
     DEF init_ipsAuthMib, IpsAuth_table, IpsAuth_load, IpsAuth_handler, Polled, SsnFailure,
         TgtAttr, TgtDev

-----------------------------------------------------------------------------
(* All tables *)

\* The lines of all tables,
LEMMA LinesKinds ==
    ASSUME NEW t \in Tables \ {SsnFailure}
    PROVE  \A i \in DOMAIN Table(t).line : Table(t).line[i] \in Kinds \cup {Key}
<1>1. CASE t \in init_iscsiMib /\ Table(t) = Iscsi_table[t]
  BY <1>1, IscsiKinds
<1>2. CASE t \in init_scsiMib /\ Table(t) = Scsi_table[t]
  BY <1>2, ScsiKinds
<1>3. CASE t \in init_ipsAuthMib /\ Table(t) = IpsAuth_table[t]
  BY <1>3, IpsAuthKinds
<1>. QED BY <1>1, <1>2, <1>3, TablesApart

\* What comes of words that are a record's.
LEMMA FitIsTold ==
    ASSUME UnsetIsApart, NEW t \in Tables \ {SsnFailure}, NEW k, Fit(t, k)
    PROVE  Told(Table(t), k)
<1> DEFINE line == Table(t).line
<1>1. /\ Keys(t) \in Nat /\ DOMAIN line = 1 .. Len(line) /\ Len(line) \in Nat
      /\ {i \in DOMAIN line : line[i] = Key} = 1 .. Keys(t)
  BY TablesKeyed DEF Keyed
<1>2. \A i \in DOMAIN line : line[i] \in Kinds \cup {Key}
  BY LinesKinds
<1>3. /\ Key # Proto /\ Key # CxnState /\ Key # SsnType /\ Key # U64
  BY DEF Key, Proto, CxnState, SsnType, U64
<1>4. /\ {Proto[1], Proto[2]} = {"TCP", "SCTP"}
      /\ {CxnState[1], CxnState[2]} = {"login", "logout"}
      /\ {SsnType[1], SsnType[2]} = {"Normal", "Discovery"}
      /\ U64[1].low \in Int /\ U64[2].low \in Int
  BY DEF Proto, CxnState, SsnType, U64
<1>. HIDE DEF line
<1>5. /\ \A i \in 1 .. Keys(t) : k[i] \in Int
      /\ \A i \in DOMAIN line : i > Keys(t) => k[i] \in {line[i][1], line[i][2]}
  BY DEF Fit, line
<1>6. ASSUME NEW i \in DOMAIN line, i <= Keys(t)
      PROVE  line[i] = Key /\ k[i] \in Int /\ k[i] # Unset
  <2>1. i \in 1 .. Keys(t)
    BY <1>1, <1>6
  <2>. QED BY <1>1, <1>5, <2>1 DEF UnsetIsApart
<1>7. ASSUME NEW i \in DOMAIN line, i > Keys(t)
      PROVE  line[i] # Key /\ k[i] \in {line[i][1], line[i][2]} /\ k[i] # Unset
  <2>1. i \notin 1 .. Keys(t)
    BY <1>1, <1>7
  <2>2. line[i] # Key /\ line[i] \in Kinds
    BY <1>1, <1>2, <2>1
  <2>3. Unset \notin {line[i][1], line[i][2]}
    BY <2>2 DEF UnsetIsApart
  <2>. QED BY <1>5, <1>7, <2>2, <2>3
<1>8. \A i \in DOMAIN line : i <= Keys(t) \/ i > Keys(t)
  BY <1>1
<1>. HIDE DEF Key, Proto, CxnState, SsnType, U64
<1>9. \A i \in DOMAIN line :
        /\ k[i] # Unset
        /\ line[i] = Key => k[i] \in Int
        /\ line[i] = Proto => k[i] \in {"TCP", "SCTP"}
        /\ line[i] = CxnState => k[i] \in {"login", "logout"}
        /\ line[i] = SsnType => k[i] \in {"Normal", "Discovery"}
        /\ line[i] = U64 => k[i].low \in Int
  BY <1>3, <1>4, <1>6, <1>7, <1>8
<1>. QED BY <1>9 DEF Fit, Told, line

\* The columns of the row that have nothing are among those that may.
RowFilled(t, row) ==
    \A c \in DOMAIN Columns(t) : Handler(t, row, c) = Unset => Columns(t)[c] \in Hollow

\* The rows of cached tables,
LEMMA CachedFilled ==
    ASSUME UnsetIsApart, NEW t \in Tables \ Polled, NEW k, Fit(t, k)
    PROVE  RowFilled(t, Load(t, k))
<1>1. t \in Tables \ {SsnFailure} /\ Told(Table(t), k)
  BY FitIsTold DEF Polled
<1>2. CASE t \in init_iscsiMib
  <2>1. /\ Table(t) = Iscsi_table[t] /\ Load(t, k) = Iscsi_load(t, k)
        /\ t \notin init_scsiMib /\ t \notin init_ipsAuthMib
    BY <1>1, <1>2, TablesApart
  <2>2. \A row, c : Handler(t, row, c) = Iscsi_handler(t, row, c)
    BY <1>2, <2>1 DEF Handler
  <2>. QED BY <1>1, <1>2, <2>1, <2>2, IscsiFilled DEF RowFilled, Columns
<1>3. CASE t \in init_scsiMib
  <2>1. /\ Table(t) = Scsi_table[t] /\ Load(t, k) = Scsi_load(t, k)
        /\ t \notin init_iscsiMib /\ t \notin init_ipsAuthMib
    BY <1>1, <1>3, TablesApart
  <2>2. \A row, c : Handler(t, row, c) = Scsi_handler(t, row, c)
    BY <1>3, <2>1 DEF Handler
  <2>. QED BY <1>1, <1>3, <2>1, <2>2, ScsiFilled DEF RowFilled, Columns
<1>4. CASE t \in init_ipsAuthMib
  <2>1. /\ Table(t) = IpsAuth_table[t] /\ Load(t, k) = IpsAuth_load(t, k)
        /\ t \notin init_iscsiMib /\ t \notin init_scsiMib
    BY <1>1, <1>4, TablesApart
  <2>2. \A row, c : Handler(t, row, c) = IpsAuth_handler(t, row, c)
    BY <1>4, <2>1 DEF Handler
  <2>. QED BY <1>1, <1>4, <2>1, <2>2, IpsAuthFilled DEF RowFilled, Columns
<1>. QED BY <1>1, <1>2, <1>3, <1>4, TablesApart

\* that of nodes,
LEMMA NodesFilled ==
    ASSUME UnsetIsApart, NEW k, k[3] # Unset, k[4] # Unset, k[6] # Unset
    PROVE  RowFilled(TgtAttr, Load(TgtAttr, k))
<1>1. /\ Columns(TgtAttr) = iscsiTargetAttributes_columns
      /\ Load(TgtAttr, k) = iscsiTargetAttributes_load(k)
      /\ \A row, c : Handler(TgtAttr, row, c) = iscsiTargetAttributes_handler(row, c)
  <2>1. /\ TgtAttr \in init_iscsiMib /\ TgtAttr \in Tables \ {SsnFailure}
        /\ TgtAttr \notin init_scsiMib /\ TgtAttr \notin init_ipsAuthMib
    BY DEF init_iscsiMib, init_scsiMib, init_ipsAuthMib, TgtAttr, SsnFailure, Tables
  <2>2. /\ Iscsi_table[TgtAttr].columns = iscsiTargetAttributes_columns
        /\ Iscsi_load(TgtAttr, k) = iscsiTargetAttributes_load(k)
        /\ \A row, c : Iscsi_handler(TgtAttr, row, c) = iscsiTargetAttributes_handler(row, c)
    BY DEF TgtAttr, Iscsi_table, Iscsi_load, Iscsi_handler, iscsiTargetAttributes_table
  <2>. QED BY <2>1, <2>2 DEF Columns, Table, Load, Handler
<1>2. ASSUME NEW c \in DOMAIN iscsiTargetAttributes_columns,
             iscsiTargetAttributes_handler(iscsiTargetAttributes_load(k), c) = Unset
      PROVE  iscsiTargetAttributes_columns[c] \in Hollow
  BY <1>2, StructuresApart, SMTT(60)
     DEF iscsiTargetAttributes_columns, iscsiTargetAttributes_handler,
         iscsiTargetAttributes_load, Column, Hollow
<1>. QED BY <1>1, <1>2 DEF RowFilled

\* and that of devices.
LEMMA DevicesFilled ==
    ASSUME UnsetIsApart, NEW k, k[3] # Unset, k[5] # Unset, k[6] # Unset
    PROVE  RowFilled(TgtDev, Load(TgtDev, k))
<1>1. /\ Columns(TgtDev) = scsiTgtDevTable_columns
      /\ Load(TgtDev, k) = scsiTgtDevTable_load(k)
      /\ \A row, c : Handler(TgtDev, row, c) = scsiTgtDevTable_handler(row, c)
  <2>1. /\ TgtDev \in init_scsiMib /\ TgtDev \in Tables \ {SsnFailure}
        /\ TgtDev \notin init_iscsiMib /\ TgtDev \notin init_ipsAuthMib
    BY DEF init_iscsiMib, init_scsiMib, init_ipsAuthMib, TgtDev, SsnFailure, Tables
  <2>2. /\ Scsi_table[TgtDev].columns = scsiTgtDevTable_columns
        /\ Scsi_load(TgtDev, k) = scsiTgtDevTable_load(k)
        /\ \A row, c : Scsi_handler(TgtDev, row, c) = scsiTgtDevTable_handler(row, c)
    BY DEF TgtDev, Scsi_table, Scsi_load, Scsi_handler, scsiTgtDevTable_table
  <2>. QED BY <2>1, <2>2 DEF Columns, Table, Load, Handler
<1>2. ASSUME NEW c \in DOMAIN scsiTgtDevTable_columns,
             scsiTgtDevTable_handler(scsiTgtDevTable_load(k), c) = Unset
      PROVE  scsiTgtDevTable_columns[c] \in Hollow
  BY <1>2, NumbersApart, SMTT(60)
     DEF scsiTgtDevTable_columns, scsiTgtDevTable_handler, scsiTgtDevTable_load, Column, Hollow
<1>. QED BY <1>1, <1>2 DEF RowFilled

-----------------------------------------------------------------------------
(* The records of the files *)

\* The words of a record that the kernel makes, with the alias it is given, are those of its
\* table.
LEMMA RecordFits ==
    ASSUME UnsetIsApart, NEW t \in Tables \ {SsnFailure}, NEW s, s.last \in {1, 2},
           s.variant \in {1, 2}, NEW n \in Nat
    PROVE  Fit(t, Record(t, s).words \o AliasOf(t, n))
<1> DEFINE line == Table(t).line
           w == Record(t, s).words
           a == AliasOf(t, n)
           k == w \o a
<1>1. /\ Len(line) \in Nat /\ DOMAIN line = 1 .. Len(line)
      /\ Keys(t) \in 1 .. 4 /\ Keys(t) <= Len(line)
  BY KeysOfTables
<1>2. w = [i \in 1 .. Len(line) |->
             IF i < Keys(t) THEN 1
             ELSE IF i = Keys(t) THEN s.last ELSE line[i][s.variant]]
  BY <1>1 DEF Record
<1>3. /\ \A i \in 1 .. Keys(t) : w[i] \in Int
      /\ \A i \in 1 .. Len(line) : i > Keys(t) => w[i] \in {line[i][1], line[i][2]}
  <2>1. ASSUME NEW i \in 1 .. Keys(t) PROVE w[i] \in Int
    <3>1. w[i] = 1 \/ w[i] = s.last
      BY <1>1, <1>2
    <3>. HIDE DEF w
    <3>. QED BY <3>1
  <2>2. ASSUME NEW i \in 1 .. Len(line), i > Keys(t) PROVE w[i] \in {line[i][1], line[i][2]}
    <3>1. w[i] = line[i][s.variant]
      BY <1>1, <1>2, <2>2
    <3>. HIDE DEF w, line
    <3>. QED BY <3>1
  <2>. QED BY <2>1, <2>2
<1>4. w = [i \in 1 .. Len(line) |-> w[i]]
  BY <1>2
<1>5. PICK W : w \in Seq(W) /\ Len(w) = Len(line)
  <2>. HIDE DEF w, line
  <2>. QED BY <1>1, <1>4, SequenceIs
<1>6. PICK A : /\ a \in Seq(A)
               /\ Table(t).alias => Len(a) = 1 /\ a[1] # Unset
  <2>1. CASE ~Table(t).alias
    <3>1. a = <<>>
      BY <2>1 DEF AliasOf
    <3>. QED BY <2>1, <3>1
  <2>2. CASE Table(t).alias
    <3>1. CASE n < Len(Aliases)
      <4>1. a = <<Aliases[n + 1]>> /\ Aliases[n + 1] # Unset
        BY <2>2, <3>1 DEF AliasOf, UnsetIsApart
      <4>2. a \in Seq({Aliases[n + 1]}) /\ Len(a) = 1 /\ a[1] = Aliases[n + 1]
        BY <4>1
      <4>. QED BY <4>1, <4>2
    <3>2. CASE ~(n < Len(Aliases))
      <4> DEFINE e == ""
      <4>1. a = <<e>> /\ e # Unset
        BY <2>2, <3>2 DEF AliasOf, UnsetIsApart
      <4>. HIDE DEF e
      <4>2. a \in Seq({e}) /\ Len(a) = 1 /\ a[1] = e
        BY <4>1
      <4>. QED BY <4>1, <4>2
    <3>. QED BY <3>1, <3>2
  <2>. QED BY <2>1, <2>2
<1>. HIDE DEF w, a
<1>7. w \in Seq(W \cup A) /\ a \in Seq(W \cup A)
  BY <1>5, <1>6
<1>8. /\ k \in Seq(W \cup A) /\ Len(k) = Len(w) + Len(a)
      /\ \A i \in 1 .. Len(w) : k[i] = w[i]
      /\ \A i \in 1 .. Len(a) : k[Len(w) + i] = a[i]
  BY <1>7, Joined
<1>9. Len(a) \in Nat
  BY <1>6
<1>. HIDE DEF k
<1>10. Len(k) >= Len(line)
  BY <1>1, <1>5, <1>8, <1>9
<1>11. \A i \in 1 .. Keys(t) : k[i] \in Int
  BY <1>1, <1>3, <1>5, <1>8
<1>12. \A i \in DOMAIN line : i > Keys(t) => k[i] \in {line[i][1], line[i][2]}
  BY <1>1, <1>3, <1>5, <1>8
<1>13. ASSUME Table(t).alias PROVE k[Len(line) + 1] # Unset
  <2>1. Len(a) = 1 /\ a[1] # Unset
    BY <1>6, <1>13
  <2>2. k[Len(w) + 1] = a[1]
    BY <1>8, <2>1
  <2>. QED BY <1>5, <2>1, <2>2
<1>. HIDE DEF line
<1>14. \E S : k \in Seq(S)
  BY <1>8
<1>. QED BY <1>10, <1>11, <1>12, <1>13, <1>14 DEF Fit, k, w, a, line

\* Whatever alias it is given, a record makes a row that is filled.
Fills(t, r) == \A n \in Nat : RowFilled(t, Load(t, r.words \o AliasOf(t, n)))

\* The records of cached tables do,
LEMMA ContentsFill ==
    ASSUME UnsetIsApart, NEW t \in Tables \ Polled, NEW f \in Contents(t), f # None
    PROVE  \A j \in DOMAIN f : Fills(t, f[j])
<1> DEFINE shapes == {s \in Shapes : \A i \in DOMAIN s : s[i].bad <= WorstLine(t)}
           files == {[i \in DOMAIN s |-> Record(t, s[i])] : s \in shapes}
<1>1. f \in files
  BY DEF Contents
<1>2. PICK s \in shapes : f = [i \in DOMAIN s |-> Record(t, s[i])]
  BY <1>1
<1>3. ASSUME NEW j \in DOMAIN f, NEW n \in Nat
      PROVE  RowFilled(t, Load(t, f[j].words \o AliasOf(t, n)))
  <2>1. j \in DOMAIN s /\ f[j] = Record(t, s[j])
    BY <1>2
  <2>2. s[j].last \in {1, 2} /\ s[j].variant \in {1, 2}
    <3> DEFINE S == [last : {1, 2}, variant : {1, 2}, bad : 0 .. 4]
    <3>1. s \in Seq(S)
      BY <1>2, AgentAssumption
    <3>. HIDE DEF S
    <3>2. s[j] \in S
      BY <2>1, <3>1
    <3>. QED BY <3>2 DEF S
  <2>3. t \in Tables \ {SsnFailure}
    BY DEF Polled
  <2>4. Fit(t, Record(t, s[j]).words \o AliasOf(t, n))
    BY <2>2, <2>3, RecordFits
  <2>. QED BY <2>1, <2>4, CachedFilled
<1>. QED BY <1>3 DEF Fills

\* and those of polled ones when the words that columns are made of are something.
Stored(t, w) ==
    /\ t = TgtAttr => w[6] # Unset
    /\ t = TgtDev => w[3] # Unset /\ w[5] # Unset /\ w[6] # Unset
StoredFile == file # None => \A j \in DOMAIN file : Stored(tab, file[j].words)

\* Such records fill the columns of their rows.
LEMMA PolledFill ==
    ASSUME UnsetIsApart, FilesInv, PolledInv, StoredFile, tab \in Polled \ {SsnFailure},
           file # None
    PROVE  \A j \in DOMAIN file : Fills(tab, file[j])
<1>. SUFFICES ASSUME NEW j \in DOMAIN file, NEW n \in Nat
              PROVE  RowFilled(tab, Load(tab, file[j].words \o AliasOf(tab, n)))
  BY DEF Fills
<1> DEFINE w == file[j].words
           k == w \o AliasOf(tab, n)
<1>1. WordsOK(tab, w) /\ Stored(tab, w)
  BY WordsOfFile DEF StoredFile
<1>2. tab = TgtAttr => w[3] \in Nat /\ w[4] \in Nat
  <2>1. MaxFails \in Nat
    BY AgentAssumption
  <2>. QED BY <2>1 DEF PolledInv, PolledFile, CountsOK, Count
<1>3. ~Table(tab).alias
  <2>1. Table(TgtAttr) = iscsiTargetAttributes_table /\ Table(TgtDev) = scsiTgtDevTable_table
    BY DEF Table, Iscsi_table, Scsi_table, init_iscsiMib, init_scsiMib, init_ipsAuthMib, TgtAttr,
       TgtDev, SsnFailure
  <2>2. ~iscsiTargetAttributes_table.alias /\ ~scsiTgtDevTable_table.alias
    BY DEF iscsiTargetAttributes_table, scsiTgtDevTable_table
  <2>3. tab = TgtAttr \/ tab = TgtDev
    BY DEF Polled
  <2>. QED BY <2>1, <2>2, <2>3
<1>4. k = w
  <2>1. AliasOf(tab, n) = <<>>
    BY <1>3 DEF AliasOf
  <2>2. PICK W : w \in Seq(W)
    BY <1>1 DEF WordsOK
  <2>. HIDE DEF w
  <2>. QED BY <2>1, <2>2
<1>5. Unset \notin Nat
  <2>1. Unset \notin Int
    BY Zenon DEF UnsetIsApart
  <2>. QED BY <2>1
<1>. HIDE DEF w, k
<1>6. CASE tab = TgtAttr
  BY <1>1, <1>2, <1>4, <1>5, <1>6, NodesFilled DEF Stored, k, w
<1>7. CASE tab = TgtDev
  BY <1>1, <1>4, <1>7, DevicesFilled DEF Stored, k, w
<1>. QED BY <1>6, <1>7 DEF Polled

\* So a load of such records makes rows that are filled.
LEMMA RowsFilled ==
    ASSUME NEW t \in Tables \ {SsnFailure}, NEW f, RecordsOK(t, f), NEW full \in Nat,
           \A j \in DOMAIN f : Fills(t, f[j])
    PROVE  \A r \in RowsOf(t, f, full) : RowFilled(t, r)
<1> DEFINE n == Len(f)
<1>1. /\ n \in Nat /\ DOMAIN f = 1 .. n /\ \A j \in DOMAIN f : RecordOK(t, f[j])
      /\ \E S : f \in Seq(S)
  BY FileHas
<1>. HIDE DEF n
<1>2. IsFile(t, f)
  BY <1>1, MoreLines DEF IsFile, RecordOK
<1>3. RowsOf(t, f, full) = {RowAt(t, f, j) : j \in {j \in ReadOf(f) : MetBefore(f, j) < full}}
  BY <1>1, <1>2, RowsAre
<1>4. ASSUME NEW j \in ReadOf(f) PROVE RowFilled(t, RowAt(t, f, j))
  <2>1. j \in 1 .. n
    BY <1>1 DEF ReadOf
  <2>2. j - 1 \in 0 .. n /\ (j - 1) + 1 = j /\ j - 1 < n
    BY <1>1, <2>1
  <2>3. MetBefore(f, (j - 1) + 1) \in Nat
    <3> DEFINE i == j - 1
    <3>1. i \in 0 .. n /\ i < n
      BY <2>2
    <3>. HIDE DEF i
    <3>2. MetBefore(f, i + 1) = Cardinality({x \in ReadOf(f) : x <= i})
      BY <1>1, <3>1, MetIs
    <3>3. Cardinality({x \in ReadOf(f) : x <= i}) \in Nat
      BY <1>1, <3>1, ReadsFinite
    <3>. QED BY <3>2, <3>3 DEF i
  <2>4. MetBefore(f, j) \in Nat
    BY <2>2, <2>3
  <2>. QED BY <1>1, <2>1, <2>4 DEF RowAt, Fills
<1>. QED BY <1>3, <1>4

\* What a record of a polled table is made with is something,
LEMMA FreshStored ==
    ASSUME UnsetIsApart, NEW t \in Polled, NEW i \in {1, 2}
    PROVE  Stored(t, Fresh(t, i).words)
<1> DEFINE s == [last |-> i, variant |-> 1, bad |-> 0]
           r == Record(t, s)
           w == r.words
           y == Fresh(t, i)
<1>1. r = [words |-> w, bad |-> 0] /\ t \in Tables
  BY PolledTables DEF Record
<1>2. DOMAIN w = 1 .. Len(Table(t).line) /\ w = [j \in DOMAIN w |-> w[j]]
  BY <1>1, KeysOfTables DEF Record
<1>3. Unset # None /\ Unset \notin Int
  BY Zenon DEF UnsetIsApart
<1>. SUFFICES Stored(t, y.words)
  OBVIOUS
<1>4. CASE t = TgtAttr
  <2>. HIDE DEF w, r
  <2>1. y = [r EXCEPT !.words[3] = 0, !.words[4] = 0, !.words[5] = 0, !.words[6] = None]
    BY <1>4 DEF Fresh, r, TgtAttr, SsnFailure
  <2>2. 6 \in DOMAIN w
    BY <1>2, <1>4, LineLengths
  <2>. HIDE DEF y
  <2>3. y.words = [w EXCEPT ![3] = 0, ![4] = 0, ![5] = 0, ![6] = None]
    BY <1>1, <2>1
  <2>4. y.words[6] = None
    BY <1>2, <2>2, <2>3
  <2>. QED BY <1>3, <1>4, <2>4, PolledDiffer DEF Stored
<1>5. CASE t = TgtDev
  <2>1. y = r
    BY <1>5 DEF Fresh, TgtAttr, SsnFailure, TgtDev
  <2>2. Keys(t) = 2 /\ Table(t).line = scsiTgtDevTable_LINE
    <3>1. Table(TgtDev) = scsiTgtDevTable_table
      BY DEF Table, Scsi_table, init_iscsiMib, init_scsiMib, init_ipsAuthMib, TgtDev, SsnFailure
    <3>. QED BY <1>5, <3>1, PolledKeysAre DEF scsiTgtDevTable_table
  <2>3. \A j \in {3, 5, 6} : j \in DOMAIN Table(t).line /\ Table(t).line[j][1] = 1
    BY <2>2 DEF scsiTgtDevTable_LINE, Num
  <2>4. \A j \in {3, 5, 6} : w[j] = 1
    BY <2>2, <2>3 DEF Record
  <2>. HIDE DEF w, y
  <2>5. w[3] = 1 /\ w[5] = 1 /\ w[6] = 1
    BY <2>4
  <2>. QED BY <1>3, <1>5, <2>1, <2>5, PolledDiffer DEF Stored, w
<1>6. CASE t = SsnFailure
  BY <1>6, PolledDiffer DEF Stored
<1>. QED BY <1>4, <1>5, <1>6 DEF Polled

\* and so is what the kernel writes into it later.
LEMMA HappensStores ==
    ASSUME FilesInv, StoredFile, file # None, NEW j \in DOMAIN file, NEW x, Happens(j, x),
           Stored(tab, x)
    PROVE  StoredFile'
<1> DEFINE r == [file[j] EXCEPT !.words = x]
           g == [file EXCEPT ![j] = r]
<1>1. file' = g /\ tab' = tab
  BY DEF Happens, Writes
<1>2. RecordOK(tab, file[j])
  BY FileHas DEF FilesInv, FileOK
<1>3. r.words = x
  <2>1. DOMAIN file[j] = {"words", "bad"}
    BY <1>2 DEF RecordOK
  <2>. QED BY <2>1
<1>. HIDE DEF r
<1>4. DOMAIN g = DOMAIN file /\ g[j] = r /\ \A i \in DOMAIN file \ {j} : g[i] = file[i]
  OBVIOUS
<1>. HIDE DEF g
<1>5. \A i \in DOMAIN g : Stored(tab, g[i].words)
  BY <1>3, <1>4 DEF StoredFile
<1>. QED BY <1>1, <1>5 DEF StoredFile

\* Whatever the kernel does to its records, they have their words.
LEMMA KernelStores ==
    ASSUME UnsetIsApart, FilesInv, PolledInv, StoredFile, KernelActs
    PROVE  StoredFile'
<1>1. ASSUME Module PROVE StoredFile'
  <2>1. file' = None \/ DOMAIN file' = {}
    BY <1>1 DEF Module, Writes
  <2>. QED BY <2>1 DEF StoredFile
<1>2. ASSUME NEW i \in {1, 2}, Create(i) PROVE StoredFile'
  <2> DEFINE r == Fresh(tab, i)
             g == Append(file, r)
  <2>1. tab \in Polled /\ file # None /\ file' = g /\ tab' = tab
    BY <1>2 DEF Create, Writes
  <2>2. Stored(tab, r.words)
    BY <2>1, FreshStored
  <2>3. Len(file) \in Nat /\ DOMAIN file = 1 .. Len(file) /\ \E S : file \in Seq(S)
    BY <2>1, FileHas DEF FilesInv, FileOK
  <2>. HIDE DEF r
  <2>4. \A x \in DOMAIN g : g[x] = r \/ (x \in DOMAIN file /\ g[x] = file[x])
    BY <2>3
  <2>. HIDE DEF g
  <2>. QED BY <2>1, <2>2, <2>4 DEF StoredFile
<1>3. ASSUME NEW i \in {1, 2}, Delete(i) PROVE StoredFile'
  <2>1. PICK y \in DOMAIN file : /\ tab \in Polled /\ file # None /\ tab' = tab
                                 /\ file' = RemoveAt(file, y)
    BY <1>3 DEF Delete, Writes
  <2>2. \A x \in DOMAIN file' : \E z \in DOMAIN file : file[z] = file'[x]
    <3>1. RecordsOK(tab, file) /\ PolledFile(tab, file)
      BY <2>1 DEF FilesInv, FileOK, PolledInv
    <3>. QED BY <2>1, <3>1, PolledRemoved
  <2>. QED BY <2>1, <2>2 DEF StoredFile
<1>4. ASSUME NEW j \in {1, 2}, StatusChanges(j) PROVE StoredFile'
  <2> DEFINE w == file[j].words
  <2>1. PICK s : Happens(j, [w EXCEPT ![4] = s])
    BY <1>4 DEF StatusChanges
  <2> DEFINE x == [w EXCEPT ![4] = s]
  <2>2. tab = TgtDev /\ file # None /\ j \in DOMAIN file
    BY <1>4 DEF StatusChanges
  <2>3. Stored(tab, w)
    BY <2>2 DEF StoredFile
  <2>. HIDE DEF w
  <2>4. x[3] = w[3] /\ x[5] = w[5] /\ x[6] = w[6]
    <3>1. PICK W : w \in Seq(W)
      BY <2>2, WordsOfFile DEF WordsOK, w
    <3>2. Len(w) = 6 /\ DOMAIN w = 1 .. 6
      BY <2>2, <3>1, WordsOfFile, LineLengths DEF WordsOK, w
    <3>. QED BY <3>1, <3>2
  <2>. HIDE DEF x
  <2>5. Stored(tab, x)
    BY <2>2, <2>3, <2>4, PolledDiffer DEF Stored
  <2>6. Happens(j, x)
    BY <2>1 DEF x, w
  <2>. QED BY <2>2, <2>5, <2>6, HappensStores
<1>5. ASSUME NEW j, NEW n \in Initiator, NEW type, LoginFails(j, n, type) PROVE StoredFile'
  <2> DEFINE w == file[j].words
             x == [w EXCEPT ![3] = @ + 1, ![4] = clock, ![5] = type, ![6] = n]
  <2>1. tab = TgtAttr /\ file # None /\ j \in DOMAIN file /\ Happens(j, x)
    BY <1>5 DEF LoginFails
  <2>2. x[6] = n
    <3>. HIDE DEF w
    <3>1. PICK W : w \in Seq(W)
      BY <2>1, WordsOfFile DEF WordsOK, w
    <3>2. Len(w) = 8 /\ DOMAIN w = 1 .. 8
      BY <2>1, <3>1, WordsOfFile, LineLengths DEF WordsOK, w
    <3>. QED BY <3>1, <3>2
  <2>. HIDE DEF x
  <2>3. n # Unset
    BY Zenon DEF UnsetIsApart
  <2>4. Stored(tab, x)
    BY <2>1, <2>2, <2>3, PolledDiffer DEF Stored
  <2>. QED BY <2>1, <2>4, HappensStores
<1>6. ASSUME NEW j, NEW n, NEW type, SessionFails(j, n, type) PROVE StoredFile'
  <2>1. PICK x : tab = SsnFailure /\ file # None /\ j \in DOMAIN file /\ Happens(j, x)
    BY <1>6 DEF SessionFails
  <2>2. Stored(tab, x)
    BY <2>1, PolledDiffer DEF Stored
  <2>. QED BY <2>1, <2>2, HappensStores
<1>. QED BY <1>1, <1>2, <1>3, <1>4, <1>5, <1>6 DEF KernelActs

-----------------------------------------------------------------------------
(* The invariant of the columns *)

\* What was answered, what would be answered, and what a polled table will be made of.
FilledInv ==
    /\ answer.unfilled \subseteq Hollow
    /\ \A r \in list : RowFilled(tab, r)
    /\ tab \in Polled => StoredFile

\* Nothing was answered and nothing loaded at first.
LEMMA InitFilled == Init => FilledInv
<1>. SUFFICES ASSUME Init PROVE FilledInv
  OBVIOUS
<1>1. answer.unfilled = {} /\ list = {}
  BY DEF Init, NoAnswer
<1>2. tab \in Polled => file = None \/ DOMAIN file = {}
  BY DEF Init
<1>. QED BY <1>1, <1>2 DEF FilledInv, StoredFile

\* A load makes filled rows.
LEMMA LoadsFilled ==
    ASSUME UnsetIsApart, FilesInv, tab \notin Polled, file # None, NEW l \in Loads(tab, file)
    PROVE  \A r \in l : RowFilled(tab, r)
<1>1. Len(file) \in Nat
  BY FileHas DEF FilesInv, FileOK
<1>2. PICK full \in Nat : l = RowsOf(tab, file, full)
  BY <1>1 DEF Loads
<1>3. tab \in Tables \ Polled /\ tab \in Tables \ {SsnFailure} /\ file \in Contents(tab)
  BY DEF FilesInv, Polled
<1>4. RecordsOK(tab, file)
  BY DEF FilesInv, FileOK
<1>. QED BY <1>2, <1>3, <1>4, ContentsFill, RowsFilled

\* A poll does too.
LEMMA PollFills ==
    ASSUME UnsetIsApart, FilesInv, PolledInv, FilledInv, NEW c, PollLoad(c)
    PROVE  FilledInv'
<1>1. tab' = tab /\ file' = file /\ answer' = answer
  BY DEF PollLoad, kernel, walk
<1>2. tab = SsnFailure \/ tab = TgtAttr \/ tab = TgtDev
  BY DEF PollLoad
<1>3. CASE tab = SsnFailure
  <2>1. list' = list
    BY <1>3, PolledDiffer DEF PollLoad, PollSessionFailure
  <2>. QED BY <1>1, <2>1 DEF FilledInv, StoredFile
<1>4. CASE tab # SsnFailure
  <2> DEFINE recs == IF file = None THEN <<>> ELSE file
  <2>0. tab \in Polled \ {SsnFailure} /\ tab \in Tables
    BY <1>2, <1>4 DEF Polled, FilesInv
  <2>1. PICK full \in Nat : list' = RowsOf(tab, recs, full)
    <3>1. file # None => Len(file) \in Nat
      BY FileHas DEF FilesInv, FileOK
    <3>2. PICK full \in Nat : \/ tab = TgtAttr /\ PollTargetAttributes(c, full)
                              \/ tab = TgtDev /\ PollTgtDev(full)
      BY <1>4, <3>1 DEF PollLoad
    <3>. QED BY <3>2 DEF PollTargetAttributes, PollTgtDev
  <2>2. RecordsOK(tab, recs) /\ \A j \in DOMAIN recs : Fills(tab, recs[j])
    <3>1. CASE file = None
      BY <3>1, EmptyFileOK
    <3>2. CASE file # None
      BY <2>0, <3>2, PolledFill DEF FilledInv, FilesInv, FileOK
    <3>. QED BY <3>1, <3>2
  <2>. HIDE DEF recs
  <2>3. \A r \in list' : RowFilled(tab, r)
    BY <2>0, <2>1, <2>2, RowsFilled
  <2>. QED BY <1>1, <2>3 DEF FilledInv, StoredFile
<1>. QED BY <1>3, <1>4

\* An answer is about one of the rows.
LEMMA AnswerFilled ==
    ASSUME NEW rows, \A r \in rows : RowFilled(tab, r), Iterate(rows)
    PROVE  answer'.unfilled \subseteq Hollow
<1>1. CASE answer' = NoAnswer
  BY <1>1 DEF NoAnswer
<1>2. ASSUME NEW r \in rows,
             answer' = [index |-> Index(tab, r),
                        unfilled |-> {Columns(tab)[c] :
                          c \in {c \in DOMAIN Columns(tab) : Handler(tab, r, c) = Unset}}]
      PROVE  answer'.unfilled \subseteq Hollow
  <2>1. answer'.unfilled = {Columns(tab)[c] :
          c \in {c \in DOMAIN Columns(tab) : Handler(tab, r, c) = Unset}}
    BY <1>2
  <2>2. RowFilled(tab, r)
    OBVIOUS
  <2>. QED BY <2>1, <2>2 DEF RowFilled
<1>. QED BY <1>1, <1>2 DEF Iterate

\* All that happens leaves the columns filled.
LEMMA StepFilled ==
    ASSUME UnsetIsApart, WalkInv, PollsInv, FilledInv, [Next]_vars
    PROVE  FilledInv'
<1>0. FilesInv /\ PolledInv
  BY DEF WalkInv, PollsInv
<1>1. ASSUME KernelActs PROVE FilledInv'
  <2>1. UNCHANGED <<tab, list, answer>> /\ tab \in Polled
    BY <1>0, <1>1, KernelFollows DEF statics, walk
  <2>2. StoredFile'
    BY <1>0, <1>1, <2>1, KernelStores DEF FilledInv
  <2>. QED BY <2>1, <2>2 DEF FilledInv
<1>2. ASSUME Change PROVE FilledInv'
  BY <1>2 DEF Change, Writes, statics, walk, FilledInv
<1>3. ASSUME UNCHANGED <<tab, file, list, walk>> PROVE FilledInv'
  BY <1>3 DEF walk, FilledInv, StoredFile
<1>4. ASSUME Tick PROVE FilledInv'
  BY <1>3, <1>4 DEF Tick
<1>5. ASSUME Start \/ Poll PROVE FilledInv'
  <2>1. CASE tab \in Polled
    BY <1>0, <1>5, <2>1, PollFills DEF Start, Poll
  <2>2. CASE tab \notin Polled
    BY <1>3, <1>5, <2>2 DEF Start, Poll, kernel, statics
  <2>. QED BY <2>1, <2>2
<1>6. ASSUME UNCHANGED <<tab, file, walk>>, list' = {} PROVE FilledInv'
  BY <1>6 DEF walk, FilledInv, StoredFile
<1>7. ASSUME Stop PROVE FilledInv'
  BY <1>6, <1>7 DEF Stop, Statics, kernel
<1>8. ASSUME Release PROVE FilledInv'
  BY <1>3, <1>6, <1>8 DEF Release, kernel
<1>9. ASSUME GetNext PROVE FilledInv'
  <2>1. tab' = tab /\ file' = file /\ Iterate(list')
    BY <1>9 DEF GetNext, kernel
  <2>2. \A r \in list' : RowFilled(tab, r)
    <3>1. CASE tab \in Polled
      BY <1>9, <3>1 DEF GetNext, FilledInv
    <3>2. CASE tab \notin Polled
      <4>1. list' = list \/ list' = {} \/ (file # None /\ list' \in Loads(tab, file))
        BY <1>9, <3>2 DEF GetNext, Refresh
      <4>. QED BY <1>0, <3>2, <4>1, LoadsFilled DEF FilledInv
    <3>. QED BY <3>1, <3>2
  <2>3. answer'.unfilled \subseteq Hollow
    BY <2>1, <2>2, AnswerFilled
  <2>. QED BY <2>1, <2>2, <2>3 DEF FilledInv, StoredFile
<1>10. ASSUME UNCHANGED vars PROVE FilledInv'
  BY <1>3, <1>10 DEF vars, kernel, statics
<1>11. Next => KernelActs \/ Change \/ Tick \/ Start \/ Poll \/ Stop \/ Release \/ GetNext
  BY DEF Next, KernelActs
<1>. QED BY <1>1, <1>2, <1>4, <1>5, <1>7, <1>8, <1>9, <1>10, <1>11

\* No column of an answer is without a value, but those that are never given one.
THEOREM ColumnsFilled == ASSUME UnsetIsApart PROVE Spec => []EveryColumnFilled
<1>1. FilledInv => EveryColumnFilled
  BY DEF FilledInv, EveryColumnFilled, Hollow
<1>2. LoadInv /\ WalkInv /\ PollsInv /\ FilledInv /\ [Next]_vars => FilledInv'
  BY StepFilled
<1>. QED BY <1>1, <1>2, InitLoad, InitWalk, InitPolls, InitFilled, StepLoad, StepWalk, StepPolls,
            PTL DEF Spec

=============================================================================
