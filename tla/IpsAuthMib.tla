----------------------------- MODULE IpsAuthMib ------------------------------
(***************************************************************************)
(* The tables of ipsAuthMib.c, described as those of iscsiMib.c are.  Their*)
(* records are not lines of a file but entries of the list that            *)
(* load_auth_data returns: the index of an identity, and the tag of the    *)
(* portal group for a credential, which is not seen when CHAP is needed    *)
(* and not enforced.  When they are loaded again is told in AuthData.      *)
(***************************************************************************)
EXTENDS MibData

-----------------------------------------------------------------------------
ipsAuthInstAttr_columns == <<"ipsAuthInstIndex", "ipsAuthInstDescr", "ipsAuthInstStorageType">>
ipsAuthInstAttr_LINE == <<Key>>
ipsAuthInstAttr_table ==
    [index |-> <<"ipsAuthInstIndex">>, timeout |-> 10, more |-> 0, alias |-> FALSE,
     columns |-> ipsAuthInstAttr_columns, line |-> ipsAuthInstAttr_LINE]
ipsAuthInstAttr_handler(row, c) == Column(row, ipsAuthInstAttr_columns[c])
ipsAuthInstAttr_load(k) ==
    [ipsAuthInstIndex |-> AUTH_INST_INDEX, ipsAuthInstDescr |-> "iSCSI Target",
     ipsAuthInstStorageType |-> ST_READONLY]

-----------------------------------------------------------------------------
ipsAuthIdentAttr_columns == <<
    "ipsAuthIdentIndex", "ipsAuthIdentDescription", "ipsAuthIdentRowStatus",
    "ipsAuthIdentStorageType">>
ipsAuthIdentAttr_LINE == <<Key, Text>>
ipsAuthIdentAttr_table ==
    [index |-> <<"ipsAuthInstIndex", "ipsAuthIdentIndex">>, timeout |-> 10, more |-> 0,
     alias |-> FALSE, columns |-> ipsAuthIdentAttr_columns, line |-> ipsAuthIdentAttr_LINE]
ipsAuthIdentAttr_handler(row, c) == Column(row, ipsAuthIdentAttr_columns[c])
ipsAuthIdentAttr_load(k) ==
    [ipsAuthInstIndex |-> AUTH_INST_INDEX, ipsAuthIdentIndex |-> k[1],
     ipsAuthIdentDescription |-> k[2], ipsAuthIdentRowStatus |-> RS_ACTIVE,
     ipsAuthIdentStorageType |-> ST_READONLY]

-----------------------------------------------------------------------------
ipsAuthIdentNameAttr_columns == <<
    "ipsAuthIdentNameIndex", "ipsAuthIdentName", "ipsAuthIdentNameRowStatus",
    "ipsAuthIdentNameStorageType">>
ipsAuthIdentNameAttr_LINE == <<Key, Text>>
ipsAuthIdentNameAttr_table ==
    [index |-> <<"ipsAuthInstIndex", "ipsAuthIdentIndex", "ipsAuthIdentNameIndex">>,
     timeout |-> 10, more |-> 0, alias |-> FALSE, columns |-> ipsAuthIdentNameAttr_columns,
     line |-> ipsAuthIdentNameAttr_LINE]
ipsAuthIdentNameAttr_handler(row, c) == Column(row, ipsAuthIdentNameAttr_columns[c])
ipsAuthIdentNameAttr_load(k) ==
    [ipsAuthInstIndex |-> AUTH_INST_INDEX, ipsAuthIdentIndex |-> k[1],
     ipsAuthIdentNameIndex |-> AUTH_ID_NAME_INDEX, ipsAuthIdentName |-> k[2],
     ipsAuthIdentNameRowStatus |-> RS_ACTIVE, ipsAuthIdentNameStorageType |-> ST_READONLY]

-----------------------------------------------------------------------------
ipsAuthCredAttr_columns == <<
    "ipsAuthCredIndex", "ipsAuthCredAuthMethod", "ipsAuthCredRowStatus",
    "ipsAuthCredStorageType">>
ipsAuthCredAttr_LINE == <<Key, Key, Enforced>>
ipsAuthCredAttr_table ==
    [index |-> <<"ipsAuthInstIndex", "ipsAuthIdentIndex", "ipsAuthCredIndex">>, timeout |-> 10,
     more |-> 0, alias |-> FALSE, columns |-> ipsAuthCredAttr_columns,
     line |-> ipsAuthCredAttr_LINE]
ipsAuthCredAttr_handler(row, c) == Column(row, ipsAuthCredAttr_columns[c])
ipsAuthCredAttr_load(k) ==
    [ipsAuthInstIndex |-> AUTH_INST_INDEX, ipsAuthIdentIndex |-> k[1],
     ipsAuthCredIndex |-> k[2] + 1, ipsAuthCredAuthMethod |-> AuthMethod(k[3]),
     ipsAuthCredRowStatus |-> RS_ACTIVE, ipsAuthCredStorageType |-> ST_READONLY]

-----------------------------------------------------------------------------
ipsAuthCredChapAttr_columns == <<
    "ipsAuthCredChapUserName", "ipsAuthCredChapRowStatus", "ipsAuthCredChapStorageType">>
ipsAuthCredChapAttr_LINE == <<Key, Key, Text>>
ipsAuthCredChapAttr_table ==
    [index |-> <<"ipsAuthInstIndex", "ipsAuthIdentIndex", "ipsAuthCredIndex">>, timeout |-> 10,
     more |-> 0, alias |-> FALSE, columns |-> ipsAuthCredChapAttr_columns,
     line |-> ipsAuthCredChapAttr_LINE]
ipsAuthCredChapAttr_handler(row, c) == Column(row, ipsAuthCredChapAttr_columns[c])
ipsAuthCredChapAttr_load(k) ==
    [ipsAuthInstIndex |-> AUTH_INST_INDEX, ipsAuthIdentIndex |-> k[1],
     ipsAuthCredIndex |-> k[2] + 1, ipsAuthCredChapUserName |-> k[3],
     ipsAuthCredChapRowStatus |-> RS_ACTIVE, ipsAuthCredChapStorageType |-> ST_READONLY]

-----------------------------------------------------------------------------
\* The tables that the module sets up.
init_ipsAuthMib == {
    "ipsAuthInstAttr", "ipsAuthIdentAttr", "ipsAuthIdentNameAttr", "ipsAuthCredAttr",
    "ipsAuthCredChapAttr"}

IpsAuth_table ==
    [ipsAuthInstAttr |-> ipsAuthInstAttr_table,
     ipsAuthIdentAttr |-> ipsAuthIdentAttr_table,
     ipsAuthIdentNameAttr |-> ipsAuthIdentNameAttr_table,
     ipsAuthCredAttr |-> ipsAuthCredAttr_table,
     ipsAuthCredChapAttr |-> ipsAuthCredChapAttr_table]

IpsAuth_load(t, k) ==
    CASE t = "ipsAuthInstAttr" -> ipsAuthInstAttr_load(k)
      [] t = "ipsAuthIdentAttr" -> ipsAuthIdentAttr_load(k)
      [] t = "ipsAuthIdentNameAttr" -> ipsAuthIdentNameAttr_load(k)
      [] t = "ipsAuthCredAttr" -> ipsAuthCredAttr_load(k)
      [] t = "ipsAuthCredChapAttr" -> ipsAuthCredChapAttr_load(k)

IpsAuth_handler(t, row, c) ==
    CASE t = "ipsAuthInstAttr" -> ipsAuthInstAttr_handler(row, c)
      [] t = "ipsAuthIdentAttr" -> ipsAuthIdentAttr_handler(row, c)
      [] t = "ipsAuthIdentNameAttr" -> ipsAuthIdentNameAttr_handler(row, c)
      [] t = "ipsAuthCredAttr" -> ipsAuthCredAttr_handler(row, c)
      [] t = "ipsAuthCredChapAttr" -> ipsAuthCredChapAttr_handler(row, c)
=============================================================================
