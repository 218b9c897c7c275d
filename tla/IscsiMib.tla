------------------------------ MODULE IscsiMib -------------------------------
(***************************************************************************)
(* The tables of iscsiMib.c.  Of each: its columns; its index, the seconds *)
(* that a load of it is good for (zero when a poll loads it), how many     *)
(* lines of a record follow the first, and whether /etc/iscsi.alias gives  *)
(* it a column; what its handler answers for a column; the words of the    *)
(* lines of a record; and the row that its load makes of the words k.      *)
(***************************************************************************)
EXTENDS MibData

-----------------------------------------------------------------------------
iscsiInstAttributes_columns == <<
    "iscsiInstIndex", "iscsiInstDescr", "iscsiInstVersionMin", "iscsiInstVersionMax",
    "iscsiInstVendorID", "iscsiInstVendorVersion", "iscsiInstPortalNumber",
    "iscsiInstNodeNumber", "iscsiInstSessionNumber", "iscsiInstSsnFailures",
    "iscsiInstLastSsnFailureType", "iscsiInstLastSsnRmtNodeName", "iscsiInstDiscontinuityTime">>
iscsiInstAttributes_LINE == <<
    Key, Num, Num, Num, Num, Num, Num, OrZero, Text, Num, Text, Text, Text>>
iscsiInstAttributes_table ==
    [index |-> <<"iscsiInstIndex">>, timeout |-> 5, more |-> 3, alias |-> FALSE,
     columns |-> iscsiInstAttributes_columns, line |-> iscsiInstAttributes_LINE]
iscsiInstAttributes_handler(row, c) == Column(row, iscsiInstAttributes_columns[c])
iscsiInstAttributes_load(k) ==
    [iscsiInstIndex |-> k[1], iscsiInstDescr |-> k[11], iscsiInstVersionMin |-> k[2],
     iscsiInstVersionMax |-> k[3], iscsiInstVendorID |-> k[12],
     iscsiInstVendorVersion |-> k[13], iscsiInstPortalNumber |-> k[4],
     iscsiInstNodeNumber |-> k[5], iscsiInstSessionNumber |-> k[6],
     iscsiInstSsnFailures |-> k[7],
     iscsiInstLastSsnFailureType |-> PointerOrNone("iscsiInstSsnErrStats", k[8]),
     iscsiInstLastSsnRmtNodeName |-> k[9], iscsiInstDiscontinuityTime |-> k[10]]

-----------------------------------------------------------------------------
iscsiInstSsnErrStats_columns == <<
    "iscsiInstSsnDigestErrors", "iscsiInstSsnCxnTimeoutErrors", "iscsiInstSsnFormatErrors">>
iscsiInstSsnErrStats_LINE == <<Key, Num, Num, Num>>
iscsiInstSsnErrStats_table ==
    [index |-> <<"iscsiInstIndex">>, timeout |-> 5, more |-> 0, alias |-> FALSE,
     columns |-> iscsiInstSsnErrStats_columns, line |-> iscsiInstSsnErrStats_LINE]
iscsiInstSsnErrStats_handler(row, c) == Column(row, iscsiInstSsnErrStats_columns[c])
iscsiInstSsnErrStats_load(k) ==
    [iscsiInstIndex |-> k[1], iscsiInstSsnDigestErrors |-> k[2],
     iscsiInstSsnCxnTimeoutErrors |-> k[3], iscsiInstSsnFormatErrors |-> k[4]]

-----------------------------------------------------------------------------
iscsiPortalAttributes_columns == <<
    "iscsiPortalIndex", "iscsiPortalRowStatus", "iscsiPortalRoles", "iscsiPortalAddrType",
    "iscsiPortalAddr", "iscsiPortalProtocol", "iscsiPortalMaxRecvDataSegLength",
    "iscsiPortalPrimaryHdrDigest", "iscsiPortalPrimaryDataDigest",
    "iscsiPortalSecondaryHdrDigest", "iscsiPortalSecondaryDataDigest", "iscsiPortalRecvMarker",
    "iscsiPortalStorageType">>
iscsiPortalAttributes_LINE == <<
    Key, Key, Text, AddrType, Num, Proto, Num, Digests, Digests, YesNo>>
iscsiPortalAttributes_table ==
    [index |-> <<"iscsiInstIndex", "iscsiPortalIndex">>, timeout |-> 10, more |-> 0,
     alias |-> FALSE, columns |-> iscsiPortalAttributes_columns,
     line |-> iscsiPortalAttributes_LINE]
iscsiPortalAttributes_handler(row, c) ==
    IF c = 5 THEN Octets(row.iscsiPortalAddr, row.iscsiPortalAddrType)
    ELSE Column(row, iscsiPortalAttributes_columns[c])
iscsiPortalAttributes_load(k) ==
    [iscsiInstIndex |-> k[1], iscsiPortalIndex |-> k[2], iscsiPortalRowStatus |-> RS_ACTIVE,
     iscsiPortalRoles |-> ROLE_TARGET, iscsiPortalAddrType |-> InetAddrType(k[4]),
     iscsiPortalAddr |-> InetAddr(k[4], k[5]), iscsiPortalProtocol |-> TransportProto(k[6]),
     iscsiPortalMaxRecvDataSegLength |-> k[7],
     iscsiPortalPrimaryHdrDigest |-> Digest(k[8][1]),
     iscsiPortalPrimaryDataDigest |-> Digest(k[9][1]),
     iscsiPortalSecondaryHdrDigest |-> Secondary(k[8]),
     iscsiPortalSecondaryDataDigest |-> Secondary(k[8]),
     iscsiPortalRecvMarker |-> TruthValue(k[10]), iscsiPortalStorageType |-> ST_READONLY]

-----------------------------------------------------------------------------
iscsiTgtPortalAttributes_columns == <<
    "iscsiTgtPortalNodeIndexOrZero", "iscsiTgtPortalPort", "iscsiTgtPortalTag">>
iscsiTgtPortalAttributes_LINE == <<Key, Key, Key, Num, Num>>
iscsiTgtPortalAttributes_table ==
    [index |-> <<"iscsiInstIndex", "iscsiPortalIndex", "iscsiTgtPortalNodeIndexOrZero">>,
     timeout |-> 10, more |-> 0, alias |-> FALSE, columns |-> iscsiTgtPortalAttributes_columns,
     line |-> iscsiTgtPortalAttributes_LINE]
iscsiTgtPortalAttributes_handler(row, c) == Column(row, iscsiTgtPortalAttributes_columns[c])
iscsiTgtPortalAttributes_load(k) ==
    [iscsiInstIndex |-> k[1], iscsiPortalIndex |-> k[2],
     iscsiTgtPortalNodeIndexOrZero |-> k[3], iscsiTgtPortalPort |-> k[4],
     iscsiTgtPortalTag |-> k[5]]

-----------------------------------------------------------------------------
iscsiNodeAttributes_columns == <<
    "iscsiNodeIndex", "iscsiNodeName", "iscsiNodeAlias", "iscsiNodeRoles",
    "iscsiNodeTransportType", "iscsiNodeInitialR2T", "iscsiNodeImmediateData",
    "iscsiNodeMaxOutstandingR2T", "iscsiNodeFirstBurstLength", "iscsiNodeMaxBurstLength",
    "iscsiNodeMaxConnections", "iscsiNodeDataSequenceInOrder", "iscsiNodeDataPDUInOrder",
    "iscsiNodeDefaultTime2Wait", "iscsiNodeDefaultTime2Retain", "iscsiNodeErrorRecoveryLevel",
    "iscsiNodeDiscontinuityTime", "iscsiNodeStorageType">>
iscsiNodeAttributes_LINE == <<
    Key, Key, Text, Text, YesNo, YesNo, Num, Num, Num, Num, YesNo, YesNo, Num, Num, Num, Num>>
iscsiNodeAttributes_table ==
    [index |-> <<"iscsiInstIndex", "iscsiNodeIndex">>, timeout |-> 10, more |-> 0,
     alias |-> TRUE, columns |-> iscsiNodeAttributes_columns,
     line |-> iscsiNodeAttributes_LINE]
iscsiNodeAttributes_handler(row, c) == Column(row, iscsiNodeAttributes_columns[c])
iscsiNodeAttributes_load(k) ==
    [iscsiInstIndex |-> k[1], iscsiNodeIndex |-> k[2], iscsiNodeName |-> k[3],
     iscsiNodeAlias |-> k[17], iscsiNodeRoles |-> ROLE_TARGET,
     iscsiNodeTransportType |-> Pointer("scsiInstAlias", <<1>>),
     iscsiNodeInitialR2T |-> TruthValue(k[5]), iscsiNodeImmediateData |-> TruthValue(k[6]),
     iscsiNodeMaxOutstandingR2T |-> k[7], iscsiNodeFirstBurstLength |-> k[8],
     iscsiNodeMaxBurstLength |-> k[9], iscsiNodeMaxConnections |-> k[10],
     iscsiNodeDataSequenceInOrder |-> TruthValue(k[11]),
     iscsiNodeDataPDUInOrder |-> TruthValue(k[12]), iscsiNodeDefaultTime2Wait |-> k[13],
     iscsiNodeDefaultTime2Retain |-> k[14], iscsiNodeErrorRecoveryLevel |-> k[15],
     iscsiNodeDiscontinuityTime |-> k[16], iscsiNodeStorageType |-> ST_READONLY]

-----------------------------------------------------------------------------
iscsiTargetAttributes_columns == <<
    "iscsiTgtLoginFailures", "iscsiTgtLastFailureTime", "iscsiTgtLastFailureType",
    "iscsiTgtLastIntrFailureName", "iscsiTgtLastIntrFailureAddrType",
    "iscsiTgtLastIntrFailureAddr">>
iscsiTargetAttributes_LINE == <<Key, Key, Num, Num, LoginFailType, Text, AddrType, Num>>
iscsiTargetAttributes_table ==
    [index |-> <<"iscsiInstIndex", "iscsiNodeIndex">>, timeout |-> 0, more |-> 0,
     alias |-> FALSE, columns |-> iscsiTargetAttributes_columns,
     line |-> iscsiTargetAttributes_LINE]
iscsiTargetAttributes_handler(row, c) ==
    IF c = 6 THEN Octets(row.iscsiTgtLastIntrFailureAddr, row.iscsiTgtLastIntrFailureAddrType)
    ELSE Column(row, iscsiTargetAttributes_columns[c])
iscsiTargetAttributes_load(k) ==
    [iscsiInstIndex |-> k[1], iscsiNodeIndex |-> k[2], iscsiTgtLoginFailures |-> k[3],
     iscsiTgtLastFailureTime |-> k[4],
     iscsiTgtLastFailureType |-> Pointer("iscsiTgtLoginStats", <<k[5]>>),
     iscsiTgtLastIntrFailureName |-> k[6],
     iscsiTgtLastIntrFailureAddrType |-> InetAddrType(k[7]),
     iscsiTgtLastIntrFailureAddr |-> InetAddr(k[7], k[8])]

-----------------------------------------------------------------------------
iscsiTgtLoginStats_columns == <<
    "iscsiTgtLoginAccepts", "iscsiTgtLoginOtherFails", "iscsiTgtLoginRedirects",
    "iscsiTgtLoginAuthorizeFails", "iscsiTgtLoginAuthenticateFails",
    "iscsiTgtLoginNegotiateFails">>
iscsiTgtLoginStats_LINE == <<Key, Key, Num, Num, Num, Num, Num, Num>>
iscsiTgtLoginStats_table ==
    [index |-> <<"iscsiInstIndex", "iscsiNodeIndex">>, timeout |-> 5, more |-> 0,
     alias |-> FALSE, columns |-> iscsiTgtLoginStats_columns, line |-> iscsiTgtLoginStats_LINE]
iscsiTgtLoginStats_handler(row, c) == Column(row, iscsiTgtLoginStats_columns[c])
iscsiTgtLoginStats_load(k) ==
    [iscsiInstIndex |-> k[1], iscsiNodeIndex |-> k[2], iscsiTgtLoginAccepts |-> k[3],
     iscsiTgtLoginOtherFails |-> k[4], iscsiTgtLoginRedirects |-> k[5],
     iscsiTgtLoginAuthorizeFails |-> k[6], iscsiTgtLoginAuthenticateFails |-> k[7],
     iscsiTgtLoginNegotiateFails |-> k[8]]

-----------------------------------------------------------------------------
iscsiTgtLogoutStats_columns == <<"iscsiTgtLogoutNormals", "iscsiTgtLogoutOthers">>
iscsiTgtLogoutStats_LINE == <<Key, Key, Num, Num>>
iscsiTgtLogoutStats_table ==
    [index |-> <<"iscsiInstIndex", "iscsiNodeIndex">>, timeout |-> 5, more |-> 0,
     alias |-> FALSE, columns |-> iscsiTgtLogoutStats_columns,
     line |-> iscsiTgtLogoutStats_LINE]
iscsiTgtLogoutStats_handler(row, c) == Column(row, iscsiTgtLogoutStats_columns[c])
iscsiTgtLogoutStats_load(k) ==
    [iscsiInstIndex |-> k[1], iscsiNodeIndex |-> k[2], iscsiTgtLogoutNormals |-> k[3],
     iscsiTgtLogoutOthers |-> k[4]]

-----------------------------------------------------------------------------
iscsiTgtAuthAttributes_columns == <<
    "iscsiTgtAuthIndex", "iscsiTgtAuthRowStatus", "iscsiTgtAuthIdentity",
    "iscsiTgtAuthStorageType">>
iscsiTgtAuthAttributes_LINE == <<Key, Key, Key, Identity>>
iscsiTgtAuthAttributes_table ==
    [index |-> <<"iscsiInstIndex", "iscsiNodeIndex", "iscsiTgtAuthIndex">>, timeout |-> 10,
     more |-> 0, alias |-> FALSE, columns |-> iscsiTgtAuthAttributes_columns,
     line |-> iscsiTgtAuthAttributes_LINE]
iscsiTgtAuthAttributes_handler(row, c) == Column(row, iscsiTgtAuthAttributes_columns[c])
iscsiTgtAuthAttributes_load(k) ==
    [iscsiInstIndex |-> k[1], iscsiNodeIndex |-> k[2], iscsiTgtAuthIndex |-> k[3],
     iscsiTgtAuthRowStatus |-> RS_ACTIVE,
     iscsiTgtAuthIdentity |-> PointerOrNone("ipsAuthIdentDescription", k[4]),
     iscsiTgtAuthStorageType |-> ST_READONLY]

-----------------------------------------------------------------------------
iscsiSessionAttributes_columns == <<
    "iscsiSsnNodeIndex", "iscsiSsnIndex", "iscsiSsnDirection", "iscsiSsnInitiatorName",
    "iscsiSsnTargetName", "iscsiSsnTSIH", "iscsiSsnISID", "iscsiSsnInitiatorAlias",
    "iscsiSsnTargetAlias", "iscsiSsnInitialR2T", "iscsiSsnImmediateData", "iscsiSsnType",
    "iscsiSsnMaxOutstandingR2T", "iscsiSsnFirstBurstLength", "iscsiSsnMaxBurstLength",
    "iscsiSsnConnectionNumber", "iscsiSsnAuthIdentity", "iscsiSsnDataSequenceInOrder",
    "iscsiSsnDataPDUInOrder", "iscsiSsnErrorRecoveryLevel", "iscsiSsnDiscontinuityTime">>
iscsiSessionAttributes_LINE == <<
    Key, Key, Key, Text, Text, Text, Num, Num, Num, Num, Num, Num, Num, YesNo, YesNo, SsnType,
    Num, Num, Num, Num, AuthType, YesNo, YesNo, Num, Num, AliasWord, AliasWord>>
iscsiSessionAttributes_table ==
    [index |-> <<"iscsiInstIndex", "iscsiSsnNodeIndex", "iscsiSsnIndex">>, timeout |-> 10,
     more |-> 2, alias |-> FALSE, columns |-> iscsiSessionAttributes_columns,
     line |-> iscsiSessionAttributes_LINE]
iscsiSessionAttributes_handler(row, c) == Column(row, iscsiSessionAttributes_columns[c])
iscsiSessionAttributes_load(k) ==
    [iscsiInstIndex |-> k[1], iscsiSsnNodeIndex |-> k[2], iscsiSsnIndex |-> k[3],
     iscsiSsnDirection |-> SSN_DIR_INBOUND, iscsiSsnInitiatorName |-> k[5],
     iscsiSsnTargetName |-> k[6], iscsiSsnTSIH |-> k[7], iscsiSsnISID |-> SubSeq(k, 8, 13),
     iscsiSsnInitiatorAlias |-> NoneIsEmpty(k[26]), iscsiSsnTargetAlias |-> k[27],
     iscsiSsnInitialR2T |-> TruthValue(k[14]), iscsiSsnImmediateData |-> TruthValue(k[15]),
     iscsiSsnType |-> SsnTypeOf(k[16]), iscsiSsnMaxOutstandingR2T |-> k[17],
     iscsiSsnFirstBurstLength |-> k[18], iscsiSsnMaxBurstLength |-> k[19],
     iscsiSsnConnectionNumber |-> k[20], iscsiSsnAuthIdentity |-> AuthMethod(k[21] = "CHAP"),
     iscsiSsnDataSequenceInOrder |-> TruthValue(k[22]),
     iscsiSsnDataPDUInOrder |-> TruthValue(k[23]), iscsiSsnErrorRecoveryLevel |-> k[24],
     iscsiSsnDiscontinuityTime |-> k[25]]

-----------------------------------------------------------------------------
iscsiSessionStats_columns == <<
    "iscsiSsnCmdPDUs", "iscsiSsnRspPDUs", "iscsiSsnTxDataOctets", "iscsiSsnRxDataOctets",
    "iscsiSsnLCTxDataOctets", "iscsiSsnLCRxDataOctets">>
iscsiSessionStats_LINE == <<Key, Key, Key, Num, Num, U64, U64>>
iscsiSessionStats_table ==
    [index |-> <<"iscsiInstIndex", "iscsiSsnNodeIndex", "iscsiSsnIndex">>, timeout |-> 5,
     more |-> 0, alias |-> FALSE, columns |-> iscsiSessionStats_columns,
     line |-> iscsiSessionStats_LINE]
iscsiSessionStats_handler(row, c) == Column(row, iscsiSessionStats_columns[c])
iscsiSessionStats_load(k) ==
    [iscsiInstIndex |-> k[1], iscsiSsnNodeIndex |-> k[2], iscsiSsnIndex |-> k[3],
     iscsiSsnCmdPDUs |-> k[4], iscsiSsnRspPDUs |-> k[5],
     iscsiSsnTxDataOctets |-> Counter64(k[6]), iscsiSsnRxDataOctets |-> Counter64(k[7]),
     iscsiSsnLCTxDataOctets |-> Counter64(k[6]).low,
     iscsiSsnLCRxDataOctets |-> Counter64(k[7]).low]

-----------------------------------------------------------------------------
iscsiSsnCxnErrStats_columns == <<"iscsiSsnCxnDigestErrors", "iscsiSsnCxnTimeoutErrors">>
iscsiSsnCxnErrStats_LINE == <<Key, Key, Key, Num, Num>>
iscsiSsnCxnErrStats_table ==
    [index |-> <<"iscsiInstIndex", "iscsiSsnNodeIndex", "iscsiSsnIndex">>, timeout |-> 5,
     more |-> 0, alias |-> FALSE, columns |-> iscsiSsnCxnErrStats_columns,
     line |-> iscsiSsnCxnErrStats_LINE]
iscsiSsnCxnErrStats_handler(row, c) == Column(row, iscsiSsnCxnErrStats_columns[c])
iscsiSsnCxnErrStats_load(k) ==
    [iscsiInstIndex |-> k[1], iscsiSsnNodeIndex |-> k[2], iscsiSsnIndex |-> k[3],
     iscsiSsnCxnDigestErrors |-> k[4], iscsiSsnCxnTimeoutErrors |-> k[5]]

-----------------------------------------------------------------------------
iscsiCxnAttributes_columns == <<
    "iscsiCxnIndex", "iscsiCxnCid", "iscsiCxnState", "iscsiCxnAddrType", "iscsiCxnLocalAddr",
    "iscsiCxnProtocol", "iscsiCxnLocalPort", "iscsiCxnRemoteAddr", "iscsiCxnRemotePort",
    "iscsiCxnMaxRecvDataSegLength", "iscsiCxnMaxXmitDataSegLength", "iscsiCxnHeaderIntegrity",
    "iscsiCxnDataIntegrity", "iscsiCxnRecvMarker", "iscsiCxnSendMarker",
    "iscsiCxnVersionActive">>
iscsiCxnAttributes_LINE == <<
    Key, Key, Key, Key, Num, CxnState, AddrType, Num, Proto, Num, Num, Num, Num, Num,
    DigestWord, DigestWord, YesNo, YesNo, Num>>
iscsiCxnAttributes_table ==
    [index |-> <<"iscsiInstIndex", "iscsiSsnNodeIndex", "iscsiSsnIndex", "iscsiCxnIndex">>,
     timeout |-> 10, more |-> 0, alias |-> FALSE, columns |-> iscsiCxnAttributes_columns,
     line |-> iscsiCxnAttributes_LINE]
iscsiCxnAttributes_handler(row, c) ==
    IF c = 5 THEN Octets(row.iscsiCxnLocalAddr, row.iscsiCxnAddrType)
    ELSE IF c = 8 THEN Octets(row.iscsiCxnRemoteAddr, row.iscsiCxnAddrType)
    ELSE Column(row, iscsiCxnAttributes_columns[c])
iscsiCxnAttributes_load(k) ==
    [iscsiInstIndex |-> k[1], iscsiSsnNodeIndex |-> k[2], iscsiSsnIndex |-> k[3],
     iscsiCxnIndex |-> k[4], iscsiCxnCid |-> k[5], iscsiCxnState |-> CxnStateOf(k[6]),
     iscsiCxnAddrType |-> InetAddrType(k[7]), iscsiCxnLocalAddr |-> InetAddr(k[7], k[8]),
     iscsiCxnProtocol |-> TransportProto(k[9]), iscsiCxnLocalPort |-> k[10],
     iscsiCxnRemoteAddr |-> InetAddr(k[7], k[11]), iscsiCxnRemotePort |-> k[12],
     iscsiCxnMaxRecvDataSegLength |-> k[13], iscsiCxnMaxXmitDataSegLength |-> k[14],
     iscsiCxnHeaderIntegrity |-> Digest(k[15]), iscsiCxnDataIntegrity |-> Digest(k[16]),
     iscsiCxnRecvMarker |-> TruthValue(k[17]), iscsiCxnSendMarker |-> TruthValue(k[18]),
     iscsiCxnVersionActive |-> k[19]]

-----------------------------------------------------------------------------
\* The tables that the module sets up.
init_iscsiMib == {
    "iscsiInstAttributes", "iscsiInstSsnErrStats", "iscsiPortalAttributes",
    "iscsiTgtPortalAttributes", "iscsiNodeAttributes", "iscsiTargetAttributes",
    "iscsiTgtLoginStats", "iscsiTgtLogoutStats", "iscsiTgtAuthAttributes",
    "iscsiSessionAttributes", "iscsiSessionStats", "iscsiSsnCxnErrStats", "iscsiCxnAttributes"}

Iscsi_table ==
    [iscsiInstAttributes |-> iscsiInstAttributes_table,
     iscsiInstSsnErrStats |-> iscsiInstSsnErrStats_table,
     iscsiPortalAttributes |-> iscsiPortalAttributes_table,
     iscsiTgtPortalAttributes |-> iscsiTgtPortalAttributes_table,
     iscsiNodeAttributes |-> iscsiNodeAttributes_table,
     iscsiTargetAttributes |-> iscsiTargetAttributes_table,
     iscsiTgtLoginStats |-> iscsiTgtLoginStats_table,
     iscsiTgtLogoutStats |-> iscsiTgtLogoutStats_table,
     iscsiTgtAuthAttributes |-> iscsiTgtAuthAttributes_table,
     iscsiSessionAttributes |-> iscsiSessionAttributes_table,
     iscsiSessionStats |-> iscsiSessionStats_table,
     iscsiSsnCxnErrStats |-> iscsiSsnCxnErrStats_table,
     iscsiCxnAttributes |-> iscsiCxnAttributes_table]

Iscsi_load(t, k) ==
    CASE t = "iscsiInstAttributes" -> iscsiInstAttributes_load(k)
      [] t = "iscsiInstSsnErrStats" -> iscsiInstSsnErrStats_load(k)
      [] t = "iscsiPortalAttributes" -> iscsiPortalAttributes_load(k)
      [] t = "iscsiTgtPortalAttributes" -> iscsiTgtPortalAttributes_load(k)
      [] t = "iscsiNodeAttributes" -> iscsiNodeAttributes_load(k)
      [] t = "iscsiTargetAttributes" -> iscsiTargetAttributes_load(k)
      [] t = "iscsiTgtLoginStats" -> iscsiTgtLoginStats_load(k)
      [] t = "iscsiTgtLogoutStats" -> iscsiTgtLogoutStats_load(k)
      [] t = "iscsiTgtAuthAttributes" -> iscsiTgtAuthAttributes_load(k)
      [] t = "iscsiSessionAttributes" -> iscsiSessionAttributes_load(k)
      [] t = "iscsiSessionStats" -> iscsiSessionStats_load(k)
      [] t = "iscsiSsnCxnErrStats" -> iscsiSsnCxnErrStats_load(k)
      [] t = "iscsiCxnAttributes" -> iscsiCxnAttributes_load(k)

Iscsi_handler(t, row, c) ==
    CASE t = "iscsiInstAttributes" -> iscsiInstAttributes_handler(row, c)
      [] t = "iscsiInstSsnErrStats" -> iscsiInstSsnErrStats_handler(row, c)
      [] t = "iscsiPortalAttributes" -> iscsiPortalAttributes_handler(row, c)
      [] t = "iscsiTgtPortalAttributes" -> iscsiTgtPortalAttributes_handler(row, c)
      [] t = "iscsiNodeAttributes" -> iscsiNodeAttributes_handler(row, c)
      [] t = "iscsiTargetAttributes" -> iscsiTargetAttributes_handler(row, c)
      [] t = "iscsiTgtLoginStats" -> iscsiTgtLoginStats_handler(row, c)
      [] t = "iscsiTgtLogoutStats" -> iscsiTgtLogoutStats_handler(row, c)
      [] t = "iscsiTgtAuthAttributes" -> iscsiTgtAuthAttributes_handler(row, c)
      [] t = "iscsiSessionAttributes" -> iscsiSessionAttributes_handler(row, c)
      [] t = "iscsiSessionStats" -> iscsiSessionStats_handler(row, c)
      [] t = "iscsiSsnCxnErrStats" -> iscsiSsnCxnErrStats_handler(row, c)
      [] t = "iscsiCxnAttributes" -> iscsiCxnAttributes_handler(row, c)
=============================================================================
