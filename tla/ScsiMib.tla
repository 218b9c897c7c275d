------------------------------- MODULE ScsiMib -------------------------------
(***************************************************************************)
(* The tables of scsiMib.c, described as those of iscsiMib.c are.          *)
(***************************************************************************)
EXTENDS MibData

-----------------------------------------------------------------------------
scsiInstanceTable_columns == <<
    "scsiInstIndex", "scsiInstAlias", "scsiInstSoftwareIndex", "scsiInstVendorVersion",
    "scsiInstScsiNotificationsEnable", "scsiInstStorageType">>
scsiInstanceTable_LINE == <<Key, Num, Text>>
scsiInstanceTable_table ==
    [index |-> <<"scsiInstIndex">>, timeout |-> 10, more |-> 1, alias |-> TRUE,
     columns |-> scsiInstanceTable_columns, line |-> scsiInstanceTable_LINE]
scsiInstanceTable_handler(row, c) == Column(row, scsiInstanceTable_columns[c])
scsiInstanceTable_load(k) ==
    [scsiInstIndex |-> k[1], scsiInstAlias |-> k[4], scsiInstSoftwareIndex |-> k[2],
     scsiInstVendorVersion |-> k[3], scsiInstScsiNotificationsEnable |-> TV_TRUE,
     scsiInstStorageType |-> ST_READONLY]

-----------------------------------------------------------------------------
scsiDeviceTable_columns == <<
    "scsiDeviceIndex", "scsiDeviceAlias", "scsiDeviceRole", "scsiDevicePortNumber">>
scsiDeviceTable_LINE == <<Key, Key, Text, Num, Text>>
scsiDeviceTable_table ==
    [index |-> <<"scsiInstIndex", "scsiDeviceIndex">>, timeout |-> 10, more |-> 1,
     alias |-> FALSE, columns |-> scsiDeviceTable_columns, line |-> scsiDeviceTable_LINE]
scsiDeviceTable_handler(row, c) == Column(row, scsiDeviceTable_columns[c])
\* Mutant: the role is not set.
scsiDeviceTable_loadNoRole(k) ==
    [scsiInstIndex |-> k[1], scsiDeviceIndex |-> k[2], scsiDeviceAlias |-> k[5],
     scsiDevicePortNumber |-> k[4]]

scsiDeviceTable_load(k) ==
    [scsiInstIndex |-> k[1], scsiDeviceIndex |-> k[2], scsiDeviceAlias |-> k[5],
     scsiDeviceRole |-> ROLE_TARGET, scsiDevicePortNumber |-> k[4]]

-----------------------------------------------------------------------------
scsiPortTable_columns == <<
    "scsiPortIndex", "scsiPortRole", "scsiPortTransportPtr", "scsiPortBusyStatuses">>
scsiPortTable_LINE == <<Key, Key, Key, Text, Num>>
\* Mutant: the index of the port is left out of the key.
scsiPortTable_tableOfDevice ==
    [index |-> <<"scsiInstIndex", "scsiDeviceIndex">>, timeout |-> 10, more |-> 0,
     alias |-> FALSE, columns |-> scsiPortTable_columns, line |-> scsiPortTable_LINE]

scsiPortTable_table ==
    [index |-> <<"scsiInstIndex", "scsiDeviceIndex", "scsiPortIndex">>, timeout |-> 10,
     more |-> 0, alias |-> FALSE, columns |-> scsiPortTable_columns,
     line |-> scsiPortTable_LINE]
scsiPortTable_handler(row, c) == Column(row, scsiPortTable_columns[c])
scsiPortTable_load(k) ==
    [scsiInstIndex |-> k[1], scsiDeviceIndex |-> k[2], scsiPortIndex |-> k[3],
     scsiPortRole |-> ROLE_TARGET,
     scsiPortTransportPtr |-> Pointer("scsiTransportType", <<k[1], k[2], SCSI_TRANSPORT_INDEX>>),
     scsiPortBusyStatuses |-> k[5]]

-----------------------------------------------------------------------------
scsiTransportTable_columns == <<
    "scsiTransportIndex", "scsiTransportType", "scsiTransportPointer", "scsiTransportDevName">>
scsiTransportTable_LINE == <<Key, Key, Key, Text>>
scsiTransportTable_table ==
    [index |-> <<"scsiInstIndex", "scsiDeviceIndex", "scsiTransportIndex">>, timeout |-> 10,
     more |-> 0, alias |-> FALSE, columns |-> scsiTransportTable_columns,
     line |-> scsiTransportTable_LINE]
\* The case of the index has no break: it answers with the type.
scsiTransportTable_handler(row, c) ==
    Column(row, scsiTransportTable_columns[IF c = 1 THEN 2 ELSE c])
scsiTransportTable_load(k) ==
    [scsiInstIndex |-> k[1], scsiDeviceIndex |-> k[2], scsiTransportIndex |-> k[3],
     scsiTransportType |-> Pointer("scsiTransportISCSI", <<>>),
     scsiTransportPointer |-> Pointer("iscsiInstDescr", <<1>>), scsiTransportDevName |-> k[4]]

-----------------------------------------------------------------------------
scsiTgtDevTable_columns == <<
    "scsiTgtDevNumberOfLUs", "scsiTgtDeviceStatus", "scsiTgtDevNonAccessibleLUs",
    "scsiTgtDevResets">>
scsiTgtDevTable_LINE == <<Key, Key, Num, DevStatus, Num, Num>>
scsiTgtDevTable_table ==
    [index |-> <<"scsiInstIndex", "scsiDeviceIndex">>, timeout |-> 0, more |-> 0,
     alias |-> FALSE, columns |-> scsiTgtDevTable_columns, line |-> scsiTgtDevTable_LINE]
scsiTgtDevTable_handler(row, c) == Column(row, scsiTgtDevTable_columns[c])
scsiTgtDevTable_load(k) ==
    [scsiInstIndex |-> k[1], scsiDeviceIndex |-> k[2], scsiTgtDevNumberOfLUs |-> k[3],
     scsiTgtDeviceStatus |-> DevStatusOf(k[4]), scsiTgtDevNonAccessibleLUs |-> k[5],
     scsiTgtDevResets |-> k[6]]

-----------------------------------------------------------------------------
scsiTgtPortTable_columns == <<
    "scsiTgtPortName", "scsiTgtPortIdentifier", "scsiTgtPortInCommands",
    "scsiTgtPortWrittenMegaBytes", "scsiTgtPortReadMegaBytes", "scsiTgtPortHSInCommands">>
scsiTgtPortTable_LINE == <<Key, Key, Key, Text, Text, U64, Num, Num>>
scsiTgtPortTable_table ==
    [index |-> <<"scsiInstIndex", "scsiDeviceIndex", "scsiPortIndex">>, timeout |-> 5,
     more |-> 0, alias |-> FALSE, columns |-> scsiTgtPortTable_columns,
     line |-> scsiTgtPortTable_LINE]
scsiTgtPortTable_handler(row, c) == Column(row, scsiTgtPortTable_columns[c])
scsiTgtPortTable_load(k) ==
    [scsiInstIndex |-> k[1], scsiDeviceIndex |-> k[2], scsiPortIndex |-> k[3],
     scsiTgtPortName |-> k[4], scsiTgtPortIdentifier |-> k[5],
     scsiTgtPortInCommands |-> Counter64(k[6]).low, scsiTgtPortWrittenMegaBytes |-> k[7],
     scsiTgtPortReadMegaBytes |-> k[8], scsiTgtPortHSInCommands |-> Counter64(k[6])]

-----------------------------------------------------------------------------
scsiAuthorizedIntrTable_columns == <<
    "scsiAuthIntrTgtPortIndex", "scsiAuthIntrIndex", "scsiAuthIntrDevOrPort",
    "scsiAuthIntrName", "scsiAuthIntrLunMapIndex", "scsiAuthIntrAttachedTimes",
    "scsiAuthIntrOutCommands", "scsiAuthIntrReadMegaBytes", "scsiAuthIntrWrittenMegaBytes",
    "scsiAuthIntrHSOutCommands", "scsiAuthIntrLastCreation", "scsiAuthIntrRowStatus">>
scsiAuthorizedIntrTable_LINE == <<Key, Key, Key, Key, Num, Text, Num, Num, Num, Num, Num, Num>>
scsiAuthorizedIntrTable_table ==
    [index |-> <<"scsiInstIndex", "scsiDeviceIndex", "scsiAuthIntrTgtPortIndex", "scsiAuthIntrIndex">>,
     timeout |-> 5, more |-> 0, alias |-> FALSE, columns |-> scsiAuthorizedIntrTable_columns,
     line |-> scsiAuthorizedIntrTable_LINE]
scsiAuthorizedIntrTable_handler(row, c) == Column(row, scsiAuthorizedIntrTable_columns[c])
scsiAuthorizedIntrTable_load(k) ==
    [scsiInstIndex |-> k[1], scsiDeviceIndex |-> k[2], scsiAuthIntrTgtPortIndex |-> k[3],
     scsiAuthIntrIndex |-> k[4], scsiAuthIntrDevOrPort |-> k[5], scsiAuthIntrName |-> k[6],
     scsiAuthIntrLunMapIndex |-> k[7], scsiAuthIntrAttachedTimes |-> k[8],
     scsiAuthIntrOutCommands |-> k[9], scsiAuthIntrReadMegaBytes |-> k[10],
     scsiAuthIntrWrittenMegaBytes |-> k[11],
     scsiAuthIntrHSOutCommands |-> [high |-> 0, low |-> k[9]],
     scsiAuthIntrLastCreation |-> k[12], scsiAuthIntrRowStatus |-> RS_ACTIVE]

-----------------------------------------------------------------------------
scsiAttIntrPortTable_columns == <<
    "scsiAttIntrPortIndex", "scsiAttIntrPortAuthIntrIdx", "scsiAttIntrPortName",
    "scsiAttIntrPortIdentifier">>
scsiAttIntrPortTable_LINE == <<Key, Key, Key, Key, Num, Text>>
scsiAttIntrPortTable_table ==
    [index |-> <<"scsiInstIndex", "scsiDeviceIndex", "scsiPortIndex", "scsiAttIntrPortIndex">>,
     timeout |-> 10, more |-> 0, alias |-> FALSE, columns |-> scsiAttIntrPortTable_columns,
     line |-> scsiAttIntrPortTable_LINE]
scsiAttIntrPortTable_handler(row, c) == Column(row, scsiAttIntrPortTable_columns[c])
scsiAttIntrPortTable_load(k) ==
    [scsiInstIndex |-> k[1], scsiDeviceIndex |-> k[2], scsiPortIndex |-> k[3],
     scsiAttIntrPortIndex |-> k[4], scsiAttIntrPortAuthIntrIdx |-> k[5],
     scsiAttIntrPortName |-> k[6], scsiAttIntrPortIdentifier |-> k[6]]

-----------------------------------------------------------------------------
scsiLuTable_columns == <<
    "scsiLuIndex", "scsiLuDefaultLun", "scsiLuWwnName", "scsiLuVendorId", "scsiLuProductId",
    "scsiLuRevisionId", "scsiLuPeripheralType", "scsiLuStatus", "scsiLuState",
    "scsiLuInCommands", "scsiLuReadMegaBytes", "scsiLuWrittenMegaBytes", "scsiLuInResets",
    "scsiLuOutTaskSetFullStatus", "scsiLuHSInCommands", "scsiLuLastCreation">>
scsiLuTable_LINE == <<
    Key, Key, Key, U64, WwnWord, Num, LuStatus, Text, U64, Num, Num, Num, Text, Text, Text>>
scsiLuTable_table ==
    [index |-> <<"scsiInstIndex", "scsiDeviceIndex", "scsiLuIndex">>, timeout |-> 5,
     more |-> 3, alias |-> FALSE, columns |-> scsiLuTable_columns, line |-> scsiLuTable_LINE]
scsiLuTable_handler(row, c) == Column(row, scsiLuTable_columns[c])
scsiLuTable_load(k) ==
    [scsiInstIndex |-> k[1], scsiDeviceIndex |-> k[2], scsiLuIndex |-> k[3],
     scsiLuDefaultLun |-> k[4], scsiLuWwnName |-> NoneIsEmpty(k[5]),
     scsiLuVendorId |-> k[13], scsiLuProductId |-> k[14], scsiLuRevisionId |-> k[15],
     scsiLuPeripheralType |-> k[6], scsiLuStatus |-> LuStatusOf(k[7]),
     scsiLuState |-> EXPOSED, scsiLuInCommands |-> Counter64(k[9]).low,
     scsiLuReadMegaBytes |-> k[10], scsiLuWrittenMegaBytes |-> k[11],
     scsiLuHSInCommands |-> Counter64(k[9]), scsiLuLastCreation |-> k[12]]

-----------------------------------------------------------------------------
\* The tables that the module sets up.
init_scsiMib == {
    "scsiInstanceTable", "scsiDeviceTable", "scsiPortTable", "scsiTransportTable",
    "scsiTgtDevTable", "scsiTgtPortTable", "scsiAuthorizedIntrTable", "scsiAttIntrPortTable",
    "scsiLuTable"}

Scsi_table ==
    [scsiInstanceTable |-> scsiInstanceTable_table,
     scsiDeviceTable |-> scsiDeviceTable_table,
     scsiPortTable |-> scsiPortTable_table,
     scsiTransportTable |-> scsiTransportTable_table,
     scsiTgtDevTable |-> scsiTgtDevTable_table,
     scsiTgtPortTable |-> scsiTgtPortTable_table,
     scsiAuthorizedIntrTable |-> scsiAuthorizedIntrTable_table,
     scsiAttIntrPortTable |-> scsiAttIntrPortTable_table,
     scsiLuTable |-> scsiLuTable_table]

Scsi_load(t, k) ==
    CASE t = "scsiInstanceTable" -> scsiInstanceTable_load(k)
      [] t = "scsiDeviceTable" -> scsiDeviceTable_load(k)
      [] t = "scsiPortTable" -> scsiPortTable_load(k)
      [] t = "scsiTransportTable" -> scsiTransportTable_load(k)
      [] t = "scsiTgtDevTable" -> scsiTgtDevTable_load(k)
      [] t = "scsiTgtPortTable" -> scsiTgtPortTable_load(k)
      [] t = "scsiAuthorizedIntrTable" -> scsiAuthorizedIntrTable_load(k)
      [] t = "scsiAttIntrPortTable" -> scsiAttIntrPortTable_load(k)
      [] t = "scsiLuTable" -> scsiLuTable_load(k)

Scsi_handler(t, row, c) ==
    CASE t = "scsiInstanceTable" -> scsiInstanceTable_handler(row, c)
      [] t = "scsiDeviceTable" -> scsiDeviceTable_handler(row, c)
      [] t = "scsiPortTable" -> scsiPortTable_handler(row, c)
      [] t = "scsiTransportTable" -> scsiTransportTable_handler(row, c)
      [] t = "scsiTgtDevTable" -> scsiTgtDevTable_handler(row, c)
      [] t = "scsiTgtPortTable" -> scsiTgtPortTable_handler(row, c)
      [] t = "scsiAuthorizedIntrTable" -> scsiAuthorizedIntrTable_handler(row, c)
      [] t = "scsiAttIntrPortTable" -> scsiAttIntrPortTable_handler(row, c)
      [] t = "scsiLuTable" -> scsiLuTable_handler(row, c)
=============================================================================
