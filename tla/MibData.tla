------------------------------- MODULE MibData -------------------------------
(***************************************************************************)
(* What the tables of the SNMP sub-agent share: the words that the kernel  *)
(* writes into the lines of its files and what the loads make of them.     *)
(*                                                                         *)
(* A kind of word is the pair of its values that the model distinguishes.  *)
(***************************************************************************)
EXTENDS Integers, Sequences

CONSTANT Unset   \* what memset left in a field that nothing was stored in

Key    == <<>>   \* the words that name the record of a line
Num    == <<1, 2>>
OrZero == <<0, 2>>
Text   == <<"one", "two">>
YesNo  == <<"Yes", "No">>
U64    == <<[high |-> 1, low |-> 1], [high |-> 1, low |-> 2]>>
AddrType   == <<"ipv4", "ipv6">>
Proto      == <<"TCP", "SCTP">>
DigestWord == <<"CRC32C", "None">>
Digests    == <<<<"CRC32C", "None">>, <<"None">>>>
SsnType    == <<"Normal", "Discovery">>
AuthType   == <<"CHAP", "None">>
CxnState   == <<"login", "logout">>
DevStatus  == <<"activated", "deactivated">>
LuStatus   == <<"available", "notavailable">>
AliasWord  == <<"None", "one">>
WwnWord    == <<"None", "one">>
Identity   == <<0, 1>>       \* what find_authId_index says of the initiator's name
Enforced   == <<TRUE, FALSE>>
LoginFailType == <<2, 4>>

\* A field of a row, as it is found when the load has left it alone.
Column(row, field) == IF field \in DOMAIN row THEN row[field] ELSE Unset

RS_ACTIVE   == 1
ST_READONLY == 5
ROLE_TARGET == 128
SSN_DIR_INBOUND == 1
SCSI_TRANSPORT_INDEX == 1
AUTH_INST_INDEX    == 1
AUTH_ID_NAME_INDEX == 1
EXPOSED == 32

TV_TRUE == 1
TruthValue(w) == IF w = "Yes" THEN TV_TRUE ELSE 2

Digest(w) == CASE w = "CRC32C" -> 4 [] w = "None" -> 3 [] OTHER -> 2

\* The second of a list of digests, "other" if there is none.
Secondary(ws) == IF Len(ws) = 2 THEN Digest(ws[2]) ELSE 2

TransportProto(w) == CASE w = "TCP" -> 6 [] w = "SCTP" -> 132 [] OTHER -> Unset

\* Only IPv4 is told apart, and only its addresses are put into network order.
InetAddrType(w) == IF w = "ipv4" THEN 1 ELSE Unset
InetAddr(w, addr) == [addr |-> addr, network |-> w = "ipv4"]

\* As much of an address as is sent.
Octets(addr, type) == [of |-> addr, length |-> IF type = 1 THEN 4 ELSE 16]

\* A number of 64 bits goes into a structure of its halves.
Counter64(n) == [high |-> n.high, low |-> n.low]

CxnStateOf(w) ==
    CASE w = "login" -> 1 [] w = "full" -> 2 [] w = "logout" -> 3 [] OTHER -> Unset

SsnTypeOf(w) == CASE w = "Normal" -> 1 [] w = "Discovery" -> 2 [] OTHER -> Unset

\* Mutant: a status that is not known is left as it is.
DevStatusOfKnown(w) ==
    CASE w = "activated" -> 2 [] w = "unknown" -> 1 [] OTHER -> Unset

DevStatusOf(w) == CASE w = "activated" -> 2 [] w = "unknown" -> 1 [] OTHER -> 5

LuStatusOf(w) == CASE w = "available" -> 2 [] w = "notavailable" -> 3 [] OTHER -> 1

NoneIsEmpty(w) == IF w = "None" THEN "" ELSE w

\* An object identifier in a column: an object and the instance behind it.
Pointer(object, instance) == [object |-> object, instance |-> instance]
PointerOrNone(object, instance) ==
    IF instance = 0 THEN Pointer("zeroDotZero", <<>>) ELSE Pointer(object, <<instance>>)
AuthMethod(chap) == Pointer("ipsAuthMethodTypes", <<IF chap THEN 3 ELSE 1>>)
=============================================================================
