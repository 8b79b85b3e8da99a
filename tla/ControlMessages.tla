--------------------------- MODULE ControlMessages ---------------------------
(***************************************************************************)
(* The ancillary data of src/src/io/message.rs: the messages a program     *)
(* adds to a send and reads from a receive, and the cmsghdrs they are made *)
(* into and parsed from.                                                   *)
(*                                                                         *)
(* A message is [level, kind, value]. A raw message, a cmsghdr with its    *)
(* data, is [level, type, len, value]: len is the length of the data in    *)
(* bytes, which parsing checks, and value what the data says.              *)
(***************************************************************************)
EXTENDS Naturals, Sequences, FiniteSets, SequencesExt

ControlMessage(level, kind, value) == [level |-> level, kind |-> kind, value |-> value]
Raw(level, type, len, value) == [level |-> level, type |-> type, len |-> len, value |-> value]

\* IoControlMessage: a level and a kind of that level.
Kinds == [Socket |-> {"Rights", "Credentials", "Timestamp", "DetailedTimestamp"},
          IpV4 |-> {"PacketInfo", "TimeToLive"},
          IpV6 |-> {"PacketInfo", "HopLimit", "Class"},
          Tls |-> {"SetRecordType", "GetRecordType"}]

IsControlMessage(m) ==
    /\ m.level \in DOMAIN Kinds /\ m.kind \in Kinds[m.level]
    /\ m.kind = "Rights" => m.value \in Seq(ToSet(m.value))
    /\ m.kind = "PacketInfo" => "destination" \in DOMAIN m.value

\* A cmsghdr the kernel may have made: its length and, by its type, its data.
IsRaw(raw) ==
    /\ raw = Raw(raw.level, raw.type, raw.len, raw.value) /\ raw.len \in Nat
    /\ raw.type = "SCM_RIGHTS" => raw.value \in Seq(ToSet(raw.value)) /\ raw.len = 4 * Len(raw.value)
    /\ raw.type = "IP_PKTINFO" => "destination" \in DOMAIN raw.value

\* cmsghdr is 16 bytes, and what follows it is padded to 8.
CmsgHeader == 16
CmsgSpace(len) == CmsgHeader + 8 * ((len + 7) \div 8)

\* Messages that hold an array: the length of a member.
MemberSize == [SCM_RIGHTS |-> 4, SCM_TIMESTAMPING |-> 16]

\* Messages that hold one value: its length, exactly.
SocketSize == [SCM_CREDENTIALS |-> 12, SCM_TIMESTAMP |-> 16, SCM_TIMESTAMPNS |-> 16]
IpV4Size == [IP_PKTINFO |-> 12, IP_TTL |-> 4]
IpV6Size == [IPV6_PKTINFO |-> 20, IPV6_HOPLIMIT |-> 4, IPV6_TCLASS |-> 4]
TlsSize == [TLS_GET_RECORD_TYPE |-> 1]

(***************************************************************************)
(* The values that change on the way. A conversion that fails is {}.       *)
(***************************************************************************)
\* A time is [secs, micros, nanos]: a timeval has no room for nanos.
AsTimeval(time) == [time EXCEPT !.nanos = 0]

\* u32::from_be_bytes and to_be_bytes around a field that the kernel has in
\* network order: on a little-endian machine the bytes come out reversed.
InPktInfo(info) ==
    IF info.destination.version = "V4" /\ info.specific /= {} /\ \A ip \in info.specific : ip.version = "V4"
    THEN {[info EXCEPT !.destination.bytes = Reverse(@),
                       !.specific = {[ip EXCEPT !.bytes = Reverse(@)] : ip \in @}]}
    ELSE {}
In6PktInfo(info) ==
    IF info.destination.version = "V6" THEN {[info EXCEPT !.specific = {}]} ELSE {}

\* IpV6TrafficClass: two bits of congestion notification below six of code
\* point; Other may hold a code point that does not fit.
TrafficClassOf(byte) == [ecn |-> byte % 4, dscp |-> byte \div 4]
TrafficClassByte(class) == ((class.dscp * 4) % 256) + class.ecn

TlsAlertLevelOf(byte) == CASE byte = 1 -> "Warning" [] byte = 2 -> "Fatal" [] OTHER -> "Unknown"

(***************************************************************************)
(* prepare_control_message: from a message to a raw one.                   *)
(***************************************************************************)
PrepareSocket(m) ==
    CASE m.kind = "Rights" -> {Raw("SOL_SOCKET", "SCM_RIGHTS", 4 * Len(m.value), m.value)}
      [] m.kind = "Credentials" -> {Raw("SOL_SOCKET", "SCM_CREDENTIALS", 12, m.value)}
      [] m.kind = "Timestamp" -> {Raw("SOL_SOCKET", "SCM_TIMESTAMP", 16, AsTimeval(m.value))}
      [] m.kind = "DetailedTimestamp" -> {}

PrepareIpV4(m) ==
    CASE m.kind = "PacketInfo" -> {Raw("IPPROTO_IP", "IP_PKTINFO", 12, info) : info \in InPktInfo(m.value)}
      [] m.kind = "TimeToLive" -> {Raw("IPPROTO_IP", "IP_TTL", 4, m.value)}

PrepareIpV6(m) ==
    CASE m.kind = "PacketInfo" -> {Raw("IPPROTO_IPV6", "IPV6_PKTINFO", 20, info) : info \in In6PktInfo(m.value)}
      [] m.kind = "HopLimit" -> {Raw("IPPROTO_IPV6", "IPV6_HOPLIMIT", 4, m.value)}
      [] m.kind = "Class" -> {Raw("IPPROTO_IPV6", "IPV6_TCLASS", 4, TrafficClassByte(m.value))}

PrepareTls(m) ==
    IF m.kind = "SetRecordType" THEN {Raw("SOL_TLS", "TLS_SET_RECORD_TYPE", 1, m.value)} ELSE {}

Prepare(m) ==
    CASE m.level = "Socket" -> PrepareSocket(m)
      [] m.level = "IpV4" -> PrepareIpV4(m)
      [] m.level = "IpV6" -> PrepareIpV6(m)
      [] m.level = "Tls" -> PrepareTls(m)

\* try_prepare_multi: all of them, or the first error; none at all is no bytes.
PrepareMulti(messages) ==
    IF \E i \in DOMAIN messages : Prepare(messages[i]) = {} THEN {}
    ELSE {[i \in DOMAIN messages |-> CHOOSE raw \in Prepare(messages[i]) : TRUE]}

(***************************************************************************)
(* parse_control_message: from a raw message to a message.                 *)
(***************************************************************************)
IsOne(raw, size) == raw.type \in DOMAIN size /\ raw.len = size[raw.type]
IsMany(raw, type) == raw.type = type /\ raw.len % MemberSize[type] = 0

ParseSocket(raw) ==
    CASE IsMany(raw, "SCM_RIGHTS") -> {ControlMessage("Socket", "Rights", raw.value)}
      [] IsMany(raw, "SCM_TIMESTAMPING") /\ raw.len = 48 -> {ControlMessage("Socket", "DetailedTimestamp", raw.value)}
      [] IsOne(raw, SocketSize) ->
            {ControlMessage("Socket", IF raw.type = "SCM_CREDENTIALS" THEN "Credentials" ELSE "Timestamp", raw.value)}
      [] OTHER -> {}

\* IP_RECVERR is an error by what it says, an unknown type by what it is.
ParseIpV4(raw) ==
    CASE IsOne(raw, IpV4Size) /\ raw.type = "IP_PKTINFO" ->
            {ControlMessage("IpV4", "PacketInfo",
                [raw.value EXCEPT !.destination.bytes = Reverse(@),
                                  !.specific = {[ip EXCEPT !.bytes = Reverse(@)] : ip \in @}])}
      [] IsOne(raw, IpV4Size) /\ raw.type = "IP_TTL" -> {ControlMessage("IpV4", "TimeToLive", raw.value)}
      [] OTHER -> {}

ParseIpV6(raw) ==
    CASE IsOne(raw, IpV6Size) /\ raw.type = "IPV6_PKTINFO" -> {ControlMessage("IpV6", "PacketInfo", raw.value)}
      [] IsOne(raw, IpV6Size) /\ raw.type = "IPV6_HOPLIMIT" -> {ControlMessage("IpV6", "HopLimit", raw.value)}
      [] IsOne(raw, IpV6Size) /\ raw.type = "IPV6_TCLASS" ->
            {ControlMessage("IpV6", "Class", TrafficClassOf(raw.value % 256))}
      [] OTHER -> {}

ParseTls(raw) ==
    IF IsOne(raw, TlsSize) THEN {ControlMessage("Tls", "GetRecordType", raw.value)} ELSE {}

Parse(raw) ==
    CASE raw.level = "SOL_SOCKET" -> ParseSocket(raw)
      [] raw.level = "IPPROTO_IP" -> ParseIpV4(raw)
      [] raw.level = "IPPROTO_IPV6" -> ParseIpV6(raw)
      [] raw.level = "SOL_TLS" -> ParseTls(raw)
      [] OTHER -> {}

\* Mutant: each message parsed replaces the one before it.
ParseLast(raws) == IF raws = <<>> THEN {} ELSE {<<m>> : m \in Parse(Last(raws))}

\* try_parse_from_msghdr: no cmsghdr at all is an error, and the first that
\* cannot be parsed takes the ones parsed before it along.
ParseFromMsghdr(raws) ==
    IF raws = <<>> \/ \E i \in DOMAIN raws : Parse(raws[i]) = {} THEN {}
    ELSE {[i \in DOMAIN raws |-> CHOOSE m \in Parse(raws[i]) : TRUE]}

(***************************************************************************)
(* The kernel's side: put_cmsg and scm_detach_fds. A message that does not *)
(* fit is cut to the room there is, descriptors that do not fit are        *)
(* closed, and the rest of the messages are dropped.                       *)
(***************************************************************************)
Cut(raw, room) ==
    IF raw.type = "SCM_RIGHTS"
    THEN LET fds == SubSeq(raw.value, 1, room \div 4) IN [raw EXCEPT !.value = fds, !.len = 4 * Len(fds)]
    ELSE [raw EXCEPT !.len = room]

\* The least data a message may be cut to: one descriptor, or nothing.
LeastData(raw) == IF raw.type = "SCM_RIGHTS" THEN 4 ELSE 0

PutCmsg(put, raw) ==
    CASE CmsgHeader + raw.len <= put.room ->
            [put EXCEPT !.raws = Append(@, raw),
                        !.room = IF @ < CmsgSpace(raw.len) THEN 0 ELSE @ - CmsgSpace(raw.len)]
      [] CmsgHeader + raw.len > put.room /\ CmsgHeader + LeastData(raw) <= put.room ->
            [put EXCEPT !.raws = Append(@, Cut(raw, put.room - CmsgHeader)), !.room = 0, !.cut = TRUE]
      [] OTHER -> [put EXCEPT !.cut = TRUE]

PutCmsgs(raws, size) ==
    LET put[n \in 0 .. Len(raws)] ==
            IF n = 0 THEN [raws |-> <<>>, room |-> size, cut |-> FALSE] ELSE PutCmsg(put[n - 1], raws[n])
    IN  put[Len(raws)]

=============================================================================
