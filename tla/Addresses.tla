----------------------------- MODULE Addresses -----------------------------
(***************************************************************************)
(* The addresses of src/src/net/address.rs: an IpAddress and its text, and *)
(* a socket address and the sockaddr_storage handed to the kernel.         *)
(*                                                                         *)
(* A text is what split leaves of it: the parts between its dots or its    *)
(* colons. A group of an IPv6 text is a number of 16 bits, and Blank is    *)
(* the empty part that "::" makes; leading zeros of a group are not told   *)
(* apart. The machine is little-endian: an integer made of big-endian      *)
(* bytes has them reversed in memory.                                      *)
(***************************************************************************)
EXTENDS Naturals, Sequences, FiniteSets, SequencesExt

CONSTANT Answers   \* what getaddrinfo says of each host name: a sequence of sockaddrs

Blank == 65536

Dotted(bytes) == [form |-> "dotted", parts |-> bytes]
Mapped(bytes) == [form |-> "::ffff:dotted", parts |-> bytes]
Colons(parts) == [form |-> "colons", parts |-> parts]
Hostname(name) == [form |-> "name", parts |-> <<name>>]

V4(bytes) == [version |-> "V4", bytes |-> bytes]
V6(bytes) == [version |-> "V6", bytes |-> bytes]

\* IpAddress: [u8; 4] or [u8; 16].
Octets(n) == [1 .. n -> 0 .. 255]
IpAddresses == [version : {"V4"}, bytes : Octets(4)] \cup [version : {"V6"}, bytes : Octets(16)]

Texts == [form : {"dotted", "::ffff:dotted", "colons"}, parts : Seq(Nat)]
            \cup [form : {"name"}, parts : {<<host>> : host \in DOMAIN Answers}]

\* sockaddr_in and sockaddr_in6 hold an address of the length of their family.
ASSUME AnswersAssumption ==
    \A host \in DOMAIN Answers :
        /\ Answers[host] \in Seq(ToSet(Answers[host]))
        /\ \A answer \in ToSet(Answers[host]) :
              /\ answer.family = "AF_INET" => answer.addr \in Octets(4)
              /\ answer.family = "AF_INET6" => answer.addr \in Octets(16)

\* u32::from_be_bytes, to_be and u16::to_be: the bytes in memory change order.
SwapBytes(bytes) == Reverse(bytes)

(***************************************************************************)
(* From an address to its text.                                            *)
(***************************************************************************)
IsV4MappedV6(ip) ==
    /\ ip.version = "V6"
    /\ SubSeq(ip.bytes, 1, 12) = [i \in 1 .. 12 |-> IF i > 10 THEN 255 ELSE 0]

\* to_be_bytes: an IPv4 address is mapped.
ToBeBytes(ip) ==
    IF ip.version = "V6" THEN ip.bytes
    ELSE [i \in 1 .. 12 |-> IF i > 10 THEN 255 ELSE 0] \o ip.bytes

BytesAsUncompressed(bytes) == [i \in 1 .. 8 |-> bytes[2 * i - 1] * 256 + bytes[2 * i]]

\* The zero groups that end at group i.
ZerosTo(parts, i) ==
    CHOOSE n \in 0 .. i : /\ \A j \in (i - n + 1) .. i : parts[j] = 0
                          /\ n < i => parts[i - n] /= 0
MostZeroes(parts) == LET runs == {ZerosTo(parts, i) : i \in 1 .. 8} IN CHOOSE n \in runs : \A m \in runs : m <= n

\* double_colon_index: the first group of the first longest run of zeros.
DoubleColon(parts) ==
    CHOOSE i \in 1 .. 8 : /\ ZerosTo(parts, i + MostZeroes(parts) - 1) = MostZeroes(parts)
                          /\ \A j \in 1 .. (i - 1) : ZerosTo(parts, j + MostZeroes(parts) - 1) < MostZeroes(parts)

\* compress_v6: a run of one zero is not compressed, but the empty part that
\* stands for the start or the end of the text is added all the same.
Compress(parts) ==
    IF MostZeroes(parts) = 0 THEN parts
    ELSE LET first == DoubleColon(parts)
             most  == MostZeroes(parts)
             body  == IF most > 1
                      THEN SubSeq(parts, 1, first - 1) \o <<Blank>> \o SubSeq(parts, first + most, 8)
                      ELSE parts
         IN  CASE body = <<Blank>> -> <<Blank, Blank, Blank>>
               [] Len(body) > 1 /\ first = 1 -> <<Blank>> \o body
               [] Len(body) > 1 /\ first = Len(body) -> Append(body, Blank)
               [] OTHER -> body

DisplayIp(ip) ==
    CASE ip.version = "V4" -> Dotted(ip.bytes)
      [] IsV4MappedV6(ip) -> Mapped(SubSeq(ip.bytes, 13, 16))
      [] OTHER -> Colons(Compress(BytesAsUncompressed(ip.bytes)))

(***************************************************************************)
(* From a text to an address: a set of one, or of none for an error.       *)
(***************************************************************************)
V4FromStr(text) ==
    IF Len(text.parts) = 4 /\ \A i \in 1 .. 4 : text.parts[i] <= 255 THEN {V4(text.parts)} ELSE {}

ParseMapped(text) == {V6(ToBeBytes(ip)) : ip \in V4FromStr(text)}

HasDoubleColon(parts) == \E i \in 2 .. (Len(parts) - 1) : parts[i] = Blank
IsCompressed(text) == text.form = "colons" /\ HasDoubleColon(text.parts) /\ Len(text.parts) <= 8
IsUncompressed(text) == text.form = "colons" /\ Len(text.parts) = 8 /\ ~HasDoubleColon(text.parts)
IsMapped(text) == text.form = "::ffff:dotted"
IsV6(text) == IsCompressed(text) \/ IsUncompressed(text) \/ IsMapped(text)
IsV4(text) == text.form = "dotted" /\ Len(text.parts) = 4

\* uncompress_v6: an empty part at each end is dropped, and the one that is
\* left makes room for the zeros.
Uncompress(parts) ==
    LET front == IF parts[1] = Blank THEN Tail(parts) ELSE parts
        trim  == IF Last(front) = Blank THEN Front(front) ELSE front
        blank == {i \in DOMAIN trim : trim[i] = Blank}
        i     == CHOOSE i \in blank : TRUE
    IN  CASE Len(parts) \notin 3 .. 9 \/ Cardinality(blank) > 1 -> {}
          [] blank = {} -> IF Len(trim) = 8 THEN {trim} ELSE {}
          [] OTHER -> {SubSeq(trim, 1, i - 1) \o [z \in 1 .. (IF Len(trim) < 8 THEN 9 - Len(trim) ELSE 1) |-> 0]
                           \o SubSeq(trim, i + 1, Len(trim))}

UncompressedAsBytes(parts) ==
    IF Len(parts) = 8 /\ \A i \in 1 .. 8 : parts[i] < Blank
    THEN {[i \in 1 .. 16 |-> LET group == parts[(i + 1) \div 2] IN IF i % 2 = 1 THEN group \div 256 ELSE group % 256]}
    ELSE {}

\* IpAddress::v6
V6FromStr(text) ==
    IF IsMapped(text) THEN ParseMapped(text)
    ELSE {V6(bytes) : bytes \in UNION {UncompressedAsBytes(parts) :
                          parts \in IF IsCompressed(text) THEN Uncompress(text.parts) ELSE {text.parts}}}

\* resolve_hostname: of the answers, those of an internet family are kept, in
\* their order; what is made of the first of them is all that is asked for.
IsInternet(answer) == answer.family \in {"AF_INET", "AF_INET6"}
FromAnswer(answer) ==
    IF answer.family = "AF_INET" THEN V4(SwapBytes(SwapBytes(answer.addr))) ELSE V6(answer.addr)
ResolveHostname(text) ==
    LET answers == IF text.form = "name" THEN Answers[text.parts[1]] ELSE <<>>
    IN  {FromAnswer(answers[i]) : i \in {j \in DOMAIN answers :
             IsInternet(answers[j]) /\ \A k \in 1 .. j - 1 : ~IsInternet(answers[k])}}

\* TryFrom<&str>
IpFromStr(text) ==
    CASE IsV4(text) -> V4FromStr(text)
      [] IsV6(text) -> V6FromStr(text)
      [] OTHER -> ResolveHostname(text)

(***************************************************************************)
(* Socket addresses, and the form the kernel has them in.                  *)
(***************************************************************************)
SocketAddress(ip, port) == [ip |-> ip, port |-> port]

\* Port::to_be and from_be
PortBe(port) == (port % 256) * 256 + port \div 256

\* Into<sockaddr_storage>
ToStorage(sa) ==
    IF sa.ip.version = "V4"
    THEN [family |-> "AF_INET", addr |-> SwapBytes(SwapBytes(sa.ip.bytes)), port |-> PortBe(sa.port)]
    ELSE [family |-> "AF_INET6", addr |-> sa.ip.bytes, port |-> PortBe(sa.port)]

\* Mutant: the port stays in network order.
FromStorageUnswapped(storage) ==
    CASE storage.family = "AF_INET" -> {SocketAddress(V4(storage.addr), storage.port)}
      [] storage.family = "AF_INET6" -> {SocketAddress(V6(storage.addr), storage.port)}
      [] OTHER -> {}

\* TryFrom<sockaddr_storage>: an address of another family is an error.
FromStorage(storage) ==
    CASE storage.family = "AF_INET" -> {SocketAddress(V4(SwapBytes(SwapBytes(storage.addr))), PortBe(storage.port))}
      [] storage.family = "AF_INET6" -> {SocketAddress(V6(storage.addr), PortBe(storage.port))}
      [] OTHER -> {}

=============================================================================
