--------------------------- MODULE MessageTransfer ---------------------------
(***************************************************************************)
(* A program that sends and a program that receives, over a socket that    *)
(* keeps the bounds of messages (datagrams, or the records of kTLS). The   *)
(* sender composes an IoSendMessage with the methods of its builder; the   *)
(* receiver owns a few buffers, lends them to one operation at a time, and *)
(* has them back from the result or from the error, to use again as they   *)
(* are or cleared.                                                         *)
(*                                                                         *)
(* A hand-over between the two is the kernel's: a message that is sent is  *)
(* in the queue, whole, and one that is received leaves it.                *)
(***************************************************************************)
EXTENDS IoTransfers

CONSTANTS
    Payloads,    \* the contents of a Bytes the sender has
    Vectors,     \* the Vec<Bytes> it has
    Controls,    \* the control messages it may add
    Peers,       \* the texts it takes an address from
    Sockets,     \* its sockets: own, the text of the address one is bound to, if any,
                 \* and adds, the raw messages the kernel adds for options set on it
    Port,        \* the port of those addresses
    Buffers,     \* the receiver's data buffers, as they are at first
    ControlBuffers,
    MaxSends, MaxQueue, MaxControls,  \* bounds
    Turns        \* whether the two take turns

Ids(buffers) == {b.id : b \in buffers}
Paths == [form : {"path"}, parts : {<<>>}]   \* the texts of Unix sockets

ASSUME SenderAssumption ==
    /\ Payloads \subseteq Seq(Byte) /\ Vectors \subseteq Seq(Seq(Byte))
    /\ \A messages \in Controls :
          /\ messages \in Seq(ToSet(messages))
          /\ \A m \in ToSet(messages) : IsControlMessage(m)

IsSocket(s) ==
    /\ s.own \subseteq Texts \cup Paths
    /\ s.adds \in Seq(ToSet(s.adds)) /\ \A raw \in ToSet(s.adds) : IsRaw(raw)

ASSUME SocketsAssumption == Port \in 0 .. 65535 /\ \A s \in Sockets : IsSocket(s)

\* A BytesMut has no more bytes than room, and the buffers are not one another.
ASSUME ReceiverAssumption ==
    LET all == Buffers \cup ControlBuffers
    IN  /\ IsFiniteSet(all)
        /\ \A b \in all : b \in [id : Ids(all), cap : Nat, bytes : Seq(Byte)] /\ Len(b.bytes) <= b.cap
        /\ \A b, c \in all : b.id = c.id => b = c
        /\ Ids(Buffers) \cap Ids(ControlBuffers) = {}

VARIABLES
    draft,     \* the IoSendMessage being composed
    queue,     \* the messages on their way
    sends,
    held,      \* the buffers in the receiver's hands
    op,        \* its operation under way
    got,       \* its result not yet used, with the message and the operation it is of
    err,       \* its error not yet used
    lost       \* the buffers it will not see again, and why

senderVars == <<draft, sends>>
receiverVars == <<held, op, got, err, lost>>
vars == <<draft, queue, sends, held, op, got, err, lost>>

NoMessage == [data |-> None, control |-> None, address |-> None]

Init ==
    /\ draft = NoMessage
    /\ queue = <<>> /\ sends = 0
    /\ held = Buffers \cup ControlBuffers
    /\ op = None /\ got = None /\ err = None /\ lost = {}

(***************************************************************************)
(* The two share the queue and nothing else, so the order of a call of one *)
(* and a call of the other makes no difference to either. A run may have   *)
(* them take turns: the sender composes and sends where the receiver holds *)
(* no operation and no result, the receiver lends where nothing is being   *)
(* composed.                                                               *)
(***************************************************************************)
Idle == op = None /\ got = None /\ err = None
SendersTurn == Turns => Idle
ReceiversTurn == Turns => draft = NoMessage

(***************************************************************************)
(* The sender: IoSendMessage.                                              *)
(***************************************************************************)
Compose(message) ==
    /\ sends < MaxSends /\ SendersTurn
    /\ draft' = message
    /\ UNCHANGED <<queue, sends, receiverVars>>

SetData(source) == Compose([draft EXCEPT !.data = Some(source)])

\* add_control_message, add_control_messages: of no message at all, too.
AddControl(messages) ==
    /\ Compose([draft EXCEPT !.control = IF @ = None THEN Some(messages) ELSE Some(The(@) \o messages)])
    /\ \A c \in draft'.control : Len(c) <= MaxControls

\* A text with no address in it leaves nothing to set.
SetAddress(text) ==
    /\ IpFromStr(text) /= {}
    /\ Compose([draft EXCEPT !.address = {SocketAddress(ip, Port) : ip \in IpFromStr(text)}])

\* close_notify: a canned message in place of the one composed.
CloseNotify ==
    Compose([NoMessage EXCEPT !.control = Some(<<ControlMessage("Tls", "SetRecordType", "Alert")>>),
                              !.data = Some(Single(<<1, 0>>))])

Clear ==
    /\ draft /= NoMessage
    /\ Compose(NoMessage)

\* The kernel's: a record type set on a send is the one the receiver gets, and
\* messages of its own may follow those that were sent.
Arriving(raw) ==
    IF raw.type = "TLS_SET_RECORD_TYPE" THEN [raw EXCEPT !.type = "TLS_GET_RECORD_TYPE"] ELSE raw

\* msg_name is the address of the sender's socket, if it has one. One of another
\* family is the name of a Unix socket.
NameOf(text) ==
    IF text.form = "path" THEN {[family |-> "AF_UNIX", addr |-> <<>>, port |-> 0]}
    ELSE {ToStorage(SocketAddress(ip, Port)) : ip \in IpFromStr(text)}

Put(bytes, raws) ==
    /\ Len(queue) < MaxQueue /\ sends < MaxSends /\ SendersTurn
    /\ sends' = sends + 1
    /\ \E s \in Sockets :
          queue' = Append(queue, [bytes |-> bytes, raws |-> [i \in DOMAIN raws |-> Arriving(raws[i])] \o s.adds,
                                  socket |-> s, name |-> UNION {NameOf(text) : text \in s.own}])

\* sendmsg: the message is used up, refused or not.
SendMsg ==
    /\ draft /= NoMessage
    /\ draft' = NoMessage
    /\ IF RefusedMessage(draft) = None
       THEN LET m == PreparedMessage(draft) IN Put(m.bytes, m.raws)
       ELSE UNCHANGED <<queue, sends>>
    /\ UNCHANGED receiverVars

\* write, send and writev.
SendBytes(bytes) ==
    /\ RefusedBytes(bytes) = None
    /\ Put(bytes, <<>>)
    /\ UNCHANGED <<draft, receiverVars>>
SendVec(vec) ==
    /\ RefusedVec(vec) = None
    /\ Put(InputBytes(Multiple(vec)), <<>>)
    /\ UNCHANGED <<draft, receiverVars>>

(***************************************************************************)
(* The receiver.                                                           *)
(***************************************************************************)
InUse(buffers) == (UNION {{vec[i] : i \in DOMAIN vec} : vec \in buffers.data}) \cup buffers.control

\* The buffers leave the caller's hands. Those an error does not hold are lost,
\* and a receiver that has lost one ends there (a bound).
Lend(kind, buffers, refused) ==
    /\ Idle /\ lost = {} /\ ReceiversTurn
    /\ held' = held \ InUse(buffers)
    /\ IF refused = None THEN op' = Some(Pending(Operation(kind, buffers))) /\ UNCHANGED err
                         ELSE err' = refused /\ UNCHANGED op
    /\ lost' = lost \cup UNION {{<<b.id, e.holder>> : b \in InUse(buffers) \ InUse(e.buffers)} : e \in refused}
    /\ UNCHANGED <<queue, got, senderVars>>

DataHeld == {b \in held : b.id \in Ids(Buffers)}
ControlHeld == held \ DataHeld

ReadInto(b) == Lend("Read", RecvMsgBuffers(Some(<<b>>), None), RefusedRead(b))

\* The order of the buffers is the caller's.
Orders(S) == {vec \in [1 .. Cardinality(S) -> S] : \A i, j \in DOMAIN vec : vec[i] = vec[j] => i = j}

ReadvInto(vec) == Lend("Readv", RecvMsgBuffers(Some(vec), None), RefusedReadv(vec))

RecvMsgInto(bufs) == Lend("RecvMsg", bufs, RefusedRecvMsg(bufs))

\* No worker to be found, or its channel closed: nothing was submitted.
FailDispatch ==
    /\ \E o \in op : err' = Some(Error("Operation", o.kind, o.buffers))
    /\ op' = None
    /\ UNCHANGED <<queue, held, got, lost, senderVars>>

Complete ==
    /\ queue /= <<>>
    /\ \E o \in {Submitted(p) : p \in op} :
          LET w == Written(o, Head(queue))
          IN  got' = Some([result |-> Completion(o, w), of |-> o, message |-> Head(queue), written |-> w])
    /\ op' = None /\ queue' = Tail(queue)
    /\ UNCHANGED <<held, err, lost, senderVars>>

\* An error of the kernel's, a cancellation among them.
FailOperation ==
    /\ \E o \in op : err' = Some(Failure(Submitted(o)))
    /\ op' = None
    /\ UNCHANGED <<queue, held, got, lost, senderVars>>

\* The future is dropped: its operation is cancelled and completed by nobody.
Abandon ==
    /\ \E o \in op : lost' = lost \cup {<<b.id, "dropped">> : b \in InUse(o.buffers)}
    /\ op' = None
    /\ UNCHANGED <<queue, held, got, err, senderVars>>

Emptied(buffers) == {[b EXCEPT !.bytes = <<>>] : b \in buffers}

\* take_buffers, or the buffers of the read: used again cleared, or as they are.
TakeBuffers(clear) ==
    /\ \E g \in got : held' = held \cup IF clear THEN Emptied(InUse(g.result.buffers)) ELSE InUse(g.result.buffers)
    /\ got' = None
    /\ UNCHANGED <<queue, op, err, lost, senderVars>>

Recover(how, e, found) ==
    /\ held' = held \cup InUse(found)
    /\ lost' = lost \cup {<<b.id, how>> : b \in InUse(e.buffers) \ InUse(found)}
    /\ err' = None
    /\ UNCHANGED <<queue, op, got, senderVars>>

RecoverBytesMut == \E e \in err : Recover("into_bytes_mut", e, IntoBytesMut(e))
RecoverVec == \E e \in err : Recover("into_vec", e, IntoVec(e))
RecoverRecvMsg == \E e \in err : Recover("into_recvmsg_buffers", e, IntoRecvMsgBuffers(e))

Next ==
    \/ \E bytes \in Payloads : SetData(Single(bytes)) \/ SendBytes(bytes)
    \/ \E vec \in Vectors : SetData(Multiple(vec)) \/ SendVec(vec)
    \/ \E messages \in Controls : AddControl(messages)
    \/ \E text \in Peers : SetAddress(text)
    \/ CloseNotify \/ Clear \/ SendMsg
    \/ \E b \in DataHeld : ReadInto(b)
    \/ \E S \in SUBSET DataHeld : \E vec \in Orders(S) :
          \/ ReadvInto(vec)
          \/ RecvMsgInto(ExtendData(NoBuffers, vec))
          \/ \E c \in ControlHeld : RecvMsgInto(SetControl(ExtendData(NoBuffers, vec), c))
    \/ \E c \in ControlHeld : RecvMsgInto(SetControl(NoBuffers, c))
    \/ FailDispatch \/ Complete \/ FailOperation \/ Abandon
    \/ \E clear \in BOOLEAN : TakeBuffers(clear)
    \/ RecoverBytesMut \/ RecoverVec \/ RecoverRecvMsg

Spec == Init /\ [][Next]_vars

(***************************************************************************)
(* Properties.                                                             *)
(***************************************************************************)
\* The bytes that a receive adds to its buffers are the message's, in order and
\* as many as it says it received - exactly until the count reaches a buffer of
\* a vectored receive that was full: no io vector was made for that one, yet
\* into_bytes grows it and counts its memory in (buffers.rs:588 and 671).
Added(before, after) ==
    FlattenSeq([i \in DOMAIN before |-> SubSeq(after[i].bytes, Len(before[i].bytes) + 1, Len(after[i].bytes))])
Overtaken(before, count) ==
    \E i \in DOMAIN before : SpareOf(before[i]) = 0 /\ count > SumTo(Spares(before), i - 1)
BytesLandInOrder ==
    \A g \in got : \A before \in g.of.buffers.data, after \in g.result.buffers.data :
        (Added(before, after) = SubSeq(g.message.bytes, 1, g.result.bytes))
            <=> (g.of.kind = "Read" \/ ~Overtaken(before, g.result.bytes))

\* A receive that got a TLS alert record and its control message finds in it the
\* alert that was sent, and any other receive finds none - unless the buffer was
\* lent with something in it: get_alert (message.rs:1577) reads the buffer from
\* its start, and takes what an earlier receive left for the alert.
CarriesAlert(g) ==
    \E messages \in g.result.control : \E i \in DOMAIN messages : IsAlert(messages[i])
AlertsAreTheRecords ==
    \A g \in got : \A before \in g.of.buffers.data :
        (g.result.kind = "RecvMsg" /\ Len(before) = 1 /\ before[1].bytes = <<>>) =>
            GetAlert(g.result) =
                {[level |-> TlsAlertLevelOf(g.message.bytes[1]), description |-> SubSeq(g.message.bytes, 2, n)] :
                    n \in {g.result.bytes} \cap IF CarriesAlert(g) THEN 1 .. 2 ELSE {}}

\* Every descriptor the kernel installed for a receive is told to the program,
\* but for two cases: the control buffer was too small for the messages, so that
\* the last one is cut and does not parse, or an option of the socket had the
\* kernel add a message that try_parse knows no type of or takes for an error.
\* Then the descriptors parsed before it are dropped with it, and stay open.
Installed(g) ==
    UNION {ToSet(raw.value) : raw \in {r \in ToSet(g.written.controls.raws) : r.type = "SCM_RIGHTS"}}
Told(g) ==
    UNION {UNION {ToSet(m.value) : m \in {n \in ToSet(messages) : n.kind = "Rights"}} : messages \in g.result.control}
RightsAreTold ==
    \A g \in got :
        \/ Installed(g) = Told(g)
        \/ g.written.controls.cut /\ Last(g.written.controls.raws).type /= "SCM_RIGHTS"
        \/ \E raw \in ToSet(g.message.socket.adds) : Parse(raw) = {}

\* A buffer is held by one party at a time, and is had back after every outcome
\* but these: the future was dropped; a readv was refused for its io vectors,
\* whose error holds no buffer (readv.rs:12); or the error was asked for what it
\* does not hold: a failed recvmsg gives up its buffers to into_recvmsg_buffers
\* only, though a recvmsg that was not submitted gives its parts to each.
BuffersComeBack ==
    /\ Ids(Buffers \cup ControlBuffers) =
            Ids(held) \cup {l[1] : l \in lost} \cup Ids(UNION {InUse(o.buffers) : o \in op})
                \cup Ids(UNION {InUse(g.result.buffers) : g \in got}) \cup Ids(UNION {InUse(e.buffers) : e \in err})
    /\ \A b \in held : b.id \notin {l[1] : l \in lost}
    /\ \A l \in lost : l[2] \in {"dropped", "InvalidIoVec", "into_bytes_mut", "into_vec", "into_recvmsg_buffers"}
    /\ \A e \in err :
          CASE e.kind = "Read" -> InUse(IntoBytesMut(e)) = InUse(e.buffers)
            [] e.kind = "Readv" -> InUse(IntoVec(e)) = InUse(e.buffers)
            [] e.kind = "RecvMsg" -> InUse(IntoRecvMsgBuffers(e)) = InUse(e.buffers)

\* The address a recvmsg tells is the sender's own, and its text is one that
\* IpAddress takes for the same address, so that a program may log it and answer
\* it - but for an IPv6 address with no two zero groups together whose first
\* zero group is its first or its last: compress_v6 (address.rs:383) puts an
\* empty part next to it, and nothing parses the text. The destination of an
\* IPv4 packet is told with its bytes reversed (message.rs:173): to_be_bytes of a
\* number that is in network order already, on a little-endian machine. That of
\* an IPv6 packet, an array of bytes, is told as it is.
LoneEdgeZero(ip) ==
    /\ ip.version = "V6"
    /\ LET groups == BytesAsUncompressed(ip.bytes)
           zeros  == {i \in 1 .. 8 : groups[i] = 0}
       IN  /\ zeros = {8} \/ 1 \in zeros
           /\ \A i \in zeros : i + 1 \notin zeros
AddressesRoundTrip ==
    /\ \A g \in got : g.result.kind = "RecvMsg" =>
        /\ g.result.address = UNION {{SocketAddress(ip, Port) : ip \in IpFromStr(text)} : text \in g.message.socket.own}
        /\ \A a \in g.result.address : IpFromStr(DisplayIp(a.ip)) = {a.ip} \/ LoneEdgeZero(a.ip)
    /\ \A g \in got : \A messages \in g.result.control : \A i \in DOMAIN messages :
          messages[i].kind = "PacketInfo" =>
              LET destination == g.written.controls.raws[i].value.destination
              IN  messages[i].value.destination =
                      IF messages[i].level = "IpV4" THEN [destination EXCEPT !.bytes = Reverse(@)]
                                                    ELSE destination

=============================================================================
