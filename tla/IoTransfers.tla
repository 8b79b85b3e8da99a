----------------------------- MODULE IoTransfers -----------------------------
(***************************************************************************)
(* The operations that carry data (src/src/io/operation): how each is made *)
(* of the caller's buffers or refused, what the kernel's answer makes of   *)
(* them, and what can be had back from each kind of error (src/src/io/     *)
(* mod.rs). Buffers travel as a RecvMsgBuffers whatever the operation: a   *)
(* read has one data buffer, a readv several, a recvmsg a control buffer   *)
(* too.                                                                    *)
(***************************************************************************)
EXTENDS IoBuffers, ControlMessages, Addresses

Operation(kind, buffers) == [kind |-> kind, buffers |-> buffers]

\* An error holds the buffers it was built with, under the name of what holds
\* them: an operation, a completed operation's failure, or a variant of its own.
Error(holder, kind, buffers) == [holder |-> holder, kind |-> kind, buffers |-> buffers]

(***************************************************************************)
(* Receiving operations. A refusal is {} when the operation can be made.   *)
(***************************************************************************)
\* read_into, recv_into
RefusedRead(b) ==
    IF InvalidIoOutputBuffer(b) = None THEN None
    ELSE Some(Error("OutputBuffer", "Read", RecvMsgBuffers(Some(<<b>>), None)))

\* readv_into: no io vector to be made is an error that holds no buffer.
RefusedReadv(vec) ==
    CASE InvalidIoVecOutputBuffer(vec) /= None ->
            Some(Error("OutputBufferVec", "Readv", RecvMsgBuffers(Some(vec), None)))
      [] InvalidIoVecOutputBuffer(vec) = None /\ InvalidIoVec(Cardinality(OutputIoVecs(vec))) /= None ->
            Some(Error("InvalidIoVec", "Readv", NoBuffers))
      [] OTHER -> None

\* recv_msg_into: prepare, then PendingIoMessageInner::new.
RefusedRecvMsg(bufs) ==
    IF \/ InvalidRecvMsgBuffers(bufs) /= None
       \/ \E vec \in bufs.data : InvalidIoVec(Cardinality(OutputIoVecs(vec))) /= None
    THEN Some(Error("RecvMsg", "RecvMsg", bufs)) ELSE None

\* as_mut_ptr and writable_len ask for the chunk, and a full buffer grows then:
\* the control buffer when the msghdr is made, with the operation, and the buffer
\* of a read when the worker makes its entry.
Pending(op) == [op EXCEPT !.buffers.control = {Grown(b) : b \in @}]
Submitted(op) ==
    IF op.kind = "Read" THEN [op EXCEPT !.buffers.data = {<<Grown(vec[1])>> : vec \in @}] ELSE op

\* What the kernel writes of a message, and the msghdr it leaves.
Written(op, message) ==
    [data |-> {Scatter(vec, message.bytes) : vec \in op.buffers.data},
     controls |-> PutCmsgs(message.raws, IF op.buffers.control = None THEN 0 ELSE SpareOf(The(op.buffers.control))),
     name |-> message.name]

CountOf(written) ==
    IF written.data = None THEN 0 ELSE SumTo(Lengths(The(written.data)), Len(The(written.data)))

ControlLen(written) ==
    LET raws == written.controls.raws
    IN  SumTo([i \in DOMAIN raws |-> CmsgSpace(raws[i].len)], Len(raws))

(***************************************************************************)
(* Completion: the buffers with their new lengths; for a recvmsg what the  *)
(* msghdr says too.                                                        *)
(***************************************************************************)
IntoDataBuffers(op, written) ==
    {IF op.kind = "Read" THEN <<IntoBytes(vec[1], v[1], CountOf(written))>>
     ELSE VecIntoBytes(vec, v, CountOf(written)) : vec \in op.buffers.data, v \in written.data}

\* parse_address, parse_control: an error is logged, and there is nothing.
ParsedAddress(written) == UNION {FromStorage(s) : s \in written.name}
ParsedControl(written) ==
    IF written.controls.raws = <<>> THEN None ELSE ParseFromMsghdr(written.controls.raws)

\* get_completion
Completion(op, written) ==
    [kind     |-> op.kind,
     bytes    |-> CountOf(written),
     buffers  |-> RecvMsgBuffers(IntoDataBuffers(op, written),
                    {IntoBytes(b, [i \in 1 .. SpareOf(b) |-> 0], MinOf(ControlLen(written), SpareOf(b))) :
                        b \in op.buffers.control}),
     control  |-> IF op.kind = "RecvMsg" THEN ParsedControl(written) ELSE None,
     address  |-> IF op.kind = "RecvMsg" THEN ParsedAddress(written) ELSE None]

IsAlert(m) == m.kind = "GetRecordType" /\ m.value = "Alert"
\* Mutant: any record of one or two bytes is an alert.
GetAnyAlert(message) ==
    {[level |-> TlsAlertLevelOf(vec[1].bytes[1]), description |-> Tail(vec[1].bytes)] :
        vec \in {v \in message.buffers.data : Len(v) = 1 /\ Len(v[1].bytes) \in 1 .. 2}}
\* IoRecvMessage::get_alert
GetAlert(message) ==
    {[level |-> TlsAlertLevelOf(vec[1].bytes[1]), description |-> Tail(vec[1].bytes)] :
        vec \in {v \in message.buffers.data :
                    /\ \E messages \in message.control : \E i \in DOMAIN messages : IsAlert(messages[i])
                    /\ Len(v) = 1 /\ Len(v[1].bytes) \in 1 .. 2}}

\* get_failure
Failure(op) == Error("Failure", op.kind, op.buffers)

(***************************************************************************)
(* Recovery: what each of the three traits finds in an error. Of a failed  *)
(* recvmsg only the third finds anything.                                  *)
(***************************************************************************)
BytesMutHolders == {<<"OutputBuffer", "Read">>, <<"Operation", "Read">>, <<"Failure", "Read">>}
ControlHolders == {<<"Operation", "RecvMsg">>, <<"RecvMsg", "RecvMsg">>}
VecHolders == {<<"OutputBufferVec", "Readv">>, <<"Operation", "Readv">>, <<"Failure", "Readv">>} \cup ControlHolders
RecvMsgHolders == ControlHolders \cup {<<"Failure", "RecvMsg">>}

IntoBytesMut(e) ==
    CASE <<e.holder, e.kind>> \in BytesMutHolders -> RecvMsgBuffers(e.buffers.data, None)
      [] <<e.holder, e.kind>> \in ControlHolders -> RecvMsgBuffers(None, e.buffers.control)
      [] OTHER -> NoBuffers
IntoVec(e) ==
    IF <<e.holder, e.kind>> \in VecHolders THEN RecvMsgBuffers(e.buffers.data, None) ELSE NoBuffers
\* Mutant: a completed operation's failure has nothing to give back.
IntoUnsentBuffers(e) ==
    IF <<e.holder, e.kind>> \in ControlHolders THEN e.buffers ELSE NoBuffers
IntoRecvMsgBuffers(e) ==
    IF <<e.holder, e.kind>> \in RecvMsgHolders THEN e.buffers ELSE NoBuffers

(***************************************************************************)
(* Sending operations.                                                     *)
(***************************************************************************)
\* write, send: an empty buffer comes back in the error.
RefusedBytes(bytes) == InvalidIoInputBuffer(bytes)

\* writev: of a list of buffers.
RefusedVec(vec) ==
    IF InvalidIoVecInputBuffer(Multiple(vec)) /= None THEN Some("EmptyVectoredInputBuffer")
    ELSE InvalidIoVec(Cardinality(InputIoVecs(Multiple(vec))))

\* IoSendMsgData::new: the control first; a list of no control messages makes
\* an empty buffer, which is refused. The message is gone whatever the error.
RefusedMessage(message) ==
    CASE \E c \in message.control : PrepareMulti(c) = {} -> Some("FailedToPrepareControlMessages")
      [] \E c \in message.control : PrepareMulti(c) = {<<>>} -> Some("EmptyBuffer")
      [] OTHER -> UNION {InvalidIoVec(Cardinality(InputIoVecs(s))) : s \in message.data}

\* PreparedIoMessageInner::new, as the kernel reads it.
PreparedMessage(message) ==
    [bytes |-> IF message.data = None THEN <<>> ELSE InputBytes(The(message.data)),
     raws  |-> IF message.control = None THEN <<>> ELSE The(PrepareMulti(The(message.control))),
     name  |-> {ToStorage(a) : a \in message.address}]

=============================================================================
