----------------------------- MODULE IoBuffers -----------------------------
(***************************************************************************)
(* The buffers of src/src/io/buffers.rs: what an operation may write from, *)
(* what it may read into, the io vectors made of either, and how a count   *)
(* of bytes returned by the kernel becomes the length of the buffers.      *)
(*                                                                         *)
(* A Bytes is a sequence of bytes. A BytesMut is its capacity and its      *)
(* bytes: the memory from the length to the capacity is uninitialised, and *)
(* is where the kernel writes. An Option is a set of at most one member.   *)
(***************************************************************************)
EXTENDS Naturals, Sequences, FiniteSets, SequencesExt

CONSTANTS
    IovMax,   \* *IOV_MAX_LIMIT
    Reserve,  \* what chunk_mut() reserves in a full BytesMut (64 in bytes)
    Garbage   \* a byte that nobody wrote

Byte == 0 .. 255

ASSUME BuffersAssumption ==
    IovMax \in Nat \ {0} /\ Reserve \in Nat \ {0} /\ Garbage \notin Byte

None == {}
Some(x) == {x}
The(option) == CHOOSE x \in option : TRUE

MinOf(m, n) == IF m < n THEN m ELSE n

\* The sum of the first n of a sequence of numbers.
SumTo(numbers, n) == MapThenSumSet(LAMBDA i : numbers[i], 1 .. n)

Lengths(seqs) == [i \in DOMAIN seqs |-> Len(seqs[i])]

(***************************************************************************)
(* What an operation writes from.                                          *)
(***************************************************************************)
InvalidIoVec(n) ==
    CASE n = 0 -> Some("NoDataForIoVecs")
      [] n > IovMax -> Some("TooManyIoVecs")
      [] OTHER -> None

InvalidIoInputBuffer(bytes) == IF bytes = <<>> THEN Some("EmptyBuffer") ELSE None

\* The two sources of a vectored write: one Bytes, or a list of them.
Single(bytes) == [source |-> "Single", bytes |-> bytes]
Multiple(vec) == [source |-> "Multiple", vec |-> vec]

InvalidIoVecInputBuffer(s) ==
    IF (s.source = "Single" /\ s.bytes = <<>>) \/ (s.source = "Multiple" /\ s.vec = <<>>)
    THEN Some("Empty" \o s.source) ELSE None

BuffersOf(s) == IF s.source = "Single" THEN <<s.bytes>> ELSE s.vec

\* generate_iovecs of a Bytes and of a Vec<Bytes>, as the places of the buffers
\* that have an io vector: the empty ones have none.
InputIoVecs(s) == {i \in DOMAIN BuffersOf(s) : BuffersOf(s)[i] /= <<>>}

\* What the kernel reads from those io vectors.
InputBytes(s) == FlattenSeq(BuffersOf(s))

(***************************************************************************)
(* What an operation reads into.                                           *)
(***************************************************************************)
SpareOf(b) == b.cap - Len(b.bytes)

InvalidIoOutputBuffer(b) == IF b.cap = 0 THEN Some("EmptyBuffer") ELSE None

InvalidIoVecOutputBuffer(vec) == IF vec = <<>> THEN Some("EmptyBuffers") ELSE None

\* chunk_mut() never returns an empty slice: a full buffer grows.
Grown(b) == IF SpareOf(b) = 0 THEN [b EXCEPT !.cap = @ + Reserve] ELSE b
ChunkOf(b) == SpareOf(Grown(b))

\* advance_mut(n): what the kernel put in the spare memory becomes content,
\* and where it put nothing, what the memory held.
Advance(b, written, n) ==
    LET g == Grown(b)
    IN  [g EXCEPT !.bytes = @ \o [i \in 1 .. n |-> IF i <= Len(written) THEN written[i] ELSE Garbage]]

\* IoOutputBuffer::into_bytes: a count beyond the chunk is cut to it, and the
\* buffer comes back all the same, in the error.
IntoBytes(b, written, len) == Advance(b, written, MinOf(len, ChunkOf(b)))

Spares(vec) == [i \in DOMAIN vec |-> SpareOf(vec[i])]
Chunks(vec) == [i \in DOMAIN vec |-> ChunkOf(vec[i])]

\* generate_iovecs of a Vec<BytesMut> makes no vector for a full buffer.
OutputIoVecs(vec) == {i \in DOMAIN vec : SpareOf(vec[i]) > 0}

\* The kernel fills the vectors in order: what each buffer of vec gets.
Scatter(vec, payload) ==
    [i \in DOMAIN vec |->
        LET before == SumTo(Spares(vec), i - 1)
        IN  SubSeq(payload, before + 1, MinOf(before + SpareOf(vec[i]), Len(payload)))]

\* Mutant: what a buffer took is not taken from the count.
VecIntoBytesWhole(vec, written, total) ==
    [i \in DOMAIN vec |-> Advance(vec[i], written[i], MinOf(total, ChunkOf(vec[i])))]

\* IoVecOutputBuffer::into_bytes: the count is spread over the chunks of all
\* the buffers in order, the full ones' new chunks among them.
VecIntoBytes(vec, written, total) ==
    [i \in DOMAIN vec |->
        Advance(vec[i], written[i],
                MinOf(total, SumTo(Chunks(vec), i)) - MinOf(total, SumTo(Chunks(vec), i - 1)))]

(***************************************************************************)
(* RecvMsgBuffers: the data buffers and the control buffer of a recvmsg.   *)
(***************************************************************************)
RecvMsgBuffers(data, control) == [data |-> data, control |-> control]

NoBuffers == RecvMsgBuffers(None, None)

ExtendData(bufs, vec) ==
    [bufs EXCEPT !.data = IF @ = None THEN Some(vec) ELSE Some(The(@) \o vec)]
SetControl(bufs, b) == [bufs EXCEPT !.control = Some(b)]

\* prepare(): the data is looked at before the control.
InvalidRecvMsgBuffers(bufs) ==
    CASE \E vec \in bufs.data : InvalidIoVecOutputBuffer(vec) /= None -> Some("InvalidDataBuffer")
      [] \E b \in bufs.control : InvalidIoOutputBuffer(b) /= None -> Some("InvalidControlBuffer")
      [] OTHER -> None

=============================================================================
