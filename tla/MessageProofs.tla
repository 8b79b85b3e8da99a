--------------------------- MODULE MessageProofs ---------------------------
(***************************************************************************)
(* What holds of the two programs of MessageTransfer for any payloads,     *)
(* control messages, sockets and buffers, and any bounds.                  *)
(*                                                                         *)
(* The five properties follow from one invariant, MInv: every buffer is in *)
(* one place (Accounts), the party that has buffers in hand is one that    *)
(* the code's types and checks allow (Parties), and every message composed *)
(* or on its way is one that the code's prepare let through (IsDraft,      *)
(* IsQueue). What a receive made of the buffers is part of it: a result    *)
(* keeps the operation and the message it is of, so a property of a result *)
(* is one of Completion, for all operations and all messages; that of the  *)
(* addresses is one of their conversions, for all addresses.               *)
(***************************************************************************)
EXTENDS MessageTransfer, DataLemmas, SequenceTheorems

-----------------------------------------------------------------------------
(* Sums of the first numbers of a sequence.                                 *)
LEMMA SumToIs == ASSUME NEW f, NEW n PROVE SumTo(f, n) = SumOf(f, 1 .. n)
BY Zenon DEF SumTo, SumOf

(* The sum of no numbers. *)
LEMMA SumToNothing == ASSUME NEW f PROVE SumTo(f, 0) = 0
<1>1. 1 .. 0 = {}
  OBVIOUS
<1>2. QED
  BY <1>1, SumToIs, SumOfNothing

(* Each further place adds its number. *)
LEMMA SumToNext ==
    ASSUME NEW f, NEW n \in Nat, \A i \in 1 .. n + 1 : f[i] \in Nat
    PROVE  /\ SumTo(f, n) \in Nat
           /\ SumTo(f, n + 1) = SumTo(f, n) + f[n + 1]
<1>1. IsFiniteSet(1 .. n + 1) /\ IsFiniteSet(1 .. n)
  BY FS_Interval
<1>2. (1 .. n + 1) \ {n + 1} = 1 .. n /\ n + 1 \in 1 .. n + 1
  OBVIOUS
<1>3. SumOf(f, 1 .. n) \in Nat
  BY <1>1, SumIsNatural
<1>4. SumOf(f, 1 .. n + 1) = f[n + 1] + SumOf(f, 1 .. n)
  BY <1>1, <1>2, SumOfRemoved
<1>5. QED
  BY <1>2, <1>3, <1>4, SumToIs

(* Sums of natural numbers are natural numbers. *)
LEMMA SumToType ==
    ASSUME NEW f, NEW n \in Nat, \A i \in 1 .. n : f[i] \in Nat, NEW m \in 0 .. n
    PROVE  SumTo(f, m) \in Nat
<1>1. IsFiniteSet(1 .. m) /\ \A i \in 1 .. m : f[i] \in Nat
  BY FS_Interval
<1>2. QED
  BY <1>1, SumIsNatural, SumToIs

(* A longer sum is no smaller. *)
LEMMA SumToGrows ==
    ASSUME NEW f, NEW n \in Nat, \A i \in 1 .. n : f[i] \in Nat, NEW m \in 0 .. n, NEW k \in 0 .. m
    PROVE  SumTo(f, k) <= SumTo(f, m)
<1>1. IsFiniteSet(1 .. m) /\ (\A i \in 1 .. m : f[i] \in Nat) /\ 1 .. k \in SUBSET (1 .. m)
  BY FS_Interval
<1>2. QED
  BY <1>1, SumOfPart, SumToIs

-----------------------------------------------------------------------------
(* Buffers.                                                                 *)
All == Buffers \cup ControlBuffers
Cell == Byte \cup {Garbage}
One(S) == \A x, y \in S : x = y

BufferType == {b \in [id : Ids(All), cap : Nat, bytes : Seq(Cell)] : Len(b.bytes) <= b.cap}
DataType == {b \in BufferType : b.id \in Ids(Buffers)}
ControlType == {b \in BufferType : b.id \in Ids(ControlBuffers)}

(* The data buffers of an operation: no buffer twice.                       *)
VecType == {vec \in Seq(DataType) : \A i, j \in DOMAIN vec : vec[i].id = vec[j].id => i = j}
BuffersType == {bufs \in [data : SUBSET VecType, control : SUBSET ControlType] :
                   One(bufs.data) /\ One(bufs.control)}

(* A function on 1 .. n is a sequence. *)
LEMMA SeqIs ==
    ASSUME NEW S, NEW n \in Nat, NEW f, f = [i \in 1 .. n |-> f[i]], \A i \in 1 .. n : f[i] \in S
    PROVE  f \in Seq(S) /\ Len(f) = n /\ DOMAIN f = 1 .. n
<1>1. f \in [1 .. n -> S]
  BY Zenon
<1>2. QED
  BY <1>1

(* The content of an Option that has one. *)
LEMMA TheIs == ASSUME NEW x PROVE The({x}) = x
BY DEF The

(* A buffer has room, and grown it has some.                                *)
LEMMA Room ==
    ASSUME NEW b \in BufferType
    PROVE  /\ SpareOf(b) \in Nat
           /\ Grown(b) \in BufferType
           /\ Grown(b).id = b.id /\ Grown(b).bytes = b.bytes
           /\ ChunkOf(b) \in Nat \ {0} /\ SpareOf(b) <= ChunkOf(b)
           /\ SpareOf(b) > 0 => Grown(b) = b /\ ChunkOf(b) = SpareOf(b)
           /\ ChunkOf(b) = SpareOf(Grown(b))
<1>1. b \in [id : Ids(All), cap : Nat, bytes : Seq(Cell)] /\ Len(b.bytes) <= b.cap /\ Len(b.bytes) \in Nat
  BY DEF BufferType
<1>2. SpareOf(b) \in Nat
  BY <1>1 DEF SpareOf
<1>3. CASE SpareOf(b) = 0
  <2>1. Grown(b) = [b EXCEPT !.cap = b.cap + Reserve]
    BY <1>3 DEF Grown
  <2>2. /\ Grown(b) \in [id : Ids(All), cap : Nat, bytes : Seq(Cell)]
        /\ Grown(b).id = b.id /\ Grown(b).bytes = b.bytes /\ Grown(b).cap = b.cap + Reserve
    BY <1>1, <2>1, BuffersAssumption
  <2>3. SpareOf(Grown(b)) = Reserve
    BY <1>1, <1>3, <2>2, BuffersAssumption DEF SpareOf
  <2>4. Len(Grown(b).bytes) <= Grown(b).cap
    BY <1>1, <2>2, BuffersAssumption
  <2>5. QED
    BY <1>2, <1>3, <2>2, <2>3, <2>4, BuffersAssumption DEF ChunkOf, BufferType
<1>4. CASE SpareOf(b) # 0
  BY <1>2, <1>4 DEF Grown, ChunkOf
<1>5. QED
  BY <1>3, <1>4

(* What a buffer becomes when n bytes, of which the kernel wrote some, are  *)
(* added to its length.                                                     *)
Contents(written, n) == [i \in 1 .. n |-> IF i <= Len(written) THEN written[i] ELSE Garbage]

(* set_len past what the kernel wrote: the buffer keeps its identity, and   *)
(* its bytes are followed by what was written and, where less was, by bytes *)
(* nobody wrote.                                                            *)
LEMMA AdvanceIs ==
    ASSUME NEW b \in BufferType, NEW written \in Seq(Byte), NEW n \in 0 .. ChunkOf(b)
    PROVE  /\ Advance(b, written, n) \in BufferType
           /\ Advance(b, written, n).id = b.id
           /\ Advance(b, written, n).bytes = b.bytes \o Contents(written, n)
           /\ Contents(written, n) \in Seq(Cell) /\ Len(Contents(written, n)) = n
<1> DEFINE g == Grown(b)
<1>1. /\ g \in BufferType /\ g.id = b.id /\ g.bytes = b.bytes /\ ChunkOf(b) = SpareOf(g)
      /\ ChunkOf(b) \in Nat /\ n \in Nat /\ n <= ChunkOf(b)
  BY Room
<1>2. g \in [id : Ids(All), cap : Nat, bytes : Seq(Cell)] /\ Len(g.bytes) <= g.cap
  BY <1>1 DEF BufferType
<1> HIDE DEF g
<1>3. Contents(written, n) \in [1 .. n -> Cell]
  <2>1. \A i \in 1 .. n : i <= Len(written) => written[i] \in Cell
    BY <1>1 DEF Cell
  <2>2. \A i \in 1 .. n : (IF i <= Len(written) THEN written[i] ELSE Garbage) \in Cell
    BY <2>1 DEF Cell
  <2>3. QED
    BY <2>2 DEF Contents
<1>4. Contents(written, n) \in Seq(Cell) /\ Len(Contents(written, n)) = n
  BY <1>1, <1>3
<1>5. Advance(b, written, n) = [g EXCEPT !.bytes = g.bytes \o Contents(written, n)]
  BY DEF Advance, Contents, g
<1>6. /\ g.bytes \o Contents(written, n) \in Seq(Cell)
      /\ Len(g.bytes \o Contents(written, n)) = Len(g.bytes) + n
  BY <1>2, <1>4, SMTT(30)
<1>7. Len(g.bytes) + n <= g.cap
  BY <1>1, <1>2 DEF SpareOf
<1>8. /\ Advance(b, written, n) \in [id : Ids(All), cap : Nat, bytes : Seq(Cell)]
      /\ Advance(b, written, n).id = g.id /\ Advance(b, written, n).cap = g.cap
      /\ Advance(b, written, n).bytes = g.bytes \o Contents(written, n)
  BY <1>2, <1>5, <1>6
<1>9. QED
  BY <1>1, <1>4, <1>6, <1>7, <1>8 DEF BufferType

(* Minima, as the counts need them.                                         *)
LEMMA MinOfIs ==
    ASSUME NEW m \in Nat, NEW n \in Nat
    PROVE  /\ MinOf(m, n) \in Nat /\ MinOf(m, n) <= m /\ MinOf(m, n) <= n
           /\ m <= n => MinOf(m, n) = m
           /\ n <= m => MinOf(m, n) = n
BY DEF MinOf

(* The spare memory and the chunks of the buffers up to one of them.        *)
LEMMA VecSums ==
    ASSUME NEW vec \in VecType
    PROVE  /\ vec \in Seq(BufferType) /\ vec \in Seq(DataType)
           /\ Len(vec) \in Nat /\ DOMAIN vec = 1 .. Len(vec)
           /\ \A i \in DOMAIN vec : vec[i] \in BufferType /\ vec[i] \in DataType
           /\ \A n \in 0 .. Len(vec) : SumTo(Spares(vec), n) \in Nat /\ SumTo(Chunks(vec), n) \in Nat
           /\ \A i \in 1 .. Len(vec) :
                 /\ i - 1 \in 0 .. Len(vec) /\ i \in 0 .. Len(vec)
                 /\ SumTo(Spares(vec), i) = SumTo(Spares(vec), i - 1) + SpareOf(vec[i])
                 /\ SumTo(Chunks(vec), i) = SumTo(Chunks(vec), i - 1) + ChunkOf(vec[i])
<1>1. vec \in Seq(DataType) /\ vec \in Seq(BufferType) /\ Len(vec) \in Nat /\ DOMAIN vec = 1 .. Len(vec)
  BY DEF VecType, DataType
<1>2. \A i \in 1 .. Len(vec) : vec[i] \in BufferType /\ vec[i] \in DataType
  BY <1>1
<1>3. \A i \in 1 .. Len(vec) : /\ Spares(vec)[i] = SpareOf(vec[i]) /\ Spares(vec)[i] \in Nat
                               /\ Chunks(vec)[i] = ChunkOf(vec[i]) /\ Chunks(vec)[i] \in Nat
  BY <1>1, <1>2, Room DEF Spares, Chunks
<1>4. \A n \in 0 .. Len(vec) : SumTo(Spares(vec), n) \in Nat /\ SumTo(Chunks(vec), n) \in Nat
  BY <1>1, <1>3, SumToType
<1>5. ASSUME NEW i \in 1 .. Len(vec)
      PROVE  /\ i - 1 \in 0 .. Len(vec) /\ i \in 0 .. Len(vec)
             /\ SumTo(Spares(vec), i) = SumTo(Spares(vec), i - 1) + SpareOf(vec[i])
             /\ SumTo(Chunks(vec), i) = SumTo(Chunks(vec), i - 1) + ChunkOf(vec[i])
  <2>1. /\ i - 1 \in Nat /\ i - 1 + 1 = i /\ i \in 0 .. Len(vec) /\ i - 1 \in 0 .. Len(vec)
        /\ \A j \in 1 .. i : j \in 1 .. Len(vec)
    BY <1>1
  <2>2. \A j \in 1 .. i : Spares(vec)[j] \in Nat /\ Chunks(vec)[j] \in Nat
    BY <1>3, <2>1
  <2>3. SumTo(Spares(vec), i) = SumTo(Spares(vec), i - 1) + Spares(vec)[i]
    BY <2>1, <2>2, SumToNext
  <2>4. SumTo(Chunks(vec), i) = SumTo(Chunks(vec), i - 1) + Chunks(vec)[i]
    BY <2>1, <2>2, SumToNext
  <2>5. QED
    BY <1>3, <2>1, <2>3, <2>4
<1>6. QED
  BY <1>1, <1>2, <1>4, <1>5

(* How much of a payload of so many bytes is in the first n buffers.        *)
Taken(vec, payload, n) == MinOf(SumTo(Spares(vec), n), Len(payload))

(* The parts a payload is dealt out in: each the slice that its buffer's    *)
(* spare memory takes, after those of the buffers before it.                *)
LEMMA ScatterIs ==
    ASSUME NEW vec \in VecType, NEW payload \in Seq(Byte)
    PROVE  /\ DOMAIN Scatter(vec, payload) = 1 .. Len(vec)
           /\ Scatter(vec, payload) \in Seq(Seq(Byte)) /\ Len(Scatter(vec, payload)) = Len(vec)
           /\ \A n \in 0 .. Len(vec) : Taken(vec, payload, n) \in 0 .. Len(payload)
           /\ \A i \in 1 .. Len(vec) :
                 /\ Scatter(vec, payload)[i] =
                        SubSeq(payload, Taken(vec, payload, i - 1) + 1, Taken(vec, payload, i))
                 /\ Taken(vec, payload, i - 1) <= Taken(vec, payload, i)
                 /\ Len(Scatter(vec, payload)[i]) = Taken(vec, payload, i) - Taken(vec, payload, i - 1)
                 /\ Len(Scatter(vec, payload)[i]) <= SpareOf(vec[i])
<1> DEFINE v == Scatter(vec, payload)
           S(n) == SumTo(Spares(vec), n)
<1>1. /\ Len(vec) \in Nat /\ DOMAIN vec = 1 .. Len(vec) /\ Len(payload) \in Nat
      /\ \A n \in 0 .. Len(vec) : S(n) \in Nat
      /\ \A i \in 1 .. Len(vec) : S(i) = S(i - 1) + SpareOf(vec[i]) /\ i - 1 \in 0 .. Len(vec) /\ i \in 0 .. Len(vec)
  BY VecSums
<1>2. \A i \in 1 .. Len(vec) : SpareOf(vec[i]) \in Nat
  BY VecSums, Room
<1>3. ASSUME NEW n \in 0 .. Len(vec) PROVE Taken(vec, payload, n) \in 0 .. Len(payload)
  <2>1. S(n) \in Nat /\ Len(payload) \in Nat
    BY <1>1
  <2>2. QED
    BY <2>1 DEF Taken, MinOf
<1>4. \A i \in 1 .. Len(vec) : v[i] = SubSeq(payload, S(i - 1) + 1, MinOf(S(i - 1) + SpareOf(vec[i]), Len(payload)))
  BY <1>1 DEF Scatter
<1>5. ASSUME NEW i \in 1 .. Len(vec)
      PROVE  /\ v[i] = SubSeq(payload, Taken(vec, payload, i - 1) + 1, Taken(vec, payload, i))
             /\ Taken(vec, payload, i - 1) <= Taken(vec, payload, i)
             /\ Len(v[i]) = Taken(vec, payload, i) - Taken(vec, payload, i - 1)
             /\ Len(v[i]) <= SpareOf(vec[i]) /\ v[i] \in Seq(Byte)
  <2> HIDE DEF v, S
  <2> DEFINE a == S(i - 1)
             b == S(i)
             n == Len(payload)
             s == SpareOf(vec[i])
  <2>1. a \in Nat /\ b \in Nat /\ n \in Nat /\ s \in Nat /\ b = a + s
    BY <1>1, <1>2
  <2>2. v[i] = SubSeq(payload, a + 1, MinOf(b, n))
    BY <1>1, <1>4
  <2>3. Taken(vec, payload, i - 1) = MinOf(a, n) /\ Taken(vec, payload, i) = MinOf(b, n)
    BY DEF Taken, S
  <2> HIDE DEF a, b, n, s
  <2>4. CASE a <= n
    <3>1. MinOf(a, n) = a /\ MinOf(b, n) \in Nat /\ a <= MinOf(b, n) /\ MinOf(b, n) <= n /\ MinOf(b, n) <= b
      BY <2>1, <2>4 DEF MinOf
    <3>2. Len(v[i]) = MinOf(b, n) - a /\ v[i] \in Seq(Byte)
      BY <2>1, <2>2, <3>1, SMTT(30) DEF n
    <3>3. MinOf(b, n) - a <= s
      BY <2>1, <3>1
    <3>4. QED
      BY <2>2, <2>3, <3>1, <3>2, <3>3 DEF s
  <2>5. CASE a > n
    <3>1. MinOf(a, n) = n /\ MinOf(b, n) = n
      BY <2>1, <2>5 DEF MinOf
    <3>2. v[i] = <<>> /\ SubSeq(payload, n + 1, n) = <<>>
      BY <2>1, <2>2, <2>5, <3>1 DEF n
    <3>3. QED
      BY <2>1, <2>3, <3>1, <3>2, SMTT(30) DEF s
  <2>6. QED
    BY <2>1, <2>4, <2>5
<1>6. DOMAIN v = 1 .. Len(vec)
  BY <1>1 DEF Scatter
<1>7. v = [i \in 1 .. Len(vec) |-> v[i]]
  BY <1>1 DEF Scatter
<1> HIDE DEF v, S
<1>8. v \in [1 .. Len(vec) -> Seq(Byte)]
  BY <1>5, <1>7, Zenon
<1>9. v \in Seq(Seq(Byte)) /\ Len(v) = Len(vec)
  BY <1>1, <1>8
<1>10. QED
  BY <1>3, <1>5, <1>6, <1>9 DEF v

(* The number of bytes received is what the buffers took.                   *)
LEMMA CountIs ==
    ASSUME NEW vec \in VecType, NEW payload \in Seq(Byte)
    PROVE  /\ SumTo(Lengths(Scatter(vec, payload)), Len(vec)) = Taken(vec, payload, Len(vec))
           /\ Taken(vec, payload, 0) = 0
<1> DEFINE v == Scatter(vec, payload)
           T(n) == Taken(vec, payload, n)
           P == {n \in Nat : n <= Len(vec) => SumTo(Lengths(v), n) = T(n)}
<1>1. /\ DOMAIN v = 1 .. Len(vec) /\ Len(vec) \in Nat /\ Len(payload) \in Nat
      /\ \A n \in 0 .. Len(vec) : T(n) \in Nat
      /\ \A i \in 1 .. Len(vec) : T(i - 1) <= T(i) /\ Len(v[i]) = T(i) - T(i - 1)
  BY ScatterIs, VecSums
<1>2. \A i \in 1 .. Len(vec) : Lengths(v)[i] = T(i) - T(i - 1) /\ Lengths(v)[i] \in Nat
  <2> SUFFICES ASSUME NEW i \in 1 .. Len(vec)
               PROVE  Lengths(v)[i] = T(i) - T(i - 1) /\ Lengths(v)[i] \in Nat
    OBVIOUS
  <2>1. i \in 0 .. Len(vec) /\ i - 1 \in 0 .. Len(vec) /\ T(i) \in Nat /\ T(i - 1) \in Nat
    BY <1>1
  <2>2. Lengths(v)[i] = Len(v[i])
    BY <1>1 DEF Lengths
  <2>3. QED
    BY <1>1, <2>1, <2>2
<1>3. T(0) = 0
  BY <1>1, SumToNothing DEF Taken, MinOf
<1> HIDE DEF v, T
<1>4. 0 \in P
  BY <1>3, SumToNothing
<1>5. ASSUME NEW n \in P PROVE n + 1 \in P
  <2> SUFFICES ASSUME n + 1 <= Len(vec) PROVE SumTo(Lengths(v), n + 1) = T(n + 1)
    OBVIOUS
  <2>1. /\ n \in Nat /\ n <= Len(vec) /\ n + 1 \in 1 .. Len(vec) /\ n + 1 - 1 = n
        /\ \A i \in 1 .. n + 1 : i \in 1 .. Len(vec)
    BY <1>1
  <2>2. SumTo(Lengths(v), n + 1) = SumTo(Lengths(v), n) + Lengths(v)[n + 1]
    BY <1>2, <2>1, SumToNext
  <2>3. SumTo(Lengths(v), n) = T(n) /\ Lengths(v)[n + 1] = T(n + 1) - T(n)
    BY <1>2, <2>1
  <2>4. T(n) \in Nat /\ T(n + 1) \in Nat
    BY <1>1, <2>1
  <2>5. QED
    BY <2>2, <2>3, <2>4
<1>6. Nat \subseteq P
  BY <1>4, <1>5, NatSetInduction
<1>7. QED
  BY <1>1, <1>3, <1>6 DEF v, T

(* The part of a count that falls to one of the buffers.                    *)
Share(vec, total, i) == MinOf(total, SumTo(Chunks(vec), i)) - MinOf(total, SumTo(Chunks(vec), i - 1))

(* The buffers that into_bytes returns: each keeps its identity and is      *)
(* grown by the share of the count that falls to it.                        *)
LEMMA SpreadIs ==
    ASSUME NEW vec \in VecType, NEW v \in Seq(Seq(Byte)), Len(v) = Len(vec), NEW total \in Nat
    PROVE  /\ VecIntoBytes(vec, v, total) \in VecType
           /\ DOMAIN VecIntoBytes(vec, v, total) = 1 .. Len(vec)
           /\ \A i \in 1 .. Len(vec) :
                 /\ VecIntoBytes(vec, v, total)[i] = Advance(vec[i], v[i], Share(vec, total, i))
                 /\ Share(vec, total, i) \in 0 .. ChunkOf(vec[i])
                 /\ VecIntoBytes(vec, v, total)[i].id = vec[i].id
<1> DEFINE w == VecIntoBytes(vec, v, total)
<1>1. /\ Len(vec) \in Nat /\ DOMAIN vec = 1 .. Len(vec)
      /\ \A i \in 1 .. Len(vec) : vec[i] \in BufferType /\ vec[i] \in DataType
  BY VecSums
<1>2. DOMAIN w = 1 .. Len(vec) /\ \A i \in 1 .. Len(vec) : w[i] = Advance(vec[i], v[i], Share(vec, total, i))
  BY <1>1 DEF VecIntoBytes, Share
<1>3. w = [i \in 1 .. Len(vec) |-> w[i]]
  BY <1>1 DEF VecIntoBytes
<1> HIDE DEF w
<1>4. ASSUME NEW i \in 1 .. Len(vec)
      PROVE  Share(vec, total, i) \in 0 .. ChunkOf(vec[i]) /\ w[i] \in DataType /\ w[i].id = vec[i].id
  <2> DEFINE a == SumTo(Chunks(vec), i - 1)
             b == SumTo(Chunks(vec), i)
             c == ChunkOf(vec[i])
  <2>1. /\ i - 1 \in 0 .. Len(vec) /\ i \in 0 .. Len(vec) /\ b = a + c /\ a \in Nat
    BY VecSums
  <2>2. c \in Nat /\ vec[i] \in BufferType
    BY <1>1, Room
  <2> HIDE DEF a, b, c
  <2>3. MinOf(total, b) - MinOf(total, a) \in 0 .. c
    BY <2>1, <2>2 DEF MinOf
  <2>4. Share(vec, total, i) \in 0 .. ChunkOf(vec[i])
    BY <2>3 DEF Share, a, b, c
  <2>5. v[i] \in Seq(Byte)
    OBVIOUS
  <2>6. Advance(vec[i], v[i], Share(vec, total, i)) \in BufferType
        /\ Advance(vec[i], v[i], Share(vec, total, i)).id = vec[i].id
    BY <2>2, <2>4, <2>5, AdvanceIs
  <2>7. QED
    BY <1>1, <1>2, <2>4, <2>6 DEF DataType
<1>5. w \in Seq(DataType)
  BY <1>1, <1>3, <1>4, SeqIs
<1>6. \A i, j \in DOMAIN w : w[i].id = w[j].id => i = j
  BY <1>1, <1>2, <1>4 DEF VecType
<1>7. w \in VecType
  BY <1>5, <1>6 DEF VecType
<1>8. QED
  BY <1>2, <1>4, <1>7 DEF w

-----------------------------------------------------------------------------
(* Control messages, as the kernel puts them into a buffer.                 *)
LEMMA SpaceType == ASSUME NEW len \in Nat PROVE CmsgSpace(len) \in Nat
BY DEF CmsgSpace, CmsgHeader

(* A sequence is one over its own elements. *)
LEMMA SeqOfOwn ==
    ASSUME NEW S, NEW s \in Seq(S)
    PROVE  s \in Seq(ToSet(s))
<1>1. Len(s) \in Nat /\ DOMAIN s = 1 .. Len(s) /\ s = [i \in 1 .. Len(s) |-> s[i]]
  OBVIOUS
<1>2. \A i \in 1 .. Len(s) : s[i] \in ToSet(s)
  BY <1>1 DEF ToSet
<1>3. QED
  BY <1>1, <1>2, SeqIs

(* A sequence over a set is one over any larger set. *)
LEMMA SeqOfMore == ASSUME NEW S, NEW T, S \subseteq T, NEW s \in Seq(S) PROVE s \in Seq(T)
OBVIOUS

(* A control message cut by the kernel is still one, of the same type. *)
LEMMA CutIs ==
    ASSUME NEW raw, IsRaw(raw), NEW room \in Nat, room < raw.len
    PROVE  /\ IsRaw(Cut(raw, room))
           /\ Cut(raw, room).type = raw.type /\ Cut(raw, room).level = raw.level
<1>1. /\ raw = [level |-> raw.level, type |-> raw.type, len |-> raw.len, value |-> raw.value]
      /\ raw.len \in Nat
  BY DEF IsRaw, Raw
<1>2. CASE raw.type = "SCM_RIGHTS"
  <2> DEFINE n == room \div 4
             fds == SubSeq(raw.value, 1, n)
  <2>1. raw.value \in Seq(ToSet(raw.value)) /\ raw.len = 4 * Len(raw.value) /\ Len(raw.value) \in Nat
    BY <1>2 DEF IsRaw
  <2>2. n \in 0 .. Len(raw.value)
    BY <2>1
  <2> HIDE DEF n
  <2>3. fds \in Seq(ToSet(raw.value)) /\ Len(fds) \in Nat
    BY <2>1, <2>2, SplitElements
  <2>4. fds \in Seq(ToSet(fds))
    BY <2>3, SeqOfOwn
  <2>5. Cut(raw, room) = [raw EXCEPT !.value = fds, !.len = 4 * Len(fds)]
    BY <1>2 DEF Cut, n
  <2> HIDE DEF fds
  <2>6. Cut(raw, room) = [level |-> raw.level, type |-> raw.type, len |-> 4 * Len(fds), value |-> fds]
    BY <1>1, <2>5
  <2>7. QED
    BY <1>2, <2>3, <2>4, <2>6 DEF IsRaw, Raw
<1>3. CASE raw.type # "SCM_RIGHTS"
  <2>1. Cut(raw, room) = [level |-> raw.level, type |-> raw.type, len |-> room, value |-> raw.value]
    BY <1>1, <1>3 DEF Cut
  <2>2. QED
    BY <1>3, <2>1 DEF IsRaw, Raw
<1>4. QED
  BY <1>2, <1>3

(* The messages of a buffer: those it was given, but for one that is cut,   *)
(* after which none fits.                                                   *)
Cuts(R) == {Cut(raw, room) : raw \in R, room \in Nat}
PutSound(R, size, put) ==
    /\ put \in [raws : Seq(R \cup Cuts(R)), room : Nat, cut : BOOLEAN]
    /\ \A i \in DOMAIN put.raws :
          /\ IsRaw(put.raws[i])
          /\ put.raws[i] \in R \/ (put.cut /\ put.room = 0 /\ i = Len(put.raws)
                                   /\ \E raw \in R : /\ put.raws[i].type = raw.type
                                                     /\ put.raws[i].level = raw.level)
    /\ size = 0 => put.raws = <<>> /\ put.room = 0

(* One put_cmsg more keeps the buffer's contents sound. *)
LEMMA PutNext ==
    ASSUME NEW R, \A raw \in R : IsRaw(raw), NEW size \in Nat, NEW put, PutSound(R, size, put), NEW raw \in R
    PROVE  PutSound(R, size, PutCmsg(put, raw))
<1> DEFINE X == R \cup Cuts(R)
           next == PutCmsg(put, raw)
<1>1. /\ put \in [raws : Seq(X), room : Nat, cut : BOOLEAN]
      /\ put = [raws |-> put.raws, room |-> put.room, cut |-> put.cut]
      /\ put.raws \in Seq(X) /\ put.room \in Nat /\ put.cut \in BOOLEAN
  BY DEF PutSound
<1>2. IsRaw(raw) /\ raw.len \in Nat
  BY DEF IsRaw
<1>3. CmsgSpace(raw.len) \in Nat
  BY <1>2, SpaceType
<1>4. ASSUME NEW x \in X
      PROVE  /\ Append(put.raws, x) \in Seq(X)
             /\ DOMAIN Append(put.raws, x) = 1 .. Len(put.raws) + 1
             /\ Len(Append(put.raws, x)) = Len(put.raws) + 1
             /\ DOMAIN put.raws = 1 .. Len(put.raws) /\ Len(put.raws) \in Nat
             /\ \A i \in 1 .. Len(put.raws) : Append(put.raws, x)[i] = put.raws[i]
             /\ Append(put.raws, x)[Len(put.raws) + 1] = x
  BY <1>1
<1>5. CASE CmsgHeader + raw.len <= put.room
  <2> DEFINE room == IF put.room < CmsgSpace(raw.len) THEN 0 ELSE put.room - CmsgSpace(raw.len)
  <2>1. next = [raws |-> Append(put.raws, raw), room |-> room, cut |-> put.cut]
    <3>1. ~(CmsgHeader + raw.len > put.room)
      BY <1>1, <1>2, <1>5 DEF CmsgHeader
    <3>2. next = [put EXCEPT !.raws = Append(put.raws, raw), !.room = room]
      BY <1>5, <3>1, Zenon DEF PutCmsg
    <3> HIDE DEF room, next
    <3>3. QED
      BY <1>1, <3>2
  <2>2. room \in Nat /\ put.room # 0
    BY <1>1, <1>2, <1>3, <1>5 DEF CmsgHeader
  <2> HIDE DEF room, next
  <2>3. next \in [raws : Seq(X), room : Nat, cut : BOOLEAN]
    BY <1>1, <1>4, <2>1, <2>2
  <2>4. ASSUME NEW i \in DOMAIN next.raws
        PROVE  IsRaw(next.raws[i]) /\ next.raws[i] \in R
    <3>1. \A j \in DOMAIN put.raws : IsRaw(put.raws[j]) /\ put.raws[j] \in R
      BY <2>2 DEF PutSound
    <3>2. next.raws = Append(put.raws, raw)
      BY <2>1
    <3>3. (i \in DOMAIN put.raws /\ next.raws[i] = put.raws[i]) \/ next.raws[i] = raw
      BY <1>4, <3>2
    <3>4. QED
      BY <1>2, <3>1, <3>3
  <2>5. size # 0
    BY <2>2 DEF PutSound
  <2>6. QED
    BY <2>3, <2>4, <2>5 DEF PutSound, next
<1>6. CASE CmsgHeader + raw.len > put.room /\ CmsgHeader + LeastData(raw) <= put.room
  <2> DEFINE c == Cut(raw, put.room - CmsgHeader)
  <2>1. /\ put.room - CmsgHeader \in Nat /\ put.room - CmsgHeader < raw.len /\ put.room # 0
    BY <1>1, <1>2, <1>6 DEF CmsgHeader, LeastData
  <2>2. IsRaw(c) /\ c.type = raw.type /\ c.level = raw.level /\ c \in X
    BY <1>2, <2>1, CutIs DEF Cuts
  <2>3. next = [raws |-> Append(put.raws, c), room |-> 0, cut |-> TRUE]
    <3>1. ~(CmsgHeader + raw.len <= put.room)
      BY <1>1, <1>2, <1>6 DEF CmsgHeader
    <3>2. next = [put EXCEPT !.raws = Append(put.raws, c), !.room = 0, !.cut = TRUE]
      BY <1>6, <3>1, Zenon DEF PutCmsg
    <3> HIDE DEF c, next
    <3>3. QED
      BY <1>1, <3>2
  <2> HIDE DEF c, next
  <2>4. next \in [raws : Seq(X), room : Nat, cut : BOOLEAN]
    BY <1>4, <2>2, <2>3
  <2>5. ASSUME NEW i \in DOMAIN next.raws
        PROVE  IsRaw(next.raws[i]) /\ (next.raws[i] \in R \/ (i = Len(next.raws) /\ next.raws[i] = c))
    <3>1. \A j \in DOMAIN put.raws : IsRaw(put.raws[j]) /\ put.raws[j] \in R
      BY <2>1 DEF PutSound
    <3>2. next.raws = Append(put.raws, c)
      BY <2>3
    <3>3. \/ i \in DOMAIN put.raws /\ next.raws[i] = put.raws[i]
          \/ i = Len(next.raws) /\ next.raws[i] = c
      BY <1>4, <2>2, <3>2
    <3>4. QED
      BY <2>2, <3>1, <3>3
  <2>6. size # 0
    BY <2>1 DEF PutSound
  <2>7. next.cut /\ next.room = 0
    BY <2>3
  <2>8. QED
    BY <2>2, <2>4, <2>5, <2>6, <2>7 DEF PutSound, next
<1>7. CASE ~(CmsgHeader + raw.len <= put.room) /\ ~(CmsgHeader + raw.len > put.room /\ CmsgHeader + LeastData(raw) <= put.room)
  <2>1. next = [raws |-> put.raws, room |-> put.room, cut |-> TRUE]
    BY <1>1, <1>7 DEF PutCmsg
  <2> HIDE DEF next
  <2>2. next.raws = put.raws /\ next.room = put.room /\ next.cut = TRUE
        /\ next \in [raws : Seq(X), room : Nat, cut : BOOLEAN]
    BY <1>1, <2>1
  <2>3. QED
    BY <2>2 DEF PutSound, next
<1>8. QED
  BY <1>5, <1>6, <1>7

(* What the kernel puts into a control buffer, from the first message on.   *)
Puts(raws, size, g) ==
    g = [n \in 0 .. Len(raws) |->
            IF n = 0 THEN [raws |-> <<>>, room |-> size, cut |-> FALSE] ELSE PutCmsg(g[n - 1], raws[n])]

(* So does any number of them, from an empty buffer on. *)
LEMMA PutCmsgsIs ==
    ASSUME NEW R, \A raw \in R : IsRaw(raw), NEW raws \in Seq(R), NEW size \in Nat
    PROVE  PutSound(R, size, PutCmsgs(raws, size))
<1> DEFINE X == {put \in [raws : Seq(R \cup Cuts(R)), room : Nat, cut : BOOLEAN] : PutSound(R, size, put)}
           first == [raws |-> <<>>, room |-> size, cut |-> FALSE]
           F == [i \in 1 .. Len(raws) |-> [x \in X |-> PutCmsg(x, raws[i])]]
           w == CHOOSE g : Puts(raws, size, g)
<1>1. Len(raws) \in Nat /\ \A i \in 1 .. Len(raws) : raws[i] \in R
  OBVIOUS
<1>2. first \in X
  <2>1. /\ first \in [raws : Seq(R \cup Cuts(R)), room : Nat, cut : BOOLEAN]
        /\ DOMAIN first.raws = {} /\ (size = 0 => first.raws = <<>> /\ first.room = 0)
    OBVIOUS
  <2> HIDE DEF first
  <2>2. QED
    BY <2>1 DEF PutSound
<1>3. \A x \in X, i \in 1 .. Len(raws) : PutCmsg(x, raws[i]) \in X
  <2> SUFFICES ASSUME NEW x \in X, NEW i \in 1 .. Len(raws) PROVE PutCmsg(x, raws[i]) \in X
    OBVIOUS
  <2>1. PutSound(R, size, PutCmsg(x, raws[i]))
    BY <1>1, PutNext
  <2>2. QED
    BY <2>1 DEF PutSound
<1>4. F \in StepFunctions(Len(raws), X)
  <2> HIDE DEF X
  <2>1. \A i \in 1 .. Len(raws) : [x \in X |-> PutCmsg(x, raws[i])] \in [X -> X]
    BY <1>3
  <2>2. QED
    BY <2>1, Zenon DEF StepFunctions
<1> HIDE DEF X, first, F
<1>5. PICK g \in Solutions(Len(raws), X, first, F) : TRUE
  BY <1>1, <1>2, <1>4, RecursionExists
<1>6. Puts(raws, size, g)
  <2>1. /\ g \in [0 .. Len(raws) -> X] /\ g[0] = first
        /\ \A i \in 1 .. Len(raws) : g[i] = F[i][g[i - 1]]
    BY <1>5 DEF Solutions
  <2>2. ASSUME NEW i \in 1 .. Len(raws) PROVE g[i] = PutCmsg(g[i - 1], raws[i])
    <3>1. i - 1 \in 0 .. Len(raws)
      BY <1>1
    <3>2. g[i - 1] \in X
      BY <2>1, <3>1
    <3>3. F[i] = [x \in X |-> PutCmsg(x, raws[i])]
      BY Zenon DEF F
    <3>4. F[i][g[i - 1]] = PutCmsg(g[i - 1], raws[i])
      BY <3>2, <3>3, Zenon
    <3>5. QED
      BY <2>1, <3>4
  <2>3. \A n \in 0 .. Len(raws) : n # 0 => n \in 1 .. Len(raws)
    BY <1>1
  <2>4. g = [n \in 0 .. Len(raws) |-> g[n]]
    BY <2>1, Zenon
  <2>5. \A n \in 0 .. Len(raws) : g[n] = IF n = 0 THEN first ELSE PutCmsg(g[n - 1], raws[n])
    BY <2>1, <2>2, <2>3, Zenon
  <2>6. g = [n \in 0 .. Len(raws) |-> IF n = 0 THEN first ELSE PutCmsg(g[n - 1], raws[n])]
    BY <2>4, <2>5, Zenon
  <2>7. QED
    BY <2>6, Zenon DEF Puts, first
<1>7. Puts(raws, size, w)
  BY <1>6, Zenon
<1>8. PutCmsgs(raws, size) = w[Len(raws)]
  BY Zenon DEF PutCmsgs, Puts
<1> HIDE DEF w
<1> DEFINE P == {n \in Nat : n <= Len(raws) => w[n] \in X}
<1>9. /\ w[0] = first
      /\ \A n \in 0 .. Len(raws) : n # 0 => w[n] = PutCmsg(w[n - 1], raws[n])
  <2>1. \A n \in 0 .. Len(raws) : w[n] = IF n = 0 THEN first ELSE PutCmsg(w[n - 1], raws[n])
    BY <1>7, Zenon DEF Puts, first
  <2>2. QED
    BY <1>1, <2>1
<1>10. 0 \in P
  BY <1>2, <1>9
<1>11. ASSUME NEW n \in Nat, n \in P PROVE n + 1 \in P
  <2> SUFFICES ASSUME n + 1 <= Len(raws) PROVE w[n + 1] \in X
    OBVIOUS
  <2>1. n <= Len(raws) /\ n + 1 \in 1 .. Len(raws) /\ n + 1 \in 0 .. Len(raws) /\ n + 1 # 0 /\ n + 1 - 1 = n
    BY <1>1
  <2>2. w[n + 1] = PutCmsg(w[n], raws[n + 1])
    BY <1>9, <2>1
  <2>3. w[n] \in X
    BY <1>11, <2>1
  <2>4. QED
    BY <1>3, <2>1, <2>2, <2>3
<1> HIDE DEF P
<1>12. Nat \subseteq P
  BY <1>10, <1>11, NatSetInduction
<1>13. w[Len(raws)] \in X
  BY <1>1, <1>12 DEF P
<1>14. QED
  BY <1>8, <1>13 DEF X

-----------------------------------------------------------------------------
(* Sequences laid end to end.                                               *)
Flattens(seqs, g) == g = [i \in 1 .. Len(seqs) |-> IF i = 1 THEN seqs[i] ELSE g[i - 1] \o seqs[i]]

(* What FlattenSeq returns is the last of the sequences laid end to end one *)
(* after the other.                                                         *)
LEMMA FlattenIs ==
    ASSUME NEW S, NEW seqs \in Seq(Seq(S)), seqs # <<>>
    PROVE  \E w : /\ FlattenSeq(seqs) = w[Len(seqs)]
                  /\ w[1] = seqs[1]
                  /\ \A i \in 2 .. Len(seqs) : w[i] = w[i - 1] \o seqs[i]
                  /\ \A i \in 1 .. Len(seqs) : w[i] \in Seq(S)
<1> DEFINE n == Len(seqs) - 1
           X == Seq(S)
           F == [i \in 1 .. n |-> [x \in X |-> x \o seqs[i + 1]]]
           w == CHOOSE g : Flattens(seqs, g)
<1>1. /\ n \in Nat /\ Len(seqs) = n + 1 /\ Len(seqs) \in Nat /\ Len(seqs) # 0
      /\ \A i \in 1 .. Len(seqs) : seqs[i] \in X
  OBVIOUS
<1>2. F \in StepFunctions(n, X)
  <2>1. \A i \in 1 .. n : i + 1 \in 1 .. Len(seqs)
    BY <1>1
  <2>2. \A i \in 1 .. n : \A x \in X : x \o seqs[i + 1] \in X
    BY <1>1, <2>1
  <2> HIDE DEF X, n
  <2>3. \A i \in 1 .. n : [x \in X |-> x \o seqs[i + 1]] \in [X -> X]
    BY <2>2
  <2>4. QED
    BY <2>3, Zenon DEF StepFunctions
<1>3. seqs[1] \in X
  BY <1>1
<1> HIDE DEF n, X, F
<1>4. PICK h \in Solutions(n, X, seqs[1], F) : TRUE
  BY <1>1, <1>2, <1>3, RecursionExists
<1>5. /\ h[0] = seqs[1]
      /\ \A i \in 1 .. n : h[i] = h[i - 1] \o seqs[i + 1]
  <2>1. /\ h \in [0 .. n -> X] /\ h[0] = seqs[1]
        /\ \A i \in 1 .. n : h[i] = F[i][h[i - 1]]
    BY <1>4 DEF Solutions
  <2>2. ASSUME NEW i \in 1 .. n PROVE h[i] = h[i - 1] \o seqs[i + 1]
    <3>1. i - 1 \in 0 .. n
      BY <1>1
    <3>2. h[i - 1] \in X
      BY <2>1, <3>1
    <3>3. F[i] = [x \in X |-> x \o seqs[i + 1]]
      BY Zenon DEF F
    <3>4. F[i][h[i - 1]] = h[i - 1] \o seqs[i + 1]
      BY <3>2, <3>3, Zenon
    <3>5. QED
      BY <2>1, <3>4
  <2>3. QED
    BY <2>1, <2>2
<1> DEFINE g == [i \in 1 .. Len(seqs) |-> h[i - 1]]
<1>6. Flattens(seqs, g)
  <2>1. ASSUME NEW i \in 1 .. Len(seqs) PROVE h[i - 1] = IF i = 1 THEN seqs[i] ELSE g[i - 1] \o seqs[i]
    <3>1. CASE i = 1
      BY <1>5, <3>1
    <3>2. CASE i # 1
      <4>1. i - 1 \in 1 .. n /\ i - 1 \in 1 .. Len(seqs) /\ i - 1 + 1 = i
        BY <1>1, <3>2
      <4>2. g[i - 1] = h[i - 1 - 1]
        BY <4>1
      <4>3. h[i - 1] = h[i - 1 - 1] \o seqs[i]
        BY <1>5, <4>1
      <4>4. QED
        BY <3>2, <4>2, <4>3
    <3>3. QED
      BY <3>1, <3>2
  <2>2. QED
    BY <2>1, Zenon DEF Flattens
<1> HIDE DEF g
<1>7. Flattens(seqs, w)
  BY <1>6, Zenon
<1>8. FlattenSeq(seqs) = w[Len(seqs)]
  BY <1>1, Zenon DEF FlattenSeq, Flattens
<1> HIDE DEF w
<1>9. /\ w[1] = seqs[1]
      /\ \A i \in 2 .. Len(seqs) : w[i] = w[i - 1] \o seqs[i]
  <2>1. \A i \in 1 .. Len(seqs) : w[i] = IF i = 1 THEN seqs[i] ELSE w[i - 1] \o seqs[i]
    BY <1>7, Zenon DEF Flattens
  <2>2. 1 \in 1 .. Len(seqs) /\ \A i \in 2 .. Len(seqs) : i \in 1 .. Len(seqs) /\ i # 1
    BY <1>1
  <2>3. QED
    BY <2>1, <2>2, Zenon
<1> DEFINE P == {m \in Nat : m < Len(seqs) => w[m + 1] \in X}
<1>10. 0 \in P
  BY <1>3, <1>9
<1>11. ASSUME NEW m \in Nat, m \in P PROVE m + 1 \in P
  <2> SUFFICES ASSUME m + 1 < Len(seqs) PROVE w[m + 1 + 1] \in X
    OBVIOUS
  <2>1. m < Len(seqs) /\ m + 1 + 1 \in 2 .. Len(seqs) /\ m + 1 + 1 \in 1 .. Len(seqs) /\ m + 1 + 1 - 1 = m + 1
    BY <1>1
  <2>2. w[m + 1 + 1] = w[m + 1] \o seqs[m + 1 + 1]
    <3> DEFINE k == m + 1 + 1
    <3>1. k \in 2 .. Len(seqs) /\ k - 1 = m + 1
      BY <2>1
    <3> HIDE DEF k
    <3>2. w[k] = w[k - 1] \o seqs[k]
      BY <1>9, <3>1, Zenon
    <3>3. w[k] = w[m + 1] \o seqs[k]
      BY <3>1, <3>2, Zenon
    <3>4. QED
      BY <3>3 DEF k
  <2>3. w[m + 1] \in X /\ seqs[m + 1 + 1] \in X
    BY <1>1, <1>11, <2>1
  <2>4. QED
    BY <2>2, <2>3 DEF X
<1> HIDE DEF P
<1>12. Nat \subseteq P
  BY <1>10, <1>11, NatSetInduction
<1>13. ASSUME NEW i \in 1 .. Len(seqs) PROVE w[i] \in X
  <2>1. i - 1 \in Nat /\ i - 1 < Len(seqs) /\ i - 1 + 1 = i
    BY <1>1
  <2>2. i - 1 \in P
    BY <1>12, <2>1
  <2>3. QED
    BY <2>1, <2>2 DEF P
<1>14. QED
  BY <1>8, <1>9, <1>13, Zenon DEF X

(* Laid end to end, sequences over a set are a sequence over it. *)
LEMMA FlattenType == ASSUME NEW S, NEW seqs \in Seq(Seq(S)) PROVE FlattenSeq(seqs) \in Seq(S)
<1>1. CASE seqs = <<>>
  BY <1>1 DEF FlattenSeq
<1>2. CASE seqs # <<>>
  <2>1. PICK w : FlattenSeq(seqs) = w[Len(seqs)] /\ \A i \in 1 .. Len(seqs) : w[i] \in Seq(S)
    BY <1>2, FlattenIs
  <2>2. Len(seqs) \in 1 .. Len(seqs)
    BY <1>2
  <2>3. QED
    BY <2>1, <2>2
<1>3. QED
  BY <1>1, <1>2

-----------------------------------------------------------------------------
(* The buffers of an operation, a result or an error.                       *)
Apart(S) == \A b, c \in S : b.id = c.id => b = c

(* A set with no two elements is empty or has one, its content. *)
LEMMA OneIs ==
    ASSUME NEW S, One(S)
    PROVE  S = {} \/ \E x \in S : S = {x} /\ The(S) = x
BY Zenon DEF One, The

(* The buffers in use by an operation are finitely many and have different  *)
(* identities.                                                              *)
LEMMA UseIs ==
    ASSUME NEW bufs \in BuffersType
    PROVE  /\ InUse(bufs) \subseteq BufferType /\ IsFiniteSet(InUse(bufs)) /\ Apart(InUse(bufs))
           /\ bufs = RecvMsgBuffers(bufs.data, bufs.control)
           /\ bufs.data = {} \/ \E vec \in VecType : bufs.data = {vec} /\ The(bufs.data) = vec
           /\ bufs.control = {} \/ \E b \in ControlType : bufs.control = {b} /\ The(bufs.control) = b
<1>1. /\ bufs.data \subseteq VecType /\ bufs.control \subseteq ControlType
      /\ One(bufs.data) /\ One(bufs.control) /\ bufs = RecvMsgBuffers(bufs.data, bufs.control)
  BY DEF BuffersType, RecvMsgBuffers
<1>2. bufs.data = {} \/ \E vec \in VecType : bufs.data = {vec} /\ The(bufs.data) = vec
  BY <1>1, OneIs
<1>3. bufs.control = {} \/ \E b \in ControlType : bufs.control = {b} /\ The(bufs.control) = b
  BY <1>1, OneIs
<1> DEFINE D == UNION {{vec[i] : i \in DOMAIN vec} : vec \in bufs.data}
<1>4. D \subseteq DataType /\ IsFiniteSet(D) /\ Apart(D)
  <2>1. CASE bufs.data = {}
    <3>1. D = {}
      BY <2>1
    <3>2. QED
      BY <3>1, FS_EmptySet DEF Apart
  <2>2. CASE bufs.data # {}
    <3>1. PICK vec \in VecType : bufs.data = {vec}
      BY <1>2, <2>2
    <3>2. D = ToSet(vec)
      BY <3>1 DEF ToSet
    <3>3. vec \in Seq(DataType) /\ \A i, j \in DOMAIN vec : vec[i].id = vec[j].id => i = j
      BY DEF VecType
    <3>4. ToSet(vec) \subseteq DataType /\ IsFiniteSet(ToSet(vec))
      BY <3>3, ElementsIn, ElementsAreFew
    <3>5. Apart(ToSet(vec))
      BY <3>3, Zenon DEF Apart, ToSet
    <3>6. QED
      BY <3>2, <3>4, <3>5
  <2>3. QED
    BY <2>1, <2>2
<1>5. InUse(bufs) = D \cup bufs.control
  BY DEF InUse
<1> HIDE DEF D
<1>6. IsFiniteSet(bufs.control)
  BY <1>3, FS_EmptySet, FS_Singleton
<1>7. IsFiniteSet(InUse(bufs))
  BY <1>4, <1>5, <1>6, FS_Union
<1>8. Apart(InUse(bufs))
  <2> SUFFICES ASSUME NEW b \in InUse(bufs), NEW c \in InUse(bufs), b.id = c.id PROVE b = c
    BY Zenon DEF Apart
  <2>1. /\ \A d \in D : d.id \in Ids(Buffers)
        /\ \A d \in bufs.control : d.id \in Ids(ControlBuffers)
    BY <1>1, <1>4 DEF DataType, ControlType
  <2>2. Ids(Buffers) \cap Ids(ControlBuffers) = {}
    BY ReceiverAssumption, Zenon
  <2>3. (b \in D /\ c \in D) \/ (b \in bufs.control /\ c \in bufs.control)
    BY <1>5, <2>1, <2>2
  <2>4. QED
    BY <1>1, <1>4, <2>3 DEF Apart, One
<1>9. InUse(bufs) \subseteq BufferType
  BY <1>1, <1>4, <1>5 DEF DataType, ControlType
<1>10. QED
  BY <1>1, <1>2, <1>3, <1>7, <1>8, <1>9

(* Buffers that are the same but for what they hold.                        *)
SameIds(p, q) ==
    /\ (p.data = {}) = (q.data = {})
    /\ \A v \in p.data, w \in q.data : DOMAIN v = DOMAIN w /\ \A i \in DOMAIN v : v[i].id = w[i].id
    /\ (p.control = {}) = (q.control = {})
    /\ \A b \in p.control, c \in q.control : b.id = c.id

(* Buffers that differ in what they hold have the same identities. *)
LEMMA IdsKept == ASSUME NEW p, NEW q, SameIds(p, q) PROVE Ids(InUse(p)) = Ids(InUse(q))
<1>1. ASSUME NEW P, NEW Q, SameIds(P, Q), NEW id \in Ids(InUse(P)) PROVE id \in Ids(InUse(Q))
  <2>1. PICK b \in InUse(P) : b.id = id
    BY <1>1, Zenon DEF Ids
  <2>2. CASE b \in P.control
    <3>1. PICK c \in Q.control : c.id = id
      BY <1>1, <2>1, <2>2, Zenon DEF SameIds
    <3>2. c \in InUse(Q)
      BY <3>1 DEF InUse
    <3>3. QED
      BY <3>1, <3>2, Zenon DEF Ids
  <2>3. CASE b \notin P.control
    <3>1. PICK v \in P.data : b \in {v[i] : i \in DOMAIN v}
      BY <2>1, <2>3 DEF InUse
    <3>2. PICK i \in DOMAIN v : b = v[i]
      BY <3>1, Zenon
    <3>3. PICK w \in Q.data : DOMAIN v = DOMAIN w /\ v[i].id = w[i].id
      BY <1>1, <3>1, <3>2, Zenon DEF SameIds
    <3>4. w[i] \in InUse(Q)
      BY <3>2, <3>3 DEF InUse
    <3>5. QED
      BY <2>1, <3>2, <3>3, <3>4, Zenon DEF Ids
  <2>4. QED
    BY <2>2, <2>3
<1>2. SameIds(q, p)
  BY Zenon DEF SameIds
<1>3. QED
  BY <1>1, <1>2

-----------------------------------------------------------------------------
(* Operations and errors.                                                   *)
GoodOp(o) ==
    /\ o = Operation(o.kind, o.buffers)
    /\ o.kind \in {"Read", "Readv", "RecvMsg"} /\ o.buffers \in BuffersType
    /\ o.kind = "Read" => \E b \in DataType : o.buffers = RecvMsgBuffers({<<b>>}, {}) /\ SpareOf(b) > 0
    /\ o.kind = "Readv" => o.buffers.control = {}
    /\ \A vec \in o.buffers.data : OutputIoVecs(vec) # {}

GoodErr(e) ==
    /\ e = Error(e.holder, e.kind, e.buffers) /\ e.buffers \in BuffersType
    /\ <<e.holder, e.kind>> \in BytesMutHolders \cup VecHolders \cup RecvMsgHolders \cup {<<"InvalidIoVec", "Readv">>}
    /\ e.kind # "RecvMsg" => e.buffers.control = {}
    /\ e.holder = "InvalidIoVec" => e.buffers = NoBuffers

(* An operation not yet submitted, which will be a good one.                *)
GoodLent(o) ==
    /\ o.kind \in {"Read", "Readv", "RecvMsg"} /\ o.buffers \in BuffersType
    /\ o.kind # "RecvMsg" => o.buffers.control = {}
    /\ GoodOp(Submitted(o)) /\ SameIds(Submitted(o).buffers, o.buffers)

(* Lending ends in an operation with the buffers lent or in an error.       *)
LendSound(kind, bufs, refused) ==
    /\ bufs \in BuffersType
    /\ refused = {} => /\ GoodLent(Pending(Operation(kind, bufs)))
                       /\ SameIds(Pending(Operation(kind, bufs)).buffers, bufs)
    /\ refused # {} => \E e : /\ refused = {e} /\ GoodErr(e)
                              /\ e.buffers = bufs \/ (e.holder = "InvalidIoVec" /\ e.buffers = NoBuffers)

(* No buffers at all are buffers of an operation. *)
LEMMA NothingIsBuffers == NoBuffers \in BuffersType /\ NoBuffers = [data |-> {}, control |-> {}]
BY DEF NoBuffers, None, RecvMsgBuffers, BuffersType, One

(* Buffers of an operation, from their parts. *)
LEMMA BuffersAre ==
    ASSUME NEW D \in SUBSET VecType, NEW C \in SUBSET ControlType, One(D), One(C)
    PROVE  RecvMsgBuffers(D, C) \in BuffersType
BY DEF RecvMsgBuffers, BuffersType

(* A grown buffer is the buffer of the same identity. *)
LEMMA GrownIsSame ==
    ASSUME NEW S
    PROVE  /\ S \subseteq DataType => {Grown(b) : b \in S} \subseteq DataType
           /\ S \subseteq ControlType => {Grown(b) : b \in S} \subseteq ControlType
           /\ One(S) => One({Grown(b) : b \in S})
<1>1. ASSUME S \subseteq DataType, NEW b \in S PROVE Grown(b) \in DataType
  BY <1>1, Room DEF DataType
<1>2. ASSUME S \subseteq ControlType, NEW b \in S PROVE Grown(b) \in ControlType
  BY <1>2, Room DEF ControlType
<1>3. QED
  BY <1>1, <1>2 DEF One

(* One data buffer alone. *)
LEMMA SingleVec ==
    ASSUME NEW b \in DataType
    PROVE  /\ <<b>> \in VecType /\ DOMAIN <<b>> = {1} /\ <<b>>[1] = b
           /\ RecvMsgBuffers({<<b>>}, {}) \in BuffersType
           /\ InUse(RecvMsgBuffers({<<b>>}, {})) = {b}
<1>1. <<b>> \in Seq(DataType) /\ DOMAIN <<b>> = {1} /\ <<b>>[1] = b
  OBVIOUS
<1>2. <<b>> \in VecType
  BY <1>1 DEF VecType
<1> DEFINE v == <<b>>
<1> HIDE DEF v
<1>3. {v[i] : i \in DOMAIN v} = {b}
  BY <1>1 DEF v
<1>4. UNION {{vec[i] : i \in DOMAIN vec} : vec \in {v}} = {b}
  BY <1>3
<1>5. InUse(RecvMsgBuffers({v}, {})) = {b}
  BY <1>4 DEF InUse, RecvMsgBuffers
<1>6. One({v}) /\ One({})
  BY DEF One
<1>7. QED
  BY <1>1, <1>2, <1>5, <1>6, BuffersAre DEF v

(* The buffers of an operation when it is made. *)
LEMMA PendingIs ==
    ASSUME NEW kind, NEW D, NEW C
    PROVE  Pending(Operation(kind, RecvMsgBuffers(D, C))) = Operation(kind, RecvMsgBuffers(D, {Grown(b) : b \in C}))
<1> DEFINE o == Operation(kind, RecvMsgBuffers(D, C))
           grown == {Grown(b) : b \in C}
<1>1. o = [kind |-> kind, buffers |-> [data |-> D, control |-> C]]
  BY DEF Operation, RecvMsgBuffers
<1>2. o.buffers.control = C
  BY <1>1
<1> HIDE DEF o
<1>3. Pending(o) = [o EXCEPT !.buffers.control = grown]
  BY <1>2 DEF Pending
<1> HIDE DEF grown
<1>4. Pending(o) = [kind |-> kind, buffers |-> [data |-> D, control |-> grown]]
  BY <1>1, <1>3
<1>5. QED
  BY <1>4 DEF o, grown, Operation, RecvMsgBuffers

(* The buffers of an operation once it is submitted. *)
LEMMA SubmittedIs ==
    ASSUME NEW kind, NEW D, NEW C
    PROVE  Submitted(Operation(kind, RecvMsgBuffers(D, C))) =
              Operation(kind, RecvMsgBuffers(IF kind = "Read" THEN {<<Grown(vec[1])>> : vec \in D} ELSE D, C))
<1> DEFINE o == Operation(kind, RecvMsgBuffers(D, C))
           grown == {<<Grown(vec[1])>> : vec \in D}
<1>1. o = [kind |-> kind, buffers |-> [data |-> D, control |-> C]]
  BY DEF Operation, RecvMsgBuffers
<1>2. o.kind = kind /\ o.buffers.data = D
  BY <1>1
<1>3. CASE kind # "Read"
  BY <1>2, <1>3 DEF Submitted
<1>4. CASE kind = "Read"
  <2> HIDE DEF o
  <2>1. Submitted(o) = [o EXCEPT !.buffers.data = grown]
    BY <1>2, <1>4 DEF Submitted
  <2> HIDE DEF grown
  <2>2. Submitted(o) = [kind |-> kind, buffers |-> [data |-> grown, control |-> C]]
    BY <1>1, <2>1
  <2>3. QED
    BY <1>4, <2>2 DEF o, grown, Operation, RecvMsgBuffers
<1>5. QED
  BY <1>3, <1>4

(* Buffers are the same as themselves. *)
LEMMA SameAsItself == ASSUME NEW bufs \in BuffersType PROVE SameIds(bufs, bufs)
BY DEF BuffersType, SameIds, One

(* read lends its buffer, or fails with it in the error. *)
LEMMA ReadIsSound ==
    ASSUME NEW b \in DataType
    PROVE  LendSound("Read", RecvMsgBuffers(Some(<<b>>), None), RefusedRead(b))
<1> DEFINE bufs == RecvMsgBuffers({<<b>>}, {})
           lent == Pending(Operation("Read", bufs))
           sub == Submitted(lent)
<1>1. bufs = RecvMsgBuffers(Some(<<b>>), None) /\ bufs \in BuffersType /\ bufs.control = {} /\ bufs.data = {<<b>>}
  BY SingleVec DEF Some, None, RecvMsgBuffers
<1>2. b \in BufferType /\ Grown(b) \in DataType /\ Grown(b).id = b.id /\ SpareOf(Grown(b)) > 0
  BY Room DEF DataType
<1>0. lent = Operation("Read", bufs)
  <2>1. {Grown(c) : c \in {}} = {}
    OBVIOUS
  <2>2. QED
    BY <2>1, PendingIs
<1> HIDE DEF lent
<1>3. sub = Operation("Read", RecvMsgBuffers({<<Grown(b)>>}, {}))
  <2>1. {<<Grown(vec[1])>> : vec \in {<<b>>}} = {<<Grown(b)>>}
    OBVIOUS
  <2>2. QED
    BY <1>0, <2>1, SubmittedIs
<1> HIDE DEF sub
<1>4. GoodOp(sub)
  <2>1. /\ sub.kind = "Read" /\ sub.buffers = RecvMsgBuffers({<<Grown(b)>>}, {})
        /\ sub.buffers.control = {} /\ sub.buffers.data = {<<Grown(b)>>}
    BY <1>3 DEF Operation, RecvMsgBuffers
  <2>2. sub.buffers \in BuffersType
    <3>1. \A d \in DataType : RecvMsgBuffers({<<d>>}, {}) \in BuffersType
      BY SingleVec
    <3>2. QED
      BY <1>2, <2>1, <3>1, Zenon
  <2>3. 1 \in OutputIoVecs(<<Grown(b)>>)
    BY <1>2, SingleVec DEF OutputIoVecs
  <2>4. \A vec \in sub.buffers.data : OutputIoVecs(vec) # {}
    BY <2>1, <2>3
  <2>5. QED
    BY <1>2, <1>3, <2>1, <2>2, <2>4 DEF GoodOp
<1>5. SameIds(sub.buffers, bufs)
  <2>1. sub.buffers = RecvMsgBuffers({<<Grown(b)>>}, {})
    BY <1>3 DEF Operation
  <2>2. DOMAIN <<Grown(b)>> = DOMAIN <<b>> /\ \A i \in DOMAIN <<b>> : <<Grown(b)>>[i].id = <<b>>[i].id
    BY <1>2
  <2>3. QED
    BY <2>1, <2>2 DEF SameIds, RecvMsgBuffers
<1>6. ASSUME RefusedRead(b) # {}
      PROVE  \E e : RefusedRead(b) = {e} /\ GoodErr(e) /\ e.buffers = bufs
  <2> DEFINE e == Error("OutputBuffer", "Read", bufs)
  <2>1. RefusedRead(b) = {e}
    BY <1>1, <1>6, Zenon DEF RefusedRead, Some, None
  <2>2. e.holder = "OutputBuffer" /\ e.kind = "Read" /\ e.buffers = bufs /\ e = Error(e.holder, e.kind, e.buffers)
    BY DEF Error
  <2> HIDE DEF e, bufs
  <2>3. GoodErr(e)
    BY <1>1, <2>2 DEF GoodErr, BytesMutHolders
  <2>4. QED
    BY <2>1, <2>2, <2>3
<1> HIDE DEF bufs
<1>7. lent.kind = "Read" /\ lent.buffers = bufs
  BY <1>0 DEF Operation
<1>8. GoodLent(lent) /\ SameIds(lent.buffers, bufs)
  BY <1>1, <1>4, <1>5, <1>7, SameAsItself DEF GoodLent, sub
<1>9. LendSound("Read", bufs, RefusedRead(b))
  BY <1>1, <1>6, <1>8 DEF LendSound, lent
<1>10. QED
  BY <1>1, <1>9

(* Operations over several buffers that were not refused are good ones,     *)
(* over the same buffers.                                                   *)
LEMMA LentVec ==
    ASSUME NEW kind \in {"Readv", "RecvMsg"}, NEW bufs \in BuffersType, kind = "Readv" => bufs.control = {},
           \A vec \in bufs.data : OutputIoVecs(vec) # {}
    PROVE  GoodLent(Pending(Operation(kind, bufs))) /\ SameIds(Pending(Operation(kind, bufs)).buffers, bufs)
<1> DEFINE grown == {Grown(b) : b \in bufs.control}
           lent == Pending(Operation(kind, bufs))
<1>1. /\ bufs.data \subseteq VecType /\ bufs.control \subseteq ControlType /\ One(bufs.data) /\ One(bufs.control)
      /\ bufs = [data |-> bufs.data, control |-> bufs.control]
  BY DEF BuffersType
<1>2. lent = [kind |-> kind, buffers |-> [data |-> bufs.data, control |-> grown]]
  <2>1. bufs = RecvMsgBuffers(bufs.data, bufs.control) /\ kind # "Read"
    BY <1>1 DEF RecvMsgBuffers
  <2>2. QED
    BY <2>1, PendingIs DEF Operation, RecvMsgBuffers
<1> HIDE DEF lent
<1>3. grown \subseteq ControlType /\ One(grown)
  BY <1>1, GrownIsSame
<1>4. (bufs.control = {}) = (grown = {})
  OBVIOUS
<1>5. lent.buffers = RecvMsgBuffers(bufs.data, grown) /\ lent.buffers.data = bufs.data /\ lent.buffers.control = grown
      /\ lent.kind = kind /\ lent = Operation(lent.kind, lent.buffers)
  BY <1>2 DEF RecvMsgBuffers, Operation
<1>6. \A b \in bufs.control, c \in grown : c.id = b.id
  <2>1. \A c \in bufs.control : Grown(c).id = c.id
    BY <1>1, Room DEF ControlType
  <2>2. QED
    BY <1>1, <2>1 DEF One
<1> HIDE DEF grown
<1>7. GoodOp(lent)
  BY <1>1, <1>3, <1>4, <1>5, BuffersAre DEF GoodOp
<1>8. SameIds(lent.buffers, bufs)
  BY <1>1, <1>4, <1>5, <1>6 DEF SameIds, One
<1>9. Submitted(lent) = lent
  BY <1>5 DEF Submitted
<1>10. lent.buffers \in BuffersType /\ (kind = "Readv" => lent.buffers.control = {})
  BY <1>1, <1>3, <1>4, <1>5, BuffersAre
<1>11. GoodLent(lent)
  BY <1>5, <1>7, <1>9, <1>10, SameAsItself DEF GoodLent
<1>12. QED
  BY <1>8, <1>11 DEF lent

(* Refused for its io vectors is what has none. *)
LEMMA SomeIoVec ==
    ASSUME NEW vec, InvalidIoVec(Cardinality(OutputIoVecs(vec))) = None
    PROVE  OutputIoVecs(vec) # {}
<1> SUFFICES ASSUME OutputIoVecs(vec) = {} PROVE InvalidIoVec(Cardinality(OutputIoVecs(vec))) # None
  OBVIOUS
<1>1. Cardinality(OutputIoVecs(vec)) = 0 /\ ~(0 > IovMax)
  BY FS_EmptySet, BuffersAssumption
<1>2. QED
  BY <1>1 DEF InvalidIoVec, Some, None

(* readv lends its buffers, or fails with none of them in the error. *)
LEMMA ReadvIsSound ==
    ASSUME NEW vec \in VecType
    PROVE  LendSound("Readv", RecvMsgBuffers(Some(vec), None), RefusedReadv(vec))
<1> DEFINE bufs == RecvMsgBuffers({vec}, {})
<1>1. bufs = RecvMsgBuffers(Some(vec), None)
  BY DEF Some, None
<1>2. bufs \in BuffersType /\ bufs.data = {vec} /\ bufs.control = {}
  BY BuffersAre DEF One, RecvMsgBuffers
<1> HIDE DEF bufs
<1>3. CASE InvalidIoVecOutputBuffer(vec) # None
  <2> DEFINE e == Error("OutputBufferVec", "Readv", bufs)
  <2>1. RefusedReadv(vec) = {e}
    BY <1>1, <1>3 DEF RefusedReadv, Some
  <2>2. e.holder = "OutputBufferVec" /\ e.kind = "Readv" /\ e.buffers = bufs /\ e = Error(e.holder, e.kind, e.buffers)
    BY DEF Error
  <2> HIDE DEF e
  <2>3. GoodErr(e)
    BY <1>2, <2>2 DEF GoodErr, VecHolders
  <2>4. QED
    BY <1>1, <1>2, <2>1, <2>2, <2>3 DEF LendSound
<1>4. CASE InvalidIoVecOutputBuffer(vec) = None /\ InvalidIoVec(Cardinality(OutputIoVecs(vec))) # None
  <2> DEFINE e == Error("InvalidIoVec", "Readv", NoBuffers)
  <2>1. RefusedReadv(vec) = {e}
    BY <1>4 DEF RefusedReadv, Some
  <2>2. e.holder = "InvalidIoVec" /\ e.kind = "Readv" /\ e.buffers = NoBuffers /\ e = Error(e.holder, e.kind, e.buffers)
    BY DEF Error
  <2> HIDE DEF e
  <2>3. GoodErr(e)
    BY <2>2, NothingIsBuffers DEF GoodErr
  <2>4. QED
    BY <1>1, <1>2, <2>1, <2>2, <2>3 DEF LendSound
<1>5. CASE InvalidIoVecOutputBuffer(vec) = None /\ InvalidIoVec(Cardinality(OutputIoVecs(vec))) = None
  <2>1. RefusedReadv(vec) = {}
    BY <1>5, Zenon DEF RefusedReadv, None
  <2>2. OutputIoVecs(vec) # {}
    BY <1>5, SomeIoVec
  <2>3. GoodLent(Pending(Operation("Readv", bufs))) /\ SameIds(Pending(Operation("Readv", bufs)).buffers, bufs)
    BY <1>2, <2>2, LentVec
  <2>4. QED
    BY <1>1, <1>2, <2>1, <2>3 DEF LendSound
<1>6. QED
  BY <1>3, <1>4, <1>5

(* recvmsg lends its buffers, or fails with all of them in the error. *)
LEMMA RecvMsgIsSound ==
    ASSUME NEW bufs \in BuffersType
    PROVE  LendSound("RecvMsg", bufs, RefusedRecvMsg(bufs))
<1>1. CASE RefusedRecvMsg(bufs) # {}
  <2> DEFINE e == Error("RecvMsg", "RecvMsg", bufs)
  <2>1. RefusedRecvMsg(bufs) = {e}
    BY <1>1, Zenon DEF RefusedRecvMsg, Some, None
  <2>2. e.holder = "RecvMsg" /\ e.kind = "RecvMsg" /\ e.buffers = bufs /\ e = Error(e.holder, e.kind, e.buffers)
    BY DEF Error
  <2> HIDE DEF e
  <2>3. GoodErr(e)
    BY <2>2 DEF GoodErr, RecvMsgHolders, ControlHolders
  <2>4. QED
    BY <2>1, <2>2, <2>3 DEF LendSound
<1>2. CASE RefusedRecvMsg(bufs) = {}
  <2>1. \A vec \in bufs.data : InvalidIoVec(Cardinality(OutputIoVecs(vec))) = None
    BY <1>2, Zenon DEF RefusedRecvMsg, Some
  <2>2. \A vec \in bufs.data : OutputIoVecs(vec) # {}
    BY <2>1, SomeIoVec
  <2>3. GoodLent(Pending(Operation("RecvMsg", bufs))) /\ SameIds(Pending(Operation("RecvMsg", bufs)).buffers, bufs)
    BY <2>2, LentVec
  <2>4. QED
    BY <1>2, <2>3 DEF LendSound
<1>3. QED
  BY <1>1, <1>2

-----------------------------------------------------------------------------
(* Messages on their way, and what comes of an operation that gets one.     *)
IsMessage(m) ==
    /\ m.bytes \in Seq(Byte)
    /\ m.raws \in Seq(ToSet(m.raws))
    /\ \A raw \in ToSet(m.raws) : IsRaw(raw) /\ (raw \in ToSet(m.socket.adds) \/ Parse(raw) # {})
    /\ m.socket \in Sockets
    /\ m.name = UNION {NameOf(text) : text \in m.socket.own}

RoomFor(o) == IF o.buffers.control = None THEN 0 ELSE SpareOf(The(o.buffers.control))

(* What the kernel writes into the control buffer of a receive. *)
LEMMA ControlsWritten ==
    ASSUME NEW o, GoodOp(o), NEW m, IsMessage(m)
    PROVE  /\ RoomFor(o) \in Nat
           /\ Written(o, m).controls = PutCmsgs(m.raws, RoomFor(o))
           /\ PutSound(ToSet(m.raws), RoomFor(o), Written(o, m).controls)
           /\ ControlLen(Written(o, m)) \in Nat
<1>1. RoomFor(o) \in Nat
  <2>1. o.buffers \in BuffersType
    BY DEF GoodOp
  <2>2. CASE o.buffers.control = {}
    BY <2>2 DEF RoomFor, None
  <2>3. CASE o.buffers.control # {}
    <3>1. PICK b \in ControlType : o.buffers.control = {b} /\ The(o.buffers.control) = b
      BY <2>1, <2>3, UseIs
    <3>2. SpareOf(b) \in Nat
      BY Room DEF ControlType
    <3>3. QED
      BY <2>3, <3>1, <3>2 DEF RoomFor, None
  <2>4. QED
    BY <2>2, <2>3
<1> DEFINE put == Written(o, m).controls
           R == ToSet(m.raws)
<1>2. put = PutCmsgs(m.raws, RoomFor(o))
  BY DEF Written, RoomFor
<1>3. (\A raw \in R : IsRaw(raw)) /\ m.raws \in Seq(R)
  BY DEF IsMessage
<1> HIDE DEF R
<1>4. PutSound(R, RoomFor(o), put)
  BY <1>1, <1>2, <1>3, PutCmsgsIs
<1> HIDE DEF put
<1>5. ControlLen(Written(o, m)) \in Nat
  <2> DEFINE lens == [i \in DOMAIN put.raws |-> CmsgSpace(put.raws[i].len)]
  <2>1. put.raws \in Seq(R \cup Cuts(R)) /\ \A i \in DOMAIN put.raws : IsRaw(put.raws[i])
    BY <1>4 DEF PutSound
  <2>2. DOMAIN put.raws = 1 .. Len(put.raws) /\ Len(put.raws) \in Nat
    BY <2>1
  <2>3. \A i \in 1 .. Len(put.raws) : lens[i] \in Nat
    BY <2>1, <2>2, SpaceType DEF IsRaw
  <2>4. ControlLen(Written(o, m)) = SumTo(lens, Len(put.raws))
    BY DEF ControlLen, put
  <2> HIDE DEF lens
  <2>5. Len(put.raws) \in 0 .. Len(put.raws)
    BY <2>2
  <2>6. SumTo(lens, Len(put.raws)) \in Nat
    BY <2>2, <2>3, <2>5, SumToType
  <2>7. QED
    BY <2>4, <2>6
<1>6. QED
  BY <1>1, <1>2, <1>4, <1>5 DEF put, R

(* The data buffers after a receive.                                        *)
After(vec, payload) == VecIntoBytes(vec, Scatter(vec, payload), Taken(vec, payload, Len(vec)))

(* They are the buffers of before, of the same identities. *)
LEMMA AfterIs ==
    ASSUME NEW vec \in VecType, NEW payload \in Seq(Byte)
    PROVE  /\ After(vec, payload) \in VecType /\ DOMAIN After(vec, payload) = DOMAIN vec
           /\ \A i \in DOMAIN vec : After(vec, payload)[i].id = vec[i].id
           /\ Taken(vec, payload, Len(vec)) \in Nat
<1>1. /\ Scatter(vec, payload) \in Seq(Seq(Byte)) /\ Len(Scatter(vec, payload)) = Len(vec)
      /\ \A n \in 0 .. Len(vec) : Taken(vec, payload, n) \in 0 .. Len(payload)
  BY ScatterIs
<1>2. Len(vec) \in 0 .. Len(vec) /\ DOMAIN vec = 1 .. Len(vec)
  BY VecSums
<1>3. Taken(vec, payload, Len(vec)) \in Nat
  BY <1>1, <1>2
<1> DEFINE v == Scatter(vec, payload)
           n == Taken(vec, payload, Len(vec))
<1>4. v \in Seq(Seq(Byte)) /\ Len(v) = Len(vec) /\ n \in Nat
  BY <1>1, <1>3
<1> HIDE DEF v, n
<1>5. /\ VecIntoBytes(vec, v, n) \in VecType
      /\ DOMAIN VecIntoBytes(vec, v, n) = 1 .. Len(vec)
      /\ \A i \in 1 .. Len(vec) : VecIntoBytes(vec, v, n)[i].id = vec[i].id
  BY <1>4, SpreadIs
<1>6. QED
  BY <1>2, <1>3, <1>5, Zenon DEF After, v, n

(* The result of a receive over data buffers, in the terms above. *)
LEMMA DataReturned ==
    ASSUME NEW o, GoodOp(o), NEW m, m.bytes \in Seq(Byte), NEW vec \in VecType, o.buffers.data = {vec}
    PROVE  /\ Written(o, m).data = {Scatter(vec, m.bytes)}
           /\ CountOf(Written(o, m)) = Taken(vec, m.bytes, Len(vec))
           /\ IntoDataBuffers(o, Written(o, m)) = {After(vec, m.bytes)}
<1> DEFINE w == Written(o, m)
           v == Scatter(vec, m.bytes)
           n == Taken(vec, m.bytes, Len(vec))
<1>1. w.data = {v}
  BY DEF Written
<1>0. n \in Nat
  BY AfterIs
<1> HIDE DEF w
<1>2. Len(v) = Len(vec) /\ v \in Seq(Seq(Byte)) /\ SumTo(Lengths(v), Len(vec)) = n
  BY ScatterIs, CountIs
<1> HIDE DEF v, n
<1>3. CountOf(w) = n
  <2>1. The(w.data) = v /\ w.data # {}
    BY <1>1, TheIs
  <2>2. QED
    BY <1>2, <2>1 DEF CountOf, None
<1>4. IntoDataBuffers(o, w) = {IF o.kind = "Read" THEN <<IntoBytes(vec[1], v[1], n)>> ELSE VecIntoBytes(vec, v, n)}
  <2>1. IntoDataBuffers(o, w) = {IF o.kind = "Read" THEN <<IntoBytes(x[1], y[1], n)>> ELSE VecIntoBytes(x, y, n) :
                                     x \in {vec}, y \in {v}}
    BY <1>1, <1>3 DEF IntoDataBuffers
  <2>2. QED
    BY <2>1
<1>5. ASSUME o.kind = "Read" PROVE <<IntoBytes(vec[1], v[1], n)>> = VecIntoBytes(vec, v, n)
  <2>1. PICK b \in DataType : o.buffers = RecvMsgBuffers({<<b>>}, {})
    BY <1>5 DEF GoodOp
  <2>2. vec = <<b>>
    BY <2>1 DEF RecvMsgBuffers
  <2>3. Len(vec) = 1 /\ vec[1] = b /\ DOMAIN vec = 1 .. 1
    BY <2>2
  <2>4. SumTo(Chunks(vec), 1) = SumTo(Chunks(vec), 0) + ChunkOf(b)
    <3>1. 1 \in 1 .. Len(vec) /\ 1 - 1 = 0
      BY <2>3
    <3>2. SumTo(Chunks(vec), 1) = SumTo(Chunks(vec), 1 - 1) + ChunkOf(vec[1])
      BY <3>1, VecSums
    <3>3. QED
      BY <2>3, <3>1, <3>2
  <2>5. SumTo(Chunks(vec), 0) = 0 /\ ChunkOf(b) \in Nat /\ n \in Nat
    BY <1>0, SumToNothing, Room DEF DataType
  <2>6. Share(vec, n, 1) = MinOf(n, ChunkOf(b))
    <3>0. SumTo(Chunks(vec), 1) = ChunkOf(b)
      BY <2>4, <2>5
    <3>1. MinOf(n, 0) = 0 /\ MinOf(n, ChunkOf(b)) \in Nat /\ SumTo(Chunks(vec), 1) = ChunkOf(b) /\ 1 - 1 = 0
      BY <2>5, <3>0 DEF MinOf
    <3>2. Share(vec, n, 1) = MinOf(n, SumTo(Chunks(vec), 1)) - MinOf(n, SumTo(Chunks(vec), 0))
      BY <3>1 DEF Share
    <3>3. QED
      BY <2>5, <3>1, <3>2
  <2>7. VecIntoBytes(vec, v, n)[1] = IntoBytes(b, v[1], n)
    <3>0. \A i \in 1 .. Len(vec) :
             /\ VecIntoBytes(vec, v, n)[i] = Advance(vec[i], v[i], Share(vec, n, i))
             /\ Share(vec, n, i) \in 0 .. ChunkOf(vec[i])
             /\ VecIntoBytes(vec, v, n)[i].id = vec[i].id
      BY <1>0, <1>2, SpreadIs
    <3>1. \A i \in 1 .. Len(vec) : VecIntoBytes(vec, v, n)[i] = Advance(vec[i], v[i], Share(vec, n, i))
      BY <3>0, Zenon
    <3>2. 1 \in 1 .. Len(vec)
      BY <2>3
    <3>3. VecIntoBytes(vec, v, n)[1] = Advance(b, v[1], Share(vec, n, 1))
      BY <2>3, <3>1, <3>2, Zenon
    <3>4. QED
      BY <2>6, <3>3 DEF IntoBytes
  <2>8. VecIntoBytes(vec, v, n) \in Seq(DataType) /\ Len(VecIntoBytes(vec, v, n)) = 1
    <3>0. VecIntoBytes(vec, v, n) \in VecType /\ DOMAIN VecIntoBytes(vec, v, n) = 1 .. Len(vec)
      BY <1>0, <1>2, SpreadIs
    <3>1. VecIntoBytes(vec, v, n) \in VecType /\ DOMAIN VecIntoBytes(vec, v, n) = 1 .. 1
      BY <2>3, <3>0
    <3> DEFINE x == VecIntoBytes(vec, v, n)
    <3> HIDE DEF x
    <3>2. x \in Seq(DataType) /\ DOMAIN x = 1 .. 1
      BY <3>1 DEF VecType, x
    <3>3. Len(x) = 1
      BY <3>2
    <3>4. QED
      BY <3>2, <3>3 DEF x
  <2>9. QED
    <3> DEFINE x == VecIntoBytes(vec, v, n)
    <3> HIDE DEF x
    <3>1. x \in Seq(DataType) /\ Len(x) = 1 /\ x[1] = IntoBytes(vec[1], v[1], n)
      BY <2>3, <2>7, <2>8 DEF x
    <3>2. x = <<x[1]>>
      BY <3>1
    <3>3. QED
      BY <3>1, <3>2 DEF x
<1>6. IntoDataBuffers(o, w) = {VecIntoBytes(vec, v, n)}
  BY <1>4, <1>5, Zenon
<1>7. QED
  BY <1>1, <1>3, <1>6 DEF w, v, n, After

(* A receive without data buffers returns none. *)
LEMMA NoDataReturned ==
    ASSUME NEW o, NEW m, o.buffers.data = {}
    PROVE  /\ Written(o, m).data = {} /\ CountOf(Written(o, m)) = 0
           /\ IntoDataBuffers(o, Written(o, m)) = {}
<1>1. Written(o, m).data = {}
  BY DEF Written
<1>2. QED
  BY <1>1 DEF CountOf, IntoDataBuffers, None

(* The control buffer after a receive.                                      *)
ControlAfter(b, w) == IntoBytes(b, [i \in 1 .. SpareOf(b) |-> 0], MinOf(ControlLen(w), SpareOf(b)))

(* It is the control buffer of before. *)
LEMMA ControlReturned ==
    ASSUME NEW b \in ControlType, NEW w, ControlLen(w) \in Nat
    PROVE  ControlAfter(b, w) \in ControlType /\ ControlAfter(b, w).id = b.id
<1> DEFINE zeros == [i \in 1 .. SpareOf(b) |-> 0]
           k == MinOf(ControlLen(w), SpareOf(b))
<1>1. b \in BufferType /\ SpareOf(b) \in Nat /\ ChunkOf(b) \in Nat
  BY Room DEF ControlType
<1>2. zeros \in Seq(Byte)
  <2>1. zeros \in [1 .. SpareOf(b) -> Byte]
    BY DEF Byte
  <2>2. QED
    BY <1>1, <2>1
<1>3. k \in Nat
  BY <1>1 DEF MinOf
<1> HIDE DEF zeros, k
<1>4. MinOf(k, ChunkOf(b)) \in 0 .. ChunkOf(b)
  BY <1>1, <1>3 DEF MinOf
<1>5. /\ Advance(b, zeros, MinOf(k, ChunkOf(b))) \in BufferType
      /\ Advance(b, zeros, MinOf(k, ChunkOf(b))).id = b.id
  BY <1>1, <1>2, <1>4, AdvanceIs
<1>6. ControlAfter(b, w) = Advance(b, zeros, MinOf(k, ChunkOf(b)))
  BY Zenon DEF ControlAfter, IntoBytes, zeros, k
<1>7. QED
  BY <1>5, <1>6 DEF ControlType

(* The result of a receive returns the buffers of its operation. *)
LEMMA CompletionIs ==
    ASSUME NEW o, GoodOp(o), NEW m, IsMessage(m)
    PROVE  LET r == Completion(o, Written(o, m))
           IN  /\ r.kind = o.kind /\ r.bytes = CountOf(Written(o, m))
               /\ r.buffers = RecvMsgBuffers(IntoDataBuffers(o, Written(o, m)),
                                             {ControlAfter(b, Written(o, m)) : b \in o.buffers.control})
               /\ r.control = IF o.kind = "RecvMsg" THEN ParsedControl(Written(o, m)) ELSE {}
               /\ r.address = IF o.kind = "RecvMsg" THEN ParsedAddress(Written(o, m)) ELSE {}
               /\ r.buffers \in BuffersType /\ SameIds(r.buffers, o.buffers)
<1> DEFINE w == Written(o, m)
           r == Completion(o, w)
           C == {ControlAfter(b, w) : b \in o.buffers.control}
           D == IntoDataBuffers(o, w)
<1>1. /\ r.kind = o.kind /\ r.bytes = CountOf(w) /\ r.buffers = RecvMsgBuffers(D, C)
      /\ r.control = IF o.kind = "RecvMsg" THEN ParsedControl(w) ELSE {}
      /\ r.address = IF o.kind = "RecvMsg" THEN ParsedAddress(w) ELSE {}
  BY DEF Completion, ControlAfter, None
<1> HIDE DEF r
<1>2. o.buffers \in BuffersType /\ ControlLen(w) \in Nat /\ m.bytes \in Seq(Byte)
  BY ControlsWritten DEF GoodOp, IsMessage
<1>3. /\ C \subseteq ControlType /\ One(C) /\ (C = {}) = (o.buffers.control = {})
      /\ \A c \in C, b \in o.buffers.control : c.id = b.id
  <2> HIDE DEF w
  <2>1. CASE o.buffers.control = {}
    BY <2>1 DEF One
  <2>2. CASE o.buffers.control # {}
    <3>1. PICK b \in ControlType : o.buffers.control = {b}
      BY <1>2, <2>2, UseIs
    <3>2. C = {ControlAfter(b, w)}
      BY <3>1
    <3>3. ControlAfter(b, w) \in ControlType /\ ControlAfter(b, w).id = b.id
      BY <1>2, ControlReturned
    <3> HIDE DEF C
    <3>4. QED
      BY <3>1, <3>2, <3>3 DEF One
  <2>3. QED
    BY <2>1, <2>2
<1>4. /\ D \subseteq VecType /\ One(D) /\ (D = {}) = (o.buffers.data = {})
      /\ \A v \in D, u \in o.buffers.data : DOMAIN v = DOMAIN u /\ \A i \in DOMAIN v : v[i].id = u[i].id
  <2>1. CASE o.buffers.data = {}
    <3>1. D = {}
      BY <2>1, NoDataReturned
    <3>2. QED
      BY <2>1, <3>1 DEF One
  <2>2. CASE o.buffers.data # {}
    <3>1. PICK vec \in VecType : o.buffers.data = {vec}
      BY <1>2, <2>2, UseIs
    <3>2. D = {After(vec, m.bytes)}
      BY <1>2, <3>1, DataReturned
    <3>3. /\ After(vec, m.bytes) \in VecType /\ DOMAIN After(vec, m.bytes) = DOMAIN vec
          /\ \A i \in DOMAIN vec : After(vec, m.bytes)[i].id = vec[i].id
      BY <1>2, AfterIs
    <3> HIDE DEF D
    <3>4. QED
      BY <3>1, <3>2, <3>3 DEF One
  <2>3. QED
    BY <2>1, <2>2
<1> HIDE DEF C, D
<1>5. r.buffers \in BuffersType
  BY <1>1, <1>3, <1>4, BuffersAre
<1>6. SameIds(r.buffers, o.buffers)
  BY <1>1, <1>3, <1>4 DEF SameIds, RecvMsgBuffers
<1>7. QED
  BY <1>1, <1>5, <1>6 DEF r, C, D, w

-----------------------------------------------------------------------------
(* What the sender puts on its way.                                         *)
IsControls(messages) ==
    messages \in Seq(ToSet(messages)) /\ \A m \in ToSet(messages) : IsControlMessage(m)

IsData(s) ==
    \/ \E bytes \in Seq(Byte) : s = Single(bytes)
    \/ \E vec \in Seq(Seq(Byte)) : s = Multiple(vec)

IsDraft(d) ==
    /\ d = [data |-> d.data, control |-> d.control, address |-> d.address]
    /\ \A s \in d.data : IsData(s)
    /\ One(d.data) /\ One(d.control)
    /\ \A c \in d.control : IsControls(c)

(* The bytes of a message to send. *)
LEMMA InputType == ASSUME NEW s, IsData(s) PROVE InputBytes(s) \in Seq(Byte)
<1>1. BuffersOf(s) \in Seq(Seq(Byte))
  BY DEF IsData, Single, Multiple, BuffersOf
<1>2. QED
  BY <1>1, FlattenType DEF InputBytes

(* Every message that prepare makes is one that parse takes.                *)
LEMMA RawIs ==
    ASSUME NEW level, NEW type, NEW len, NEW value
    PROVE  /\ Raw(level, type, len, value).level = level /\ Raw(level, type, len, value).type = type
           /\ Raw(level, type, len, value).len = len /\ Raw(level, type, len, value).value = value
BY DEF Raw

(* Every control message that prepare accepts arrives as one that parse     *)
(* knows.                                                                   *)
LEMMA PreparedParses ==
    ASSUME NEW m, IsControlMessage(m), NEW raw \in Prepare(m)
    PROVE  IsRaw(Arriving(raw)) /\ Parse(Arriving(raw)) # {}
<1> DEFINE Good(r) == IsRaw(Arriving(r)) /\ Parse(Arriving(r)) # {}
<1>1. CASE m.level = "Socket"
  <2>1. m.kind \in {"Rights", "Credentials", "Timestamp", "DetailedTimestamp"} /\ raw \in PrepareSocket(m)
    BY <1>1 DEF IsControlMessage, Kinds, Prepare
  <2>2. CASE m.kind = "Rights"
    <3> DEFINE r == Raw("SOL_SOCKET", "SCM_RIGHTS", 4 * Len(m.value), m.value)
    <3>1. raw = r
      BY <2>1, <2>2 DEF PrepareSocket
    <3>2. m.value \in Seq(ToSet(m.value)) /\ Len(m.value) \in Nat /\ 4 * Len(m.value) \in Nat
          /\ (4 * Len(m.value)) % 4 = 0
      <4>1. m.value \in Seq(ToSet(m.value))
        BY <2>2 DEF IsControlMessage
      <4>2. Len(m.value) \in Nat
        BY <4>1
      <4>3. \A n \in Nat : (4 * n) % 4 = 0 /\ 4 * n \in Nat
        OBVIOUS
      <4>4. QED
        BY <4>1, <4>2, <4>3
    <3>3. r.level = "SOL_SOCKET" /\ r.type = "SCM_RIGHTS" /\ r.len = 4 * Len(m.value) /\ r.value = m.value
      BY RawIs
    <3>4. r = Raw(r.level, r.type, r.len, r.value)
      BY <3>3
    <3> HIDE DEF r
    <3>5. IsRaw(r) /\ Arriving(r) = r
      <4>1. r.len \in Nat /\ r.value \in Seq(ToSet(r.value)) /\ r.len = 4 * Len(r.value)
        BY <3>2, <3>3, Zenon
      <4>2. r.type = "SCM_RIGHTS" /\ r.type # "IP_PKTINFO" /\ r.type # "TLS_SET_RECORD_TYPE"
        BY <3>3
      <4>3. QED
        BY <3>4, <4>1, <4>2, Zenon DEF IsRaw, Arriving
    <3>6. IsMany(r, "SCM_RIGHTS")
      BY <3>2, <3>3 DEF IsMany, MemberSize
    <3>7. Parse(r) = ParseSocket(r)
      BY <3>3 DEF Parse
    <3>8. ParseSocket(r) # {}
      BY <3>3, <3>6 DEF ParseSocket, IsMany
    <3>9. QED
      BY <3>1, <3>5, <3>7, <3>8
  <2>3. CASE m.kind = "Credentials"
    <3> DEFINE r == Raw("SOL_SOCKET", "SCM_CREDENTIALS", 12, m.value)
    <3>1. raw = r
      BY <2>1, <2>3 DEF PrepareSocket
    <3>2. r.level = "SOL_SOCKET" /\ r.type = "SCM_CREDENTIALS" /\ r.len = 12 /\ r.value = m.value
      BY RawIs
    <3>3. r = Raw(r.level, r.type, r.len, r.value)
      BY <3>2
    <3> HIDE DEF r
    <3>4. IsRaw(r) /\ Arriving(r) = r
      BY <3>2, <3>3 DEF IsRaw, Arriving
    <3>5. IsOne(r, SocketSize)
      BY <3>2 DEF IsOne, SocketSize
    <3>6. Parse(r) = ParseSocket(r)
      BY <3>2 DEF Parse
    <3>7. ParseSocket(r) # {}
      BY <3>2, <3>5 DEF ParseSocket, IsMany
    <3>8. QED
      BY <3>1, <3>4, <3>6, <3>7
  <2>4. CASE m.kind = "Timestamp"
    <3> DEFINE r == Raw("SOL_SOCKET", "SCM_TIMESTAMP", 16, AsTimeval(m.value))
    <3>1. raw = r
      BY <2>1, <2>4 DEF PrepareSocket
    <3>2. r.level = "SOL_SOCKET" /\ r.type = "SCM_TIMESTAMP" /\ r.len = 16 /\ r.value = AsTimeval(m.value)
      BY RawIs
    <3>3. r = Raw(r.level, r.type, r.len, r.value)
      BY <3>2
    <3> HIDE DEF r
    <3>4. IsRaw(r) /\ Arriving(r) = r
      BY <3>2, <3>3 DEF IsRaw, Arriving
    <3>5. IsOne(r, SocketSize)
      BY <3>2 DEF IsOne, SocketSize
    <3>6. Parse(r) = ParseSocket(r)
      BY <3>2 DEF Parse
    <3>7. ParseSocket(r) # {}
      BY <3>2, <3>5 DEF ParseSocket, IsMany
    <3>8. QED
      BY <3>1, <3>4, <3>6, <3>7
  <2>5. CASE m.kind = "DetailedTimestamp"
    BY <2>1, <2>5 DEF PrepareSocket
  <2>6. QED
    BY <2>1, <2>2, <2>3, <2>4, <2>5
<1>2. CASE m.level = "IpV4"
  <2>1. m.kind \in {"PacketInfo", "TimeToLive"} /\ raw \in PrepareIpV4(m)
    BY <1>2 DEF IsControlMessage, Kinds, Prepare
  <2>2. CASE m.kind = "PacketInfo"
    <3>1. PICK info \in InPktInfo(m.value) : raw = Raw("IPPROTO_IP", "IP_PKTINFO", 12, info)
      BY <2>1, <2>2 DEF PrepareIpV4
    <3>2. DOMAIN info = DOMAIN m.value
      BY DEF InPktInfo
    <3>3. "destination" \in DOMAIN info
      BY <2>2, <3>2 DEF IsControlMessage
    <3>4. raw.level = "IPPROTO_IP" /\ raw.type = "IP_PKTINFO" /\ raw.len = 12 /\ raw.value = info
      BY <3>1, RawIs
    <3>5. IsRaw(raw) /\ Arriving(raw) = raw
      BY <3>1, <3>3, <3>4 DEF IsRaw, Arriving
    <3>6. IsOne(raw, IpV4Size)
      BY <3>4 DEF IsOne, IpV4Size
    <3>7. Parse(raw) = ParseIpV4(raw)
      BY <3>4 DEF Parse
    <3>8. ParseIpV4(raw) # {}
      BY <3>4, <3>6 DEF ParseIpV4
    <3>9. QED
      BY <3>5, <3>7, <3>8
  <2>3. CASE m.kind = "TimeToLive"
    <3>1. raw = Raw("IPPROTO_IP", "IP_TTL", 4, m.value)
      BY <2>1, <2>3 DEF PrepareIpV4
    <3>2. raw.level = "IPPROTO_IP" /\ raw.type = "IP_TTL" /\ raw.len = 4 /\ raw.value = m.value
      BY <3>1, RawIs
    <3>3. IsRaw(raw) /\ Arriving(raw) = raw
      BY <3>1, <3>2 DEF IsRaw, Arriving
    <3>4. IsOne(raw, IpV4Size)
      BY <3>2 DEF IsOne, IpV4Size
    <3>5. Parse(raw) = ParseIpV4(raw)
      BY <3>2 DEF Parse
    <3>6. ParseIpV4(raw) # {}
      BY <3>2, <3>4 DEF ParseIpV4
    <3>7. QED
      BY <3>3, <3>5, <3>6
  <2>4. QED
    BY <2>1, <2>2, <2>3
<1>3. CASE m.level = "IpV6"
  <2>1. m.kind \in {"PacketInfo", "HopLimit", "Class"} /\ raw \in PrepareIpV6(m)
    BY <1>3 DEF IsControlMessage, Kinds, Prepare
  <2>2. \E value : \/ raw = Raw("IPPROTO_IPV6", "IPV6_PKTINFO", 20, value)
                   \/ raw = Raw("IPPROTO_IPV6", "IPV6_HOPLIMIT", 4, value)
                   \/ raw = Raw("IPPROTO_IPV6", "IPV6_TCLASS", 4, value)
    BY <2>1 DEF PrepareIpV6
  <2>3. /\ raw = Raw(raw.level, raw.type, raw.len, raw.value) /\ raw.level = "IPPROTO_IPV6"
        /\ \/ raw.type = "IPV6_PKTINFO" /\ raw.len = 20
           \/ raw.type = "IPV6_HOPLIMIT" /\ raw.len = 4
           \/ raw.type = "IPV6_TCLASS" /\ raw.len = 4
    BY <2>2, RawIs
  <2>4. IsRaw(raw) /\ Arriving(raw) = raw
    BY <2>3 DEF IsRaw, Arriving
  <2>5. IsOne(raw, IpV6Size)
    BY <2>3 DEF IsOne, IpV6Size
  <2>6. Parse(raw) = ParseIpV6(raw)
    BY <2>3 DEF Parse
  <2>7. ParseIpV6(raw) # {}
    BY <2>3, <2>5 DEF ParseIpV6
  <2>8. QED
    BY <2>4, <2>6, <2>7
<1>4. CASE m.level = "Tls"
  <2>1. raw = Raw("SOL_TLS", "TLS_SET_RECORD_TYPE", 1, m.value)
    BY <1>4 DEF Prepare, PrepareTls
  <2>2. raw = [level |-> "SOL_TLS", type |-> "TLS_SET_RECORD_TYPE", len |-> 1, value |-> m.value]
    BY <2>1 DEF Raw
  <2> DEFINE r == Arriving(raw)
  <2>3. r = [level |-> "SOL_TLS", type |-> "TLS_GET_RECORD_TYPE", len |-> 1, value |-> m.value]
    BY <2>2 DEF Arriving
  <2> HIDE DEF r
  <2>4. r.level = "SOL_TLS" /\ r.type = "TLS_GET_RECORD_TYPE" /\ r.len = 1
        /\ r = Raw(r.level, r.type, r.len, r.value)
    BY <2>3 DEF Raw
  <2>5. IsRaw(r)
    BY <2>4 DEF IsRaw
  <2>6. IsOne(r, TlsSize)
    BY <2>4 DEF IsOne, TlsSize
  <2>7. Parse(r) = ParseTls(r)
    BY <2>4 DEF Parse
  <2>8. ParseTls(r) # {}
    BY <2>6 DEF ParseTls
  <2>9. QED
    BY <2>5, <2>7, <2>8 DEF r
<1>5. QED
  BY <1>1, <1>2, <1>3, <1>4 DEF IsControlMessage, Kinds

Sent(raws) ==
    /\ raws \in Seq(ToSet(raws))
    /\ \A raw \in ToSet(raws) : IsRaw(raw) /\ Parse(raw) # {}

Arrived(raws) == [i \in DOMAIN raws |-> Arriving(raws[i])]

(* A message with no control messages. *)
LEMMA NothingSent == Sent(Arrived(<<>>))
BY DEF Sent, Arrived, ToSet

(* All the control messages of a message that was not refused arrive as     *)
(* ones that parse knows.                                                   *)
LEMMA ControlsPrepared ==
    ASSUME NEW messages, IsControls(messages), PrepareMulti(messages) # {}
    PROVE  Sent(Arrived(The(PrepareMulti(messages))))
<1> DEFINE raws == [i \in DOMAIN messages |-> CHOOSE raw \in Prepare(messages[i]) : TRUE]
           arrived == Arrived(raws)
<1>1. /\ PrepareMulti(messages) = {raws} /\ \A i \in DOMAIN messages : Prepare(messages[i]) # {}
  BY Zenon DEF PrepareMulti
<1>2. \A i \in DOMAIN messages : raws[i] \in Prepare(messages[i])
  BY <1>1, Zenon
<1>3. Len(messages) \in Nat /\ DOMAIN messages = 1 .. Len(messages)
  BY DEF IsControls
<1>4. ASSUME NEW i \in DOMAIN messages PROVE IsControlMessage(messages[i])
  BY DEF IsControls, ToSet
<1>5. DOMAIN raws = DOMAIN messages
  OBVIOUS
<1>6. The({raws}) = raws
  BY TheIs
<1> HIDE DEF raws
<1>7. arrived = [i \in 1 .. Len(messages) |-> Arriving(raws[i])]
  BY <1>3, <1>5, Zenon DEF Arrived
<1>8. \A i \in 1 .. Len(messages) :
         arrived[i] = Arriving(raws[i]) /\ IsRaw(arrived[i]) /\ Parse(arrived[i]) # {}
  <2> SUFFICES ASSUME NEW i \in 1 .. Len(messages)
               PROVE  arrived[i] = Arriving(raws[i]) /\ IsRaw(arrived[i]) /\ Parse(arrived[i]) # {}
    OBVIOUS
  <2>1. arrived[i] = Arriving(raws[i])
    BY <1>7, Zenon
  <2>2. IsRaw(Arriving(raws[i])) /\ Parse(Arriving(raws[i])) # {}
    BY <1>2, <1>3, <1>4, PreparedParses
  <2>3. QED
    BY <2>1, <2>2
<1>9. DOMAIN arrived = 1 .. Len(messages)
  BY <1>7, Zenon
<1> HIDE DEF arrived
<1>10. arrived = [i \in 1 .. Len(messages) |-> arrived[i]]
  BY <1>7, <1>8, Zenon
<1>11. \A i \in 1 .. Len(messages) : arrived[i] \in ToSet(arrived)
  BY <1>9, Zenon DEF ToSet
<1>12. arrived \in Seq(ToSet(arrived))
  BY <1>3, <1>10, <1>11, SeqIs
<1>13. \A raw \in ToSet(arrived) : IsRaw(raw) /\ Parse(raw) # {}
  BY <1>8, <1>9, Zenon DEF ToSet
<1>14. Sent(arrived)
  BY <1>12, <1>13 DEF Sent
<1>15. QED
  BY <1>1, <1>6, <1>14 DEF arrived

(* So do those of a whole IoSendMessage. *)
LEMMA PreparedIs ==
    ASSUME NEW d, IsDraft(d), RefusedMessage(d) = None
    PROVE  PreparedMessage(d).bytes \in Seq(Byte) /\ Sent(Arrived(PreparedMessage(d).raws))
<1>1. PreparedMessage(d).bytes \in Seq(Byte)
  <2>1. CASE d.data = {}
    BY <2>1 DEF PreparedMessage, None
  <2>2. CASE d.data # {}
    <3>1. PICK s \in d.data : The(d.data) = s
      BY <2>2, OneIs DEF IsDraft
    <3>2. InputBytes(s) \in Seq(Byte)
      BY InputType DEF IsDraft
    <3>3. PreparedMessage(d).bytes = InputBytes(s)
      BY <2>2, <3>1 DEF PreparedMessage, None
    <3>4. QED
      BY <3>2, <3>3
  <2>3. QED
    BY <2>1, <2>2
<1>2. Sent(Arrived(PreparedMessage(d).raws))
  <2>1. CASE d.control = {}
    <3>1. PreparedMessage(d).raws = <<>>
      BY <2>1 DEF PreparedMessage, None
    <3>2. QED
      BY <3>1, NothingSent
  <2>2. CASE d.control # {}
    <3>1. PICK c \in d.control : The(d.control) = c
      BY <2>2, OneIs DEF IsDraft
    <3>2. PrepareMulti(c) # {}
      BY Zenon DEF RefusedMessage, Some, None
    <3>3. Sent(Arrived(The(PrepareMulti(c))))
      BY <3>2, ControlsPrepared DEF IsDraft
    <3>4. PreparedMessage(d).raws = The(PrepareMulti(c))
      BY <2>2, <3>1 DEF PreparedMessage, None
    <3>5. QED
      BY <3>3, <3>4
  <2>3. QED
    BY <2>1, <2>2
<1>3. QED
  BY <1>1, <1>2

IsQueue == queue \in Seq(ToSet(queue)) /\ \A m \in ToSet(queue) : IsMessage(m)

(* The messages the kernel adds for a socket. *)
LEMMA SocketAdds ==
    ASSUME NEW s \in Sockets
    PROVE  s.adds \in Seq(ToSet(s.adds)) /\ \A raw \in ToSet(s.adds) : IsRaw(raw)
<1>1. IsSocket(s)
  BY SocketsAssumption, SMTT(30)
<1>2. QED
  BY <1>1, SMTT(30) DEF IsSocket

(* A message put on its way through one of the sockets. *)
LEMMA MessageIs ==
    ASSUME NEW bytes \in Seq(Byte), NEW raws, Sent(raws), NEW s \in Sockets
    PROVE  IsMessage([bytes |-> bytes, raws |-> raws \o s.adds, socket |-> s,
                      name |-> UNION {NameOf(text) : text \in s.own}])
<1> DEFINE names == UNION {NameOf(text) : text \in s.own}
           m == [bytes |-> bytes, raws |-> raws \o s.adds, socket |-> s, name |-> names]
           T == ToSet(raws) \cup ToSet(s.adds)
<1> HIDE DEF names
<1>1. m.bytes = bytes /\ m.raws = raws \o s.adds /\ m.socket = s /\ m.name = names
  BY Zenon
<1> HIDE DEF m
<1>2. raws \in Seq(ToSet(raws)) /\ s.adds \in Seq(ToSet(s.adds)) /\ \A raw \in ToSet(s.adds) : IsRaw(raw)
  <2>1. s.adds \in Seq(ToSet(s.adds)) /\ \A raw \in ToSet(s.adds) : IsRaw(raw)
    BY SocketAdds
  <2>2. QED
    BY <2>1 DEF Sent
<1>3. raws \in Seq(T) /\ s.adds \in Seq(T)
  <2>1. ToSet(raws) \subseteq T /\ ToSet(s.adds) \subseteq T
    OBVIOUS
  <2> HIDE DEF T
  <2>2. QED
    BY <1>2, <2>1, SeqOfMore
<1>4. raws \o s.adds \in Seq(T) /\ ToSet(raws \o s.adds) = T
  BY <1>3, ConcatElements
<1>5. \A raw \in T : IsRaw(raw) /\ (raw \in ToSet(s.adds) \/ Parse(raw) # {})
  BY <1>2 DEF Sent
<1> HIDE DEF T
<1>6. IsMessage(m)
  BY <1>1, <1>4, <1>5 DEF IsMessage, names
<1>7. QED
  BY <1>6 DEF m, names

(* Sending keeps the queue's messages sound. *)
LEMMA PutKeeps ==
    ASSUME IsQueue, NEW bytes \in Seq(Byte), NEW raws, Sent(Arrived(raws)), Put(bytes, raws)
    PROVE  IsQueue'
<1>1. PICK s \in Sockets : queue' = Append(queue, [bytes |-> bytes, raws |-> Arrived(raws) \o s.adds, socket |-> s,
                                                   name |-> UNION {NameOf(text) : text \in s.own}])
  BY Zenon DEF Put, Arrived
<1> DEFINE m == [bytes |-> bytes, raws |-> Arrived(raws) \o s.adds, socket |-> s,
                 name |-> UNION {NameOf(text) : text \in s.own}]
           T == ToSet(queue) \cup {m}
<1>2. IsMessage(m)
  BY MessageIs
<1> HIDE DEF m
<1>3. queue \in Seq(T) /\ m \in T
  <2>1. ToSet(queue) \subseteq T /\ m \in T
    OBVIOUS
  <2> HIDE DEF T
  <2>2. QED
    BY <2>1, SeqOfMore DEF IsQueue
<1>4. Append(queue, m) \in Seq(T) /\ ToSet(Append(queue, m)) = T
  <2> HIDE DEF T
  <2>1. Append(queue, m) \in Seq(T) /\ ToSet(Append(queue, m)) = ToSet(queue) \cup {m}
    BY <1>3, AppendElements
  <2>2. QED
    BY <2>1 DEF T
<1>5. \A x \in T : IsMessage(x)
  BY <1>2 DEF IsQueue
<1> HIDE DEF T
<1>6. queue' \in Seq(ToSet(queue')) /\ \A x \in ToSet(queue') : IsMessage(x)
  BY <1>1, <1>4, <1>5 DEF m
<1>7. QED
  BY <1>6 DEF IsQueue

(* So does receiving, and what is received is one of them. *)
LEMMA TakeKeeps ==
    ASSUME IsQueue, queue # <<>>, queue' = Tail(queue)
    PROVE  IsQueue' /\ IsMessage(Head(queue))
<1> DEFINE T == ToSet(queue)
<1>1. queue \in Seq(T)
  BY DEF IsQueue
<1> HIDE DEF T
<1>2. Head(queue) \in T /\ Tail(queue) \in Seq(T)
  BY <1>1, TailElements
<1>3. Tail(queue) \in Seq(ToSet(Tail(queue))) /\ ToSet(Tail(queue)) \subseteq T
  BY <1>2, SeqOfOwn, ElementsIn
<1>4. QED
  BY <1>2, <1>3 DEF IsQueue, T

-----------------------------------------------------------------------------
(* The parties that hold the buffers.                                       *)
HandOf(ops, results, errors) ==
    (UNION {InUse(o.buffers) : o \in ops}) \cup (UNION {InUse(g.result.buffers) : g \in results})
        \cup (UNION {InUse(e.buffers) : e \in errors})

LostIds(S) == {l[1] : l \in S}
Reasons == {"dropped", "InvalidIoVec", "into_bytes_mut", "into_vec", "into_recvmsg_buffers"}

GoodGot(g) ==
    /\ GoodOp(g.of) /\ IsMessage(g.message)
    /\ g.written = Written(g.of, g.message) /\ g.result = Completion(g.of, g.written)

Parties ==
    /\ One(op) /\ One(got) /\ One(err)
    /\ \A o \in op : GoodLent(o)
    /\ \A g \in got : GoodGot(g)
    /\ \A e \in err : GoodErr(e)
    /\ op = {} \/ (got = {} /\ err = {})
    /\ got = {} \/ err = {}

(* Three sets of identities, of those held, in hand and lost, are all there *)
(* are and do not overlap.                                                  *)
Split(H, B, L) ==
    /\ H \cup B \cup L = Ids(All)
    /\ H \cap B = {} /\ H \cap L = {} /\ B \cap L = {}

Accounts ==
    /\ held \subseteq BufferType /\ IsFiniteSet(held) /\ Apart(held)
    /\ Split(Ids(held), Ids(HandOf(op, got, err)), LostIds(lost))
    /\ \A l \in lost : l[2] \in Reasons

MInv == IsQueue /\ IsDraft(draft) /\ Parties /\ Accounts

(* The buffers in hand, where one party has them. *)
LEMMA HandIs ==
    /\ HandOf({}, {}, {}) = {}
    /\ \A o : HandOf({o}, {}, {}) = InUse(o.buffers)
    /\ \A g : HandOf({}, {g}, {}) = InUse(g.result.buffers)
    /\ \A e : HandOf({}, {}, {e}) = InUse(e.buffers)
BY DEF HandOf

(* The identities of buffers put together. *)
LEMMA IdsOfUnion ==
    ASSUME NEW S, NEW T
    PROVE  Ids(S \cup T) = Ids(S) \cup Ids(T) /\ Ids({}) = {}
BY DEF Ids

(* The identities of buffers of which some were taken away. *)
LEMMA IdsOfRest ==
    ASSUME NEW S, NEW T \in SUBSET S, Apart(S)
    PROVE  Ids(S \ T) = Ids(S) \ Ids(T) /\ Ids(T) \subseteq Ids(S)
BY DEF Ids, Apart

(* Buffers put together that have no identity in common. *)
LEMMA ApartUnion ==
    ASSUME NEW S, NEW T, Apart(S), Apart(T), Ids(S) \cap Ids(T) = {}
    PROVE  Apart(S \cup T)
BY DEF Ids, Apart

LostOf(Z, how) == {<<b.id, how>> : b \in Z}

(* More buffers lost. *)
LEMMA LostMore ==
    ASSUME NEW S, NEW Z, NEW how
    PROVE  /\ LostIds(S \cup LostOf(Z, how)) = LostIds(S) \cup Ids(Z)
           /\ (\A l \in S : l[2] \in Reasons) /\ how \in Reasons =>
                  \A l \in S \cup LostOf(Z, how) : l[2] \in Reasons
<1> DEFINE N == LostOf(Z, how)
<1>1. ASSUME NEW l \in N PROVE l[2] = how /\ l[1] \in Ids(Z)
  <2>1. PICK b \in Z : l = <<b.id, how>>
    BY DEF LostOf
  <2>2. l[1] = b.id /\ l[2] = how
    BY <2>1
  <2>3. QED
    BY <2>2 DEF Ids
<1>2. ASSUME NEW id \in Ids(Z) PROVE \E l \in N : l[1] = id
  <2>1. PICK b \in Z : b.id = id
    BY DEF Ids
  <2>2. <<b.id, how>> \in N /\ <<b.id, how>>[1] = id
    BY <2>1 DEF LostOf
  <2>3. QED
    BY <2>2
<1> HIDE DEF N
<1>3. LostIds(S \cup N) = LostIds(S) \cup Ids(Z)
  BY <1>1, <1>2 DEF LostIds
<1>4. QED
  BY <1>1, <1>3 DEF N

(* A buffer cleared. *)
LEMMA Empty ==
    ASSUME NEW b \in BufferType
    PROVE  [b EXCEPT !.bytes = <<>>] \in BufferType /\ [b EXCEPT !.bytes = <<>>].id = b.id
<1>1. /\ b = [id |-> b.id, cap |-> b.cap, bytes |-> b.bytes] /\ b.id \in Ids(All) /\ b.cap \in Nat
  BY DEF BufferType
<1>2. [b EXCEPT !.bytes = <<>>] = [id |-> b.id, cap |-> b.cap, bytes |-> <<>>]
  BY <1>1
<1>3. <<>> \in Seq(Cell) /\ Len(<<>>) = 0
  OBVIOUS
<1> DEFINE c == [id |-> b.id, cap |-> b.cap, bytes |-> <<>>]
<1>4. c \in [id : Ids(All), cap : Nat, bytes : Seq(Cell)] /\ c.id = b.id /\ c.cap = b.cap /\ c.bytes = <<>>
  BY <1>1, <1>3
<1> HIDE DEF c
<1>5. c \in BufferType
  BY <1>1, <1>3, <1>4 DEF BufferType
<1>6. QED
  BY <1>2, <1>4, <1>5 DEF c

(* Buffers cleared, of the same identities. *)
LEMMA EmptiedIs ==
    ASSUME NEW S \in SUBSET BufferType, IsFiniteSet(S), Apart(S)
    PROVE  /\ Emptied(S) \subseteq BufferType /\ IsFiniteSet(Emptied(S)) /\ Apart(Emptied(S))
           /\ Ids(Emptied(S)) = Ids(S)
<1> DEFINE F(b) == [b EXCEPT !.bytes = <<>>]
<1>1. Emptied(S) = {F(b) : b \in S}
  BY DEF Emptied
<1>2. \A b \in S : F(b) \in BufferType /\ F(b).id = b.id
  BY Empty
<1> HIDE DEF F
<1>3. IsFiniteSet({F(b) : b \in S})
  <2> DEFINE f == [b \in S |-> F(b)]
  <2>1. f \in Surjection(S, {F(b) : b \in S})
    BY DEF Surjection
  <2>2. QED
    BY <2>1, FS_Surjection
<1>4. Apart({F(b) : b \in S})
  <2> SUFFICES ASSUME NEW b \in S, NEW c \in S, F(b).id = F(c).id PROVE F(b) = F(c)
    BY Zenon DEF Apart
  <2>1. b = c
    BY <1>2 DEF Apart
  <2>2. QED
    BY <2>1
<1>5. Ids({F(b) : b \in S}) = Ids(S)
  BY <1>2 DEF Ids
<1>6. QED
  BY <1>1, <1>2, <1>3, <1>4, <1>5

-----------------------------------------------------------------------------
(* The receiver's steps.                                                    *)
LEMMA LendKeeps ==
    ASSUME Parties, Accounts, NEW kind, NEW bufs, NEW refused, LendSound(kind, bufs, refused),
           InUse(bufs) \subseteq held, Lend(kind, bufs, refused)
    PROVE  Parties' /\ Accounts'
<1> DEFINE S == InUse(bufs)
           o == Pending(Operation(kind, bufs))
<1>1. op = {} /\ got = {} /\ err = {} /\ lost = {} /\ got' = {} /\ held' = held \ S
  BY Zenon DEF Lend, Idle, None
<1>2. bufs \in BuffersType /\ S \in SUBSET held
  BY DEF LendSound
<1>3. held \subseteq BufferType /\ IsFiniteSet(held) /\ Apart(held)
  BY DEF Accounts
<1>4. Ids(held) = Ids(All) /\ LostIds({}) = {} /\ Ids({}) = {}
  <2>0. HandOf({}, {}, {}) = {}
    BY HandIs
  <2>1. HandOf(op, got, err) = {} /\ Ids({}) = {} /\ LostIds({}) = {}
    BY <1>1, <2>0 DEF Ids, LostIds
  <2>2. Ids(held) \cup Ids(HandOf(op, got, err)) \cup LostIds(lost) = Ids(All)
    BY Zenon DEF Accounts, Split
  <2>3. QED
    BY <1>1, <2>1, <2>2
<1> HIDE DEF S
<1>5. /\ held' \subseteq BufferType /\ IsFiniteSet(held') /\ Apart(held')
      /\ Ids(held') = Ids(held) \ Ids(S) /\ Ids(S) \subseteq Ids(held)
  <2>1. IsFiniteSet(held \ S)
    BY <1>3, FS_Subset
  <2>2. Apart(held \ S)
    BY <1>3 DEF Apart
  <2>3. Ids(held \ S) = Ids(held) \ Ids(S) /\ Ids(S) \subseteq Ids(held)
    BY <1>2, <1>3, IdsOfRest
  <2>4. QED
    BY <1>1, <1>3, <2>1, <2>2, <2>3
<1>6. CASE refused = {}
  <2>1. op' = {o} /\ err' = {} /\ lost' = {}
    <3>1. op' = {o} /\ err' = {}
      BY <1>1, <1>6, Zenon DEF Lend, None, Some
    <3>2. lost' = lost \cup UNION {{<<b.id, e.holder>> : b \in InUse(bufs) \ InUse(e.buffers)} : e \in {}}
      BY <1>6, Zenon DEF Lend
    <3>3. QED
      BY <1>1, <3>1, <3>2
  <2>2. GoodLent(o) /\ SameIds(o.buffers, bufs)
    BY <1>6 DEF LendSound
  <2> HIDE DEF o
  <2>3. Parties'
    BY <1>1, <2>1, <2>2 DEF Parties, One
  <2>4. HandOf(op, got, err)' = InUse(o.buffers) /\ Ids(InUse(o.buffers)) = Ids(S)
    BY <1>1, <2>1, <2>2, HandIs, IdsKept DEF S
  <2>5. Split(Ids(held'), Ids(S), {})
    BY <1>4, <1>5 DEF Split
  <2>6. Split(Ids(held)', Ids(HandOf(op, got, err))', LostIds(lost)')
    BY <1>4, <2>1, <2>4, <2>5
  <2>7. QED
    BY <1>5, <2>1, <2>3, <2>6 DEF Accounts
<1>7. CASE refused # {}
  <2>1. PICK e : /\ refused = {e} /\ GoodErr(e)
                 /\ e.buffers = bufs \/ (e.holder = "InvalidIoVec" /\ e.buffers = NoBuffers)
    BY <1>7 DEF LendSound
  <2>2. err' = {e} /\ op' = {}
    BY <1>1, <1>7, <2>1, Zenon DEF Lend, None
  <2> DEFINE Z == S \ InUse(e.buffers)
             N == LostOf(Z, e.holder)
  <2>3. lost' = lost \cup N
    <3>1. lost' = lost \cup UNION {{<<b.id, x.holder>> : b \in S \ InUse(x.buffers)} : x \in {e}}
      BY <2>1, Zenon DEF Lend, S
    <3>2. UNION {{<<b.id, x.holder>> : b \in S \ InUse(x.buffers)} : x \in {e}} = N
      BY DEF LostOf
    <3>3. QED
      BY <3>1, <3>2, Zenon
  <2>4. Parties'
    BY <1>1, <2>1, <2>2 DEF Parties, One
  <2>5. HandOf(op, got, err)' = InUse(e.buffers)
    BY <1>1, <2>2, HandIs
  <2>6. /\ LostIds(lost') = Ids(Z)
        /\ e.holder \in Reasons => \A l \in lost' : l[2] \in Reasons
    <3> HIDE DEF Z
    <3>1. /\ LostIds(lost \cup N) = LostIds(lost) \cup Ids(Z)
          /\ (\A l \in lost : l[2] \in Reasons) /\ e.holder \in Reasons => \A l \in lost \cup N : l[2] \in Reasons
      BY LostMore
    <3> HIDE DEF N
    <3>2. LostIds(lost) = {} /\ \A l \in lost : l[2] \in Reasons
      BY <1>1, <1>4
    <3>3. QED
      BY <2>3, <3>1, <3>2
  <2>7. CASE e.buffers = bufs
    <3>1. Z = {}
      BY <2>7 DEF S
    <3>2. lost' = {} /\ LostIds(lost') = {}
      <4>1. LostOf({}, e.holder) = {}
        BY DEF LostOf
      <4>2. N = {}
        BY <3>1, <4>1, Zenon
      <4> HIDE DEF N
      <4>3. QED
        BY <1>1, <1>4, <2>3, <4>2
    <3>3. Split(Ids(held'), Ids(S), {})
      BY <1>4, <1>5 DEF Split
    <3>4. Split(Ids(held)', Ids(HandOf(op, got, err))', LostIds(lost)')
      BY <2>5, <2>7, <3>2, <3>3 DEF S
    <3>5. QED
      BY <1>5, <2>4, <3>2, <3>4 DEF Accounts
  <2>8. CASE e.holder = "InvalidIoVec" /\ e.buffers = NoBuffers
    <3>1. InUse(e.buffers) = {}
      BY <2>8, NothingIsBuffers DEF InUse
    <3>2. Z = S
      BY <3>1
    <3> HIDE DEF Z
    <3>3. Split(Ids(held'), {}, Ids(S))
      BY <1>4, <1>5 DEF Split
    <3>4. Split(Ids(held)', Ids(HandOf(op, got, err))', LostIds(lost)')
      BY <1>4, <2>5, <2>6, <3>1, <3>2, <3>3
    <3>5. \A l \in lost' : l[2] \in Reasons
      <4>1. e.holder \in Reasons
        BY <2>8 DEF Reasons
      <4>2. QED
        BY <2>6, <4>1
    <3>6. QED
      BY <1>5, <2>4, <3>4, <3>5 DEF Accounts
  <2>9. QED
    BY <2>1, <2>7, <2>8
<1>8. QED
  BY <1>6, <1>7

(* The buffers go on to another hand.                                       *)
LEMMA HandedOn ==
    ASSUME Accounts, held' = held, lost' = lost,
           Ids(HandOf(op, got, err)') = Ids(HandOf(op, got, err))
    PROVE  Accounts'
BY DEF Accounts

(* An operation under way has the buffers alone. *)
LEMMA OpIsOne ==
    ASSUME Parties, NEW o \in op
    PROVE  op = {o} /\ got = {} /\ err = {} /\ GoodLent(o) /\ HandOf(op, got, err) = InUse(o.buffers)
<1>1. op = {o} /\ got = {} /\ err = {} /\ GoodLent(o)
  BY DEF Parties, One
<1>2. QED
  BY <1>1, HandIs

(* So has a result. *)
LEMMA GotIsOne ==
    ASSUME Parties, NEW g \in got
    PROVE  op = {} /\ got = {g} /\ err = {} /\ GoodGot(g) /\ HandOf(op, got, err) = InUse(g.result.buffers)
<1>1. op = {} /\ got = {g} /\ err = {} /\ GoodGot(g)
  BY DEF Parties, One
<1>2. QED
  BY <1>1, HandIs

(* And an error. *)
LEMMA ErrIsOne ==
    ASSUME Parties, NEW e \in err
    PROVE  op = {} /\ got = {} /\ err = {e} /\ GoodErr(e) /\ HandOf(op, got, err) = InUse(e.buffers)
<1>1. op = {} /\ got = {} /\ err = {e} /\ GoodErr(e)
  BY DEF Parties, One
<1>2. QED
  BY <1>1, HandIs

(* The error of an operation that failed holds its buffers. *)
LEMMA FailureIsGood ==
    ASSUME NEW o, o.kind \in {"Read", "Readv", "RecvMsg"}, o.buffers \in BuffersType,
           o.kind # "RecvMsg" => o.buffers.control = {}, NEW holder \in {"Operation", "Failure"}
    PROVE  GoodErr(Error(holder, o.kind, o.buffers)) /\ Error(holder, o.kind, o.buffers).buffers = o.buffers
<1> DEFINE e == Error(holder, o.kind, o.buffers)
<1>1. e.holder = holder /\ e.kind = o.kind /\ e.buffers = o.buffers /\ e = Error(e.holder, e.kind, e.buffers)
  BY DEF Error
<1> HIDE DEF e
<1>2. <<holder, o.kind>> \in BytesMutHolders \cup VecHolders \cup RecvMsgHolders
  BY DEF BytesMutHolders, VecHolders, RecvMsgHolders, ControlHolders
<1>3. GoodErr(e)
  BY <1>1, <1>2 DEF GoodErr
<1>4. QED
  BY <1>1, <1>3 DEF e

(* What a good operation has of a control buffer. *)
LEMMA ControlIs == ASSUME NEW o, GoodOp(o), o.kind # "RecvMsg" PROVE o.buffers.control = {}
<1>1. ASSUME o.kind = "Read" PROVE o.buffers.control = {}
  <2>1. PICK b : o.buffers = RecvMsgBuffers({<<b>>}, {})
    BY <1>1, Zenon DEF GoodOp
  <2>2. QED
    BY <2>1 DEF RecvMsgBuffers
<1>2. ASSUME o.kind = "Readv" PROVE o.buffers.control = {}
  BY <1>2, Zenon DEF GoodOp
<1>3. QED
  BY <1>1, <1>2 DEF GoodOp

(* An operation fails, before it is submitted or after: its buffers are the *)
(* error's.                                                                 *)
LEMMA FailsKeeps ==
    ASSUME Parties, Accounts, NEW holder \in {"Operation", "Failure"}, NEW o \in op,
           NEW p, p = o \/ p = Submitted(o), err' = {Error(holder, p.kind, p.buffers)},
           op' = {}, got' = got, held' = held, lost' = lost
    PROVE  Parties' /\ Accounts'
<1> DEFINE e == Error(holder, p.kind, p.buffers)
<1>1. got = {} /\ GoodLent(o) /\ HandOf(op, got, err) = InUse(o.buffers)
  BY OpIsOne
<1>2. /\ p.kind \in {"Read", "Readv", "RecvMsg"} /\ p.buffers \in BuffersType
      /\ p.kind # "RecvMsg" => p.buffers.control = {}
      /\ Ids(InUse(p.buffers)) = Ids(InUse(o.buffers))
  <2>1. CASE p = o
    BY <1>1, <2>1 DEF GoodLent
  <2>2. CASE p = Submitted(o)
    <3>1. GoodOp(p) /\ SameIds(p.buffers, o.buffers)
      BY <1>1, <2>2 DEF GoodLent
    <3>2. p.kind \in {"Read", "Readv", "RecvMsg"} /\ p.buffers \in BuffersType
      BY <3>1 DEF GoodOp
    <3>3. QED
      BY <3>1, <3>2, ControlIs, IdsKept
  <2>3. QED
    BY <2>1, <2>2
<1>3. GoodErr(e) /\ e.buffers = p.buffers
  BY <1>2, FailureIsGood
<1> HIDE DEF e
<1>4. err' = {e}
  BY DEF e
<1>5. Parties'
  BY <1>1, <1>3, <1>4 DEF Parties, One
<1>6. HandOf(op, got, err)' = InUse(p.buffers)
  BY <1>1, <1>3, <1>4, HandIs
<1>7. QED
  BY <1>1, <1>2, <1>5, <1>6, HandedOn

(* An operation completes: its buffers are the result's. *)
LEMMA CompleteKeeps ==
    ASSUME MInv, Complete
    PROVE  IsQueue' /\ Parties' /\ Accounts'
<1>1. PICK p \in op : \E o \in {Submitted(p)} :
        got' = {[result |-> Completion(o, Written(o, Head(queue))), of |-> o,
                 message |-> Head(queue), written |-> Written(o, Head(queue))]}
  BY DEF Complete, Some
<1> DEFINE o == Submitted(p)
<1>2. queue # <<>> /\ queue' = Tail(queue) /\ op' = {} /\ held' = held /\ err' = err /\ lost' = lost
  BY DEF Complete, None
<1>3. IsQueue /\ Parties /\ Accounts
  BY DEF MInv
<1>4. IsQueue' /\ IsMessage(Head(queue))
  BY <1>2, <1>3, TakeKeeps
<1>5. /\ got = {} /\ err = {} /\ GoodOp(o) /\ SameIds(o.buffers, p.buffers)
      /\ HandOf(op, got, err) = InUse(p.buffers)
  BY <1>3, OpIsOne DEF GoodLent
<1>0. got' = {[result |-> Completion(o, Written(o, Head(queue))), of |-> o,
               message |-> Head(queue), written |-> Written(o, Head(queue))]}
  BY <1>1
<1> HIDE DEF o
<1> DEFINE m == Head(queue)
           w == Written(o, m)
           r == Completion(o, w)
           g == [result |-> r, of |-> o, message |-> m, written |-> w]
<1> HIDE DEF m
<1>6. SameIds(r.buffers, o.buffers)
  BY <1>4, <1>5, CompletionIs DEF m
<1> HIDE DEF w, r
<1>7. g.result = r /\ g.of = o /\ g.message = m /\ g.written = w
  OBVIOUS
<1>8. got' = {g}
  BY <1>0 DEF m, w, r
<1> HIDE DEF g
<1>9. GoodGot(g)
  BY <1>4, <1>5, <1>7 DEF GoodGot, m, w, r
<1>10. Parties'
  BY <1>2, <1>5, <1>8, <1>9 DEF Parties, One
<1>11. HandOf(op, got, err)' = InUse(r.buffers)
  BY <1>2, <1>5, <1>7, <1>8, HandIs
<1>12. Ids(InUse(r.buffers)) = Ids(InUse(p.buffers))
  BY <1>5, <1>6, IdsKept
<1>13. Accounts'
  BY <1>2, <1>3, <1>5, <1>11, <1>12, HandedOn
<1>14. QED
  BY <1>4, <1>10, <1>13

(* What is in hand is lost.                                                 *)
LEMMA AbandonKeeps ==
    ASSUME Parties, Accounts, Abandon
    PROVE  Parties' /\ Accounts'
<1>1. PICK o \in op : lost' = lost \cup LostOf(InUse(o.buffers), "dropped")
  BY Zenon DEF Abandon, LostOf
<1>2. op' = {} /\ held' = held /\ got' = got /\ err' = err
  BY DEF Abandon, None
<1>3. got = {} /\ err = {} /\ HandOf(op, got, err) = InUse(o.buffers)
  BY OpIsOne
<1>4. Parties'
  BY <1>2, <1>3 DEF Parties, One
<1>5. HandOf(op, got, err)' = {}
  BY <1>2, <1>3, HandIs
<1> DEFINE U == InUse(o.buffers)
           N == LostOf(U, "dropped")
<1>6. /\ LostIds(lost') = LostIds(lost) \cup Ids(U)
      /\ \A l \in lost' : l[2] \in Reasons
  <2> HIDE DEF U
  <2>1. "dropped" \in Reasons
    BY DEF Reasons
  <2>2. \A l \in lost : l[2] \in Reasons
    BY DEF Accounts
  <2>3. /\ LostIds(lost \cup N) = LostIds(lost) \cup Ids(U)
        /\ \A l \in lost \cup N : l[2] \in Reasons
    BY <2>1, <2>2, LostMore
  <2>4. lost' = lost \cup N
    BY <1>1 DEF U
  <2> HIDE DEF N
  <2>5. QED
    BY <2>3, <2>4
<1>7. Split(Ids(held'), {}, LostIds(lost'))
  <2>1. Split(Ids(held), Ids(InUse(o.buffers)), LostIds(lost))
    BY <1>3 DEF Accounts
  <2>2. QED
    BY <1>2, <1>6, <2>1 DEF Split
<1>8. Ids({}) = {}
  BY IdsOfUnion
<1>9. QED
  BY <1>2, <1>4, <1>5, <1>6, <1>7, <1>8 DEF Accounts

(* What is in hand comes back, or a part of it is lost.                     *)
LEMMA GivenBack ==
    ASSUME Accounts, NEW B \in SUBSET BufferType, IsFiniteSet(B), Apart(B), NEW Z, NEW how \in Reasons,
           op' = {}, got' = {}, err' = {}, held' = held \cup B, lost' = lost \cup LostOf(Z, how),
           Ids(B) \cup Ids(Z) = Ids(HandOf(op, got, err)), Ids(B) \cap Ids(Z) = {}
    PROVE  Parties' /\ Accounts'
<1>1. Split(Ids(held), Ids(B) \cup Ids(Z), LostIds(lost))
  BY DEF Accounts
<1>2. Parties'
  BY DEF Parties, One
<1>3. held' \subseteq BufferType /\ IsFiniteSet(held') /\ Apart(held') /\ Ids(held') = Ids(held) \cup Ids(B)
  <2>1. IsFiniteSet(held \cup B)
    BY FS_Union DEF Accounts
  <2>2. Apart(held \cup B)
    BY <1>1, ApartUnion DEF Accounts, Split
  <2>3. Ids(held \cup B) = Ids(held) \cup Ids(B)
    BY IdsOfUnion
  <2>4. QED
    BY <2>1, <2>2, <2>3 DEF Accounts
<1>4. LostIds(lost') = LostIds(lost) \cup Ids(Z) /\ \A l \in lost' : l[2] \in Reasons
  <2>1. \A l \in lost : l[2] \in Reasons
    BY DEF Accounts
  <2>2. /\ LostIds(lost \cup LostOf(Z, how)) = LostIds(lost) \cup Ids(Z)
        /\ \A l \in lost \cup LostOf(Z, how) : l[2] \in Reasons
    BY <2>1, LostMore
  <2>3. QED
    BY <2>2, Zenon
<1>5. HandOf(op, got, err)' = {} /\ Ids({}) = {}
  BY HandIs, IdsOfUnion
<1>6. Split(Ids(held'), {}, LostIds(lost'))
  BY <1>1, <1>3, <1>4 DEF Split
<1>7. QED
  BY <1>2, <1>3, <1>4, <1>5, <1>6 DEF Accounts

(* The buffers of a result come back, cleared or not. *)
LEMMA TakeBuffersKeeps ==
    ASSUME Parties, Accounts, NEW clear \in BOOLEAN, TakeBuffers(clear)
    PROVE  Parties' /\ Accounts'
<1>1. PICK g \in got : held' = held \cup IF clear THEN Emptied(InUse(g.result.buffers)) ELSE InUse(g.result.buffers)
  BY Zenon DEF TakeBuffers
<1>2. op = {} /\ err = {} /\ GoodGot(g) /\ HandOf(op, got, err) = InUse(g.result.buffers)
  BY GotIsOne
<1>3. op' = {} /\ got' = {} /\ err' = {} /\ lost' = lost
  BY <1>2 DEF TakeBuffers, None
<1>4. g.result.buffers \in BuffersType
  <2>1. GoodOp(g.of) /\ IsMessage(g.message)
    BY <1>2 DEF GoodGot
  <2>2. Completion(g.of, Written(g.of, g.message)).buffers \in BuffersType
    BY <2>1, CompletionIs
  <2>3. QED
    BY <1>2, <2>2 DEF GoodGot
<1> DEFINE U == InUse(g.result.buffers)
           B == IF clear THEN Emptied(U) ELSE U
<1>5. U \subseteq BufferType /\ IsFiniteSet(U) /\ Apart(U)
  BY <1>4, UseIs
<1> HIDE DEF U
<1>6. /\ Emptied(U) \subseteq BufferType /\ IsFiniteSet(Emptied(U)) /\ Apart(Emptied(U))
      /\ Ids(Emptied(U)) = Ids(U)
  BY <1>5, EmptiedIs
<1>7. B \subseteq BufferType /\ IsFiniteSet(B) /\ Apart(B) /\ Ids(B) = Ids(U)
  BY <1>5, <1>6
<1>8. held' = held \cup B
  BY <1>1 DEF U
<1> HIDE DEF B
<1>9. lost' = lost \cup LostOf({}, "dropped") /\ Ids({}) = {}
  BY <1>3, IdsOfUnion DEF LostOf
<1>10. "dropped" \in Reasons
  BY DEF Reasons
<1>11. HandOf(op, got, err) = U
  BY <1>2 DEF U
<1>12. QED
  BY <1>3, <1>7, <1>8, <1>9, <1>10, <1>11, GivenBack

(* What an error gives up of its buffers is had back, the rest is lost.     *)
LEMMA RecoverKeeps ==
    ASSUME Parties, Accounts, NEW e \in err, NEW found \in BuffersType, InUse(found) \subseteq InUse(e.buffers),
           NEW how \in Reasons, Recover(how, e, found)
    PROVE  Parties' /\ Accounts'
<1> DEFINE E == InUse(e.buffers)
           B == InUse(found)
<1>1. op = {} /\ got = {} /\ HandOf(op, got, err) = E /\ GoodErr(e)
  BY ErrIsOne
<1>2. op' = {} /\ got' = {} /\ err' = {} /\ held' = held \cup B
  BY <1>1 DEF Recover, None
<1>3. lost' = lost \cup LostOf(E \ B, how)
  BY Zenon DEF Recover, LostOf
<1>4. B \subseteq BufferType /\ IsFiniteSet(B) /\ Apart(B) /\ B \subseteq E
  BY UseIs
<1>5. Apart(E)
  BY <1>1, UseIs DEF GoodErr
<1> HIDE DEF E, B
<1>6. Ids(E \ B) = Ids(E) \ Ids(B) /\ Ids(B) \subseteq Ids(E)
  BY <1>4, <1>5, IdsOfRest
<1>7. Ids(B) \cup Ids(E \ B) = Ids(E) /\ Ids(B) \cap Ids(E \ B) = {}
  BY <1>6
<1>8. QED
  BY <1>1, <1>2, <1>3, <1>4, <1>7, GivenBack

(* What the three into_ methods of an error give up. *)
LEMMA PartOfBuffers ==
    ASSUME NEW bufs \in BuffersType
    PROVE  /\ \A found \in {RecvMsgBuffers(bufs.data, None), RecvMsgBuffers(None, bufs.control), NoBuffers, bufs} :
                 found \in BuffersType /\ InUse(found) \subseteq InUse(bufs)
           /\ bufs.control = {} => bufs = RecvMsgBuffers(bufs.data, None)
<1>1. /\ bufs = [data |-> bufs.data, control |-> bufs.control]
      /\ bufs.data \in SUBSET VecType /\ bufs.control \in SUBSET ControlType /\ One(bufs.data) /\ One(bufs.control)
  BY DEF BuffersType
<1>2. ASSUME NEW found \in {RecvMsgBuffers(bufs.data, None), RecvMsgBuffers(None, bufs.control), NoBuffers, bufs}
      PROVE  found \in BuffersType /\ InUse(found) \subseteq InUse(bufs)
  <2>1. found.data \subseteq bufs.data /\ found.control \subseteq bufs.control
        /\ found = RecvMsgBuffers(found.data, found.control)
    BY <1>1, <1>2 DEF RecvMsgBuffers, NoBuffers, None
  <2>2. found.data \in SUBSET VecType /\ found.control \in SUBSET ControlType /\ One(found.data) /\ One(found.control)
    BY <1>1, <2>1 DEF One
  <2>3. RecvMsgBuffers(found.data, found.control) \in BuffersType
    BY <2>2, BuffersAre
  <2>4. InUse(found) \subseteq InUse(bufs)
    BY <2>1 DEF InUse
  <2>5. QED
    BY <2>1, <2>3, <2>4
<1>3. bufs.control = {} => bufs = RecvMsgBuffers(bufs.data, None)
  BY <1>1 DEF RecvMsgBuffers, None
<1>4. QED
  BY <1>2, <1>3

(* The receiver asks an error for its buffers. *)
LEMMA RecoversKeep ==
    ASSUME Parties, Accounts, RecoverBytesMut \/ RecoverVec \/ RecoverRecvMsg
    PROVE  Parties' /\ Accounts'
<1>1. PICK e \in err : \E how \in Reasons : \E found \in {IntoBytesMut(e), IntoVec(e), IntoRecvMsgBuffers(e)} :
         Recover(how, e, found)
  BY Zenon DEF RecoverBytesMut, RecoverVec, RecoverRecvMsg, Reasons
<1>0. PICK how \in Reasons : \E f \in {IntoBytesMut(e), IntoVec(e), IntoRecvMsgBuffers(e)} : Recover(how, e, f)
  BY <1>1
<1>9. PICK found \in {IntoBytesMut(e), IntoVec(e), IntoRecvMsgBuffers(e)} : Recover(how, e, found)
  BY <1>0
<1>2. e.buffers \in BuffersType
  BY ErrIsOne DEF GoodErr
<1>3. found \in {RecvMsgBuffers(e.buffers.data, None), RecvMsgBuffers(None, e.buffers.control), NoBuffers, e.buffers}
  BY <1>9 DEF IntoBytesMut, IntoVec, IntoRecvMsgBuffers
<1>4. found \in BuffersType /\ InUse(found) \subseteq InUse(e.buffers)
  BY <1>2, <1>3, PartOfBuffers
<1>5. QED
  BY <1>9, <1>4, RecoverKeeps

-----------------------------------------------------------------------------
(* The buffers that the receiver may lend.                                  *)
LEMMA HeldIs ==
    ASSUME Accounts
    PROVE  DataHeld \subseteq DataType /\ ControlHeld \subseteq ControlType /\ DataHeld \cup ControlHeld = held
<1>1. Ids(All) = Ids(Buffers) \cup Ids(ControlBuffers)
  BY IdsOfUnion DEF All
<1>2. held \subseteq BufferType
  BY DEF Accounts
<1>3. \A b \in BufferType : b.id \in Ids(All)
  BY DEF BufferType
<1>4. QED
  BY <1>1, <1>2, <1>3, Zenon DEF DataHeld, ControlHeld, DataType, ControlType

(* Any order of some of the data buffers held, with a control buffer or     *)
(* none.                                                                    *)
LEMMA VecHeld ==
    ASSUME Accounts, NEW S \in SUBSET DataHeld, NEW vec \in Orders(S), NEW C \in SUBSET ControlHeld, One(C)
    PROVE  /\ vec \in VecType /\ RecvMsgBuffers({vec}, C) \in BuffersType
           /\ InUse(RecvMsgBuffers({vec}, C)) \subseteq held
<1>1. DataHeld \subseteq DataType /\ C \subseteq ControlType /\ S \subseteq held /\ C \subseteq held
  BY HeldIs
<1> DEFINE n == Cardinality(S)
<1>2. n \in Nat
  BY <1>1, FS_Subset, FS_CardinalityType DEF Accounts
<1>3. vec \in [1 .. n -> S] /\ \A i, j \in DOMAIN vec : vec[i] = vec[j] => i = j
  BY DEF Orders
<1> HIDE DEF n
<1>4. vec \in Seq(DataType) /\ DOMAIN vec = 1 .. n
  BY <1>1, <1>2, <1>3, SeqIs
<1>5. \A i, j \in DOMAIN vec : vec[i].id = vec[j].id => i = j
  BY <1>1, <1>3, <1>4 DEF Accounts, Apart
<1>6. vec \in VecType
  BY <1>4, <1>5 DEF VecType
<1>7. RecvMsgBuffers({vec}, C) \in BuffersType
  <2>1. {vec} \in SUBSET VecType /\ C \in SUBSET ControlType /\ One({vec})
    BY <1>1, <1>6 DEF One
  <2>2. QED
    BY <2>1, BuffersAre
<1>8. InUse(RecvMsgBuffers({vec}, C)) \subseteq held
  <2>1. \A i \in DOMAIN vec : vec[i] \in held
    BY <1>1, <1>3, <1>4
  <2>2. InUse(RecvMsgBuffers({vec}, C)) = {vec[i] : i \in DOMAIN vec} \cup C
    BY DEF InUse, RecvMsgBuffers
  <2>3. QED
    BY <1>1, <2>1, <2>2
<1>9. QED
  BY <1>6, <1>7, <1>8

(* Every way to lend them. *)
LEMMA LendsKeep ==
    ASSUME Parties, Accounts,
           \/ \E b \in DataHeld : ReadInto(b)
           \/ \E S \in SUBSET DataHeld : \E vec \in Orders(S) :
                 \/ ReadvInto(vec)
                 \/ RecvMsgInto(ExtendData(NoBuffers, vec))
                 \/ \E c \in ControlHeld : RecvMsgInto(SetControl(ExtendData(NoBuffers, vec), c))
           \/ \E c \in ControlHeld : RecvMsgInto(SetControl(NoBuffers, c))
    PROVE  Parties' /\ Accounts'
<1>1. CASE \E b \in DataHeld : ReadInto(b)
  <2>1. PICK b \in DataHeld : ReadInto(b)
    BY <1>1
  <2>2. b \in DataType /\ b \in held
    BY <2>1, HeldIs
  <2>3. LendSound("Read", RecvMsgBuffers(Some(<<b>>), None), RefusedRead(b))
    BY <2>2, ReadIsSound
  <2>4. InUse(RecvMsgBuffers(Some(<<b>>), None)) \subseteq held
    BY <2>2, SingleVec DEF Some, None
  <2>5. Lend("Read", RecvMsgBuffers(Some(<<b>>), None), RefusedRead(b))
    BY <2>1 DEF ReadInto
  <2>6. QED
    BY <2>3, <2>4, <2>5, LendKeeps
<1>2. ASSUME NEW S \in SUBSET DataHeld, NEW vec \in Orders(S), ReadvInto(vec)
      PROVE  Parties' /\ Accounts'
  <2>1. vec \in VecType /\ InUse(RecvMsgBuffers(Some(vec), None)) \subseteq held
    <3>1. {} \in SUBSET ControlHeld /\ One({})
      BY DEF One
    <3>2. QED
      BY <3>1, VecHeld DEF Some, None
  <2>2. LendSound("Readv", RecvMsgBuffers(Some(vec), None), RefusedReadv(vec))
    BY <2>1, ReadvIsSound
  <2>3. Lend("Readv", RecvMsgBuffers(Some(vec), None), RefusedReadv(vec))
    BY <1>2 DEF ReadvInto
  <2>4. QED
    BY <2>1, <2>2, <2>3, LendKeeps
<1>3. ASSUME NEW bufs \in BuffersType, InUse(bufs) \subseteq held, RecvMsgInto(bufs)
      PROVE  Parties' /\ Accounts'
  <2>1. LendSound("RecvMsg", bufs, RefusedRecvMsg(bufs))
    BY RecvMsgIsSound
  <2>2. Lend("RecvMsg", bufs, RefusedRecvMsg(bufs))
    BY <1>3 DEF RecvMsgInto
  <2>3. QED
    BY <1>3, <2>1, <2>2, LendKeeps
<1>4. ASSUME NEW S \in SUBSET DataHeld, NEW vec \in Orders(S)
      PROVE  /\ ExtendData(NoBuffers, vec) \in BuffersType /\ InUse(ExtendData(NoBuffers, vec)) \subseteq held
             /\ \A c \in ControlHeld :
                   /\ SetControl(ExtendData(NoBuffers, vec), c) \in BuffersType
                   /\ InUse(SetControl(ExtendData(NoBuffers, vec), c)) \subseteq held
  <2>1. ExtendData(NoBuffers, vec) = RecvMsgBuffers({vec}, {})
    BY SMTT(30) DEF ExtendData, NoBuffers, RecvMsgBuffers, None, Some
  <2>2. \A c : SetControl(RecvMsgBuffers({vec}, {}), c) = RecvMsgBuffers({vec}, {c})
    BY DEF SetControl, RecvMsgBuffers, Some
  <2>3. {} \in SUBSET ControlHeld /\ One({}) /\ \A c \in ControlHeld : {c} \in SUBSET ControlHeld /\ One({c})
    BY DEF One
  <2>4. /\ RecvMsgBuffers({vec}, {}) \in BuffersType /\ InUse(RecvMsgBuffers({vec}, {})) \subseteq held
        /\ \A c \in ControlHeld : /\ RecvMsgBuffers({vec}, {c}) \in BuffersType
                                  /\ InUse(RecvMsgBuffers({vec}, {c})) \subseteq held
    BY <2>3, VecHeld
  <2>5. QED
    BY <2>1, <2>2, <2>4
<1>5. ASSUME NEW c \in ControlHeld
      PROVE  SetControl(NoBuffers, c) \in BuffersType /\ InUse(SetControl(NoBuffers, c)) \subseteq held
  <2>1. SetControl(NoBuffers, c) = RecvMsgBuffers({}, {c})
    BY DEF SetControl, NoBuffers, RecvMsgBuffers, Some, None
  <2>2. {c} \in SUBSET ControlType /\ One({c}) /\ {} \in SUBSET VecType /\ One({}) /\ c \in held
    BY HeldIs DEF One
  <2>3. RecvMsgBuffers({}, {c}) \in BuffersType
    BY <2>2, BuffersAre
  <2>4. InUse(RecvMsgBuffers({}, {c})) = {c}
    BY DEF InUse, RecvMsgBuffers
  <2>5. QED
    BY <2>1, <2>2, <2>3, <2>4
<1>6. CASE \E S \in SUBSET DataHeld : \E vec \in Orders(S) :
              \/ ReadvInto(vec)
              \/ RecvMsgInto(ExtendData(NoBuffers, vec))
              \/ \E c \in ControlHeld : RecvMsgInto(SetControl(ExtendData(NoBuffers, vec), c))
  <2>1. PICK S \in SUBSET DataHeld : \E vec \in Orders(S) :
              \/ ReadvInto(vec)
              \/ RecvMsgInto(ExtendData(NoBuffers, vec))
              \/ \E c \in ControlHeld : RecvMsgInto(SetControl(ExtendData(NoBuffers, vec), c))
    BY <1>6
  <2>2. PICK vec \in Orders(S) :
              \/ ReadvInto(vec)
              \/ RecvMsgInto(ExtendData(NoBuffers, vec))
              \/ \E c \in ControlHeld : RecvMsgInto(SetControl(ExtendData(NoBuffers, vec), c))
    BY <2>1
  <2>3. CASE ReadvInto(vec)
    BY <1>2, <2>3
  <2>4. CASE RecvMsgInto(ExtendData(NoBuffers, vec))
    BY <1>3, <1>4, <2>4
  <2>5. CASE \E c \in ControlHeld : RecvMsgInto(SetControl(ExtendData(NoBuffers, vec), c))
    <3>1. PICK c \in ControlHeld : RecvMsgInto(SetControl(ExtendData(NoBuffers, vec), c))
      BY <2>5
    <3>2. QED
      BY <1>3, <1>4, <3>1
  <2>6. QED
    BY <2>2, <2>3, <2>4, <2>5
<1>7. CASE \E c \in ControlHeld : RecvMsgInto(SetControl(NoBuffers, c))
  <2>1. PICK c \in ControlHeld : RecvMsgInto(SetControl(NoBuffers, c))
    BY <1>7
  <2>2. QED
    BY <1>3, <1>5, <2>1
<1>8. QED
  BY <1>1, <1>6, <1>7

-----------------------------------------------------------------------------
(* The sender's steps.                                                      *)
LEMMA SenderKeeps ==
    ASSUME MInv, UNCHANGED receiverVars, IsQueue', IsDraft(draft)'
    PROVE  MInv'
BY DEF MInv, receiverVars, Parties, Accounts

(* A draft is composed. *)
LEMMA ComposeKeeps ==
    ASSUME MInv, NEW d, IsDraft(d), Compose(d)
    PROVE  MInv'
<1>1. draft' = d /\ queue' = queue /\ UNCHANGED receiverVars
  BY DEF Compose, receiverVars
<1>2. IsQueue' /\ IsDraft(draft)'
  BY <1>1 DEF MInv, IsQueue
<1>3. QED
  BY <1>1, <1>2, SenderKeeps

(* A draft, from its parts. *)
LEMMA DraftIs ==
    ASSUME NEW data, NEW control, NEW address, One(data), One(control),
           \A s \in data : IsData(s), \A c \in control : IsControls(c)
    PROVE  IsDraft([data |-> data, control |-> control, address |-> address])
BY DEF IsDraft

(* What the sender has to compose one from. *)
LEMMA SenderHas ==
    /\ \A bytes \in Payloads : bytes \in Seq(Byte) /\ IsData(Single(bytes))
    /\ \A vec \in Vectors : IsData(Multiple(vec))
    /\ \A messages \in Controls : IsControls(messages)
<1>1. /\ Payloads \subseteq Seq(Byte) /\ Vectors \subseteq Seq(Seq(Byte))
      /\ \A messages \in Controls :
            /\ messages \in Seq(ToSet(messages))
            /\ \A m \in ToSet(messages) : IsControlMessage(m)
  BY SenderAssumption, Zenon
<1>2. \A messages \in Controls : IsControls(messages)
  BY <1>1, Zenon DEF IsControls
<1>3. (\A bytes \in Payloads : IsData(Single(bytes))) /\ \A vec \in Vectors : IsData(Multiple(vec))
  BY <1>1, SMT DEF IsData
<1>4. QED
  BY <1>1, <1>2, <1>3, Zenon

(* The canned message of close_notify. *)
LEMMA DraftOf ==
    ASSUME NEW s, NEW c
    PROVE  [NoMessage EXCEPT !.control = c, !.data = s] = [data |-> s, control |-> c, address |-> {}]
<1>1. [NoMessage EXCEPT !.control = c] = [data |-> {}, control |-> c, address |-> {}]
  BY DEF NoMessage, None
<1>2. [[data |-> {}, control |-> c, address |-> {}] EXCEPT !.data = s] = [data |-> s, control |-> c, address |-> {}]
  OBVIOUS
<1>3. QED
  BY <1>1, <1>2, Zenon

(* Every way to compose one. *)
LEMMA DraftsKeep ==
    ASSUME MInv,
           \/ \E bytes \in Payloads : SetData(Single(bytes))
           \/ \E vec \in Vectors : SetData(Multiple(vec))
           \/ \E messages \in Controls : AddControl(messages)
           \/ \E text \in Peers : SetAddress(text)
           \/ CloseNotify \/ Clear
    PROVE  MInv'
<1>1. /\ draft = [data |-> draft.data, control |-> draft.control, address |-> draft.address]
      /\ \A s \in draft.data : IsData(s)
      /\ One(draft.data) /\ One(draft.control)
      /\ \A c \in draft.control : IsControls(c)
  BY DEF MInv, IsDraft
<1>2. \A x : One({x})
  BY DEF One
<1>3. ASSUME NEW s, IsData(s), SetData(s) PROVE MInv'
  <2>1. [draft EXCEPT !.data = Some(s)] = [data |-> {s}, control |-> draft.control, address |-> draft.address]
    BY <1>1 DEF Some
  <2>2. IsDraft([data |-> {s}, control |-> draft.control, address |-> draft.address])
    <3>1. \A x \in {s} : IsData(x)
      BY <1>3
    <3>2. QED
      BY <1>1, <1>2, <3>1, DraftIs
  <2>3. QED
    BY <1>3, <2>1, <2>2, ComposeKeeps DEF SetData
<1>4. ASSUME NEW messages \in Controls, AddControl(messages) PROVE MInv'
  <2> DEFINE c == IF draft.control = {} THEN messages ELSE The(draft.control) \o messages
  <2>1. [draft EXCEPT !.control = IF @ = None THEN Some(messages) ELSE Some(The(@) \o messages)] =
            [data |-> draft.data, control |-> {c}, address |-> draft.address]
    <3>1. (IF draft.control = None THEN Some(messages) ELSE Some(The(draft.control) \o messages)) = {c}
      BY DEF Some, None
    <3> HIDE DEF c
    <3>2. [draft EXCEPT !.control = {c}] = [data |-> draft.data, control |-> {c}, address |-> draft.address]
      BY <1>1
    <3>3. QED
      BY <3>1, <3>2
  <2>2. IsControls(messages)
    BY SenderHas
  <2>3. IsControls(c)
    <3>1. CASE draft.control = {}
      BY <2>2, <3>1
    <3>2. CASE draft.control # {}
      <4>1. PICK old \in draft.control : The(draft.control) = old
        BY <1>1, <3>2, OneIs
      <4> DEFINE T == ToSet(old) \cup ToSet(messages)
      <4>2. IsControls(old) /\ c = old \o messages
        BY <1>1, <3>2, <4>1
      <4>3. old \in Seq(T) /\ messages \in Seq(T)
        <5>1. ToSet(old) \subseteq T /\ ToSet(messages) \subseteq T
          OBVIOUS
        <5> HIDE DEF T
        <5>2. QED
          BY <2>2, <4>2, <5>1, SeqOfMore DEF IsControls
      <4>4. old \o messages \in Seq(T) /\ ToSet(old \o messages) = T
        BY <4>3, ConcatElements
      <4>5. \A m \in T : IsControlMessage(m)
        BY <2>2, <4>2 DEF IsControls
      <4> HIDE DEF T
      <4>6. QED
        BY <4>2, <4>4, <4>5 DEF IsControls
    <3>3. QED
      BY <3>1, <3>2
  <2> HIDE DEF c
  <2>4. IsDraft([data |-> draft.data, control |-> {c}, address |-> draft.address])
    <3>1. \A x \in {c} : IsControls(x)
      BY <2>3
    <3>2. QED
      BY <1>1, <1>2, <3>1, DraftIs
  <2>5. Compose([data |-> draft.data, control |-> {c}, address |-> draft.address])
    BY <1>4, <2>1 DEF AddControl
  <2>6. QED
    BY <2>4, <2>5, ComposeKeeps
<1>5. ASSUME NEW text, SetAddress(text) PROVE MInv'
  <2> DEFINE a == {SocketAddress(ip, Port) : ip \in IpFromStr(text)}
  <2>1. Compose([draft EXCEPT !.address = a])
    BY <1>5 DEF SetAddress
  <2> HIDE DEF a
  <2>2. [draft EXCEPT !.address = a] = [data |-> draft.data, control |-> draft.control, address |-> a]
    BY <1>1
  <2>3. IsDraft([data |-> draft.data, control |-> draft.control, address |-> a])
    BY <1>1, DraftIs
  <2>4. QED
    BY <2>1, <2>2, <2>3, ComposeKeeps
<1>6. CASE CloseNotify
  <2> DEFINE m == ControlMessage("Tls", "SetRecordType", "Alert")
  <2>1. IsControlMessage(m)
    BY DEF IsControlMessage, ControlMessage, Kinds
  <2> HIDE DEF m
  <2>2. <<m>> \in Seq(ToSet(<<m>>)) /\ ToSet(<<m>>) = {m}
    BY DEF ToSet
  <2>3. IsControls(<<m>>)
    BY <2>1, <2>2 DEF IsControls
  <2>4. IsData(Single(<<1, 0>>))
    <3>1. <<1, 0>> \in Seq(Byte)
      BY DEF Byte
    <3>2. QED
      BY <3>1 DEF IsData
  <2>5. IsDraft([data |-> {Single(<<1, 0>>)}, control |-> {<<m>>}, address |-> {}])
    <3>1. (\A s \in {Single(<<1, 0>>)} : IsData(s)) /\ \A c \in {<<m>>} : IsControls(c)
      BY <2>3, <2>4
    <3>2. QED
      BY <1>2, <3>1, DraftIs
  <2>6. Compose([data |-> {Single(<<1, 0>>)}, control |-> {<<m>>}, address |-> {}])
    <3>1. [NoMessage EXCEPT !.control = Some(<<m>>), !.data = Some(Single(<<1, 0>>))] =
              [data |-> {Single(<<1, 0>>)}, control |-> {<<m>>}, address |-> {}]
      BY DraftOf, Zenon DEF Some
    <3>2. QED
      BY <1>6, <3>1, Zenon DEF CloseNotify, m
  <2>7. QED
    BY <2>5, <2>6, ComposeKeeps
<1>7. CASE Clear
  <2>1. IsDraft([data |-> {}, control |-> {}, address |-> {}])
    BY DraftIs DEF One
  <2>2. QED
    BY <1>7, <2>1, ComposeKeeps DEF Clear, NoMessage, None
<1>8. QED
  BY <1>3, <1>4, <1>5, <1>6, <1>7, SenderHas

(* Every way to send. *)
LEMMA SendsKeep ==
    ASSUME MInv,
           \/ SendMsg
           \/ \E bytes \in Payloads : SendBytes(bytes)
           \/ \E vec \in Vectors : SendVec(vec)
    PROVE  MInv'
<1>1. IsQueue /\ IsDraft(draft)
  BY DEF MInv
<1>2. IsDraft(NoMessage)
  BY DraftIs DEF NoMessage, None, One
<1>3. CASE SendMsg
  <2>1. draft' = NoMessage /\ UNCHANGED receiverVars
    BY <1>3 DEF SendMsg
  <2>2. IsDraft(draft)'
    BY <1>2, <2>1
  <2>3. CASE RefusedMessage(draft) = None
    <3>1. Put(PreparedMessage(draft).bytes, PreparedMessage(draft).raws)
      BY <1>3, <2>3 DEF SendMsg
    <3>2. PreparedMessage(draft).bytes \in Seq(Byte) /\ Sent(Arrived(PreparedMessage(draft).raws))
      BY <1>1, <2>3, PreparedIs
    <3>3. IsQueue'
      BY <1>1, <3>1, <3>2, PutKeeps
    <3>4. QED
      BY <2>1, <2>2, <3>3, SenderKeeps
  <2>4. CASE RefusedMessage(draft) # None
    <3>1. queue' = queue
      BY <1>3, <2>4 DEF SendMsg
    <3>2. IsQueue'
      BY <1>1, <3>1 DEF IsQueue
    <3>3. QED
      BY <2>1, <2>2, <3>2, SenderKeeps
  <2>5. QED
    BY <2>3, <2>4
<1>4. ASSUME NEW bytes \in Seq(Byte), Put(bytes, <<>>), UNCHANGED <<draft, receiverVars>> PROVE MInv'
  <2>1. IsQueue'
    BY <1>1, <1>4, NothingSent, PutKeeps
  <2>2. IsDraft(draft)' /\ UNCHANGED receiverVars
    BY <1>1, <1>4
  <2>3. QED
    BY <2>1, <2>2, SenderKeeps
<1>5. CASE \E bytes \in Payloads : SendBytes(bytes)
  BY <1>4, <1>5, SenderHas DEF SendBytes
<1>6. CASE \E vec \in Vectors : SendVec(vec)
  <2>1. PICK vec \in Vectors : SendVec(vec)
    BY <1>6
  <2>2. IsData(Multiple(vec))
    BY SenderHas
  <2>3. InputBytes(Multiple(vec)) \in Seq(Byte)
    BY <2>2, InputType
  <2>4. QED
    BY <1>4, <2>1, <2>3 DEF SendVec
<1>7. QED
  BY <1>3, <1>5, <1>6

-----------------------------------------------------------------------------
(* The invariant holds at first: the receiver holds every buffer. *)
LEMMA MInvInit == Init => MInv
<1> SUFFICES ASSUME Init PROVE MInv
  OBVIOUS
<1>1. draft = NoMessage /\ queue = <<>> /\ held = All /\ op = {} /\ got = {} /\ err = {} /\ lost = {}
  BY DEF Init, All, None
<1>2. IsQueue
  BY <1>1 DEF IsQueue, ToSet
<1>3. IsDraft(draft)
  BY <1>1, DraftIs DEF NoMessage, None, One
<1>4. Parties
  BY <1>1 DEF Parties, One
<1>5. /\ IsFiniteSet(All) /\ Apart(All)
      /\ \A b \in All : b \in [id : Ids(All), cap : Nat, bytes : Seq(Byte)] /\ Len(b.bytes) <= b.cap
  BY ReceiverAssumption, Zenon DEF All, Apart
<1>6. All \subseteq BufferType
  <2>1. Seq(Byte) \subseteq Seq(Cell)
    BY SeqOfMore DEF Cell
  <2> HIDE DEF All
  <2>2. \A b \in All : b \in [id : Ids(All), cap : Nat, bytes : Seq(Cell)] /\ Len(b.bytes) <= b.cap
    BY <1>5, <2>1
  <2>3. QED
    BY <2>2 DEF BufferType
<1>7. HandOf(op, got, err) = {} /\ Ids({}) = {} /\ LostIds({}) = {}
  BY <1>1, HandIs, IdsOfUnion DEF LostIds
<1>8. Accounts
  BY <1>1, <1>5, <1>6, <1>7 DEF Accounts, Split
<1>9. QED
  BY <1>2, <1>3, <1>4, <1>8 DEF MInv

(* Every step keeps the invariant. *)
LEMMA MInvNext == MInv /\ [Next]_vars => MInv'
<1> SUFFICES ASSUME MInv, [Next]_vars PROVE MInv'
  OBVIOUS
<1>1. IsQueue /\ IsDraft(draft) /\ Parties /\ Accounts
  BY DEF MInv
<1>2. ASSUME Parties', Accounts', draft' = draft, queue' = queue PROVE MInv'
  <2>1. IsQueue' /\ IsDraft(draft)'
    BY <1>1, <1>2 DEF IsQueue
  <2>2. QED
    BY <1>2, <2>1 DEF MInv
<1>3. CASE UNCHANGED vars
  BY <1>1, <1>2, <1>3 DEF vars, Parties, Accounts
<1>4. CASE \/ \E bytes \in Payloads : SetData(Single(bytes))
           \/ \E vec \in Vectors : SetData(Multiple(vec))
           \/ \E messages \in Controls : AddControl(messages)
           \/ \E text \in Peers : SetAddress(text)
           \/ CloseNotify \/ Clear
  BY <1>4, DraftsKeep
<1>5. CASE SendMsg \/ (\E bytes \in Payloads : SendBytes(bytes)) \/ (\E vec \in Vectors : SendVec(vec))
  BY <1>5, SendsKeep
<1> DEFINE Lends ==
             \/ \E b \in DataHeld : ReadInto(b)
             \/ \E S \in SUBSET DataHeld : \E vec \in Orders(S) :
                   \/ ReadvInto(vec)
                   \/ RecvMsgInto(ExtendData(NoBuffers, vec))
                   \/ \E c \in ControlHeld : RecvMsgInto(SetControl(ExtendData(NoBuffers, vec), c))
             \/ \E c \in ControlHeld : RecvMsgInto(SetControl(NoBuffers, c))
<1>6. CASE Lends
  <2>1. Parties' /\ Accounts'
    BY <1>1, <1>6, LendsKeep
  <2>2. draft' = draft /\ queue' = queue
    BY <1>6 DEF ReadInto, ReadvInto, RecvMsgInto, Lend, senderVars
  <2>3. QED
    BY <1>2, <2>1, <2>2
<1> HIDE DEF Lends
<1>7. CASE FailDispatch
  <2>1. Parties' /\ Accounts'
    <3>1. PICK o \in op : err' = {Error("Operation", o.kind, o.buffers)}
      BY <1>7 DEF FailDispatch, Some
    <3>2. op' = {} /\ got' = got /\ held' = held /\ lost' = lost
      BY <1>7 DEF FailDispatch, None
    <3>3. QED
      BY <1>1, <3>1, <3>2, FailsKeeps
  <2>2. QED
    BY <1>2, <1>7, <2>1 DEF FailDispatch, senderVars
<1>8. CASE FailOperation
  <2>1. Parties' /\ Accounts'
    <3>1. PICK o \in op : err' = {Error("Failure", Submitted(o).kind, Submitted(o).buffers)}
      BY <1>8 DEF FailOperation, Failure, Some
    <3>2. op' = {} /\ got' = got /\ held' = held /\ lost' = lost
      BY <1>8 DEF FailOperation, None
    <3>3. QED
      BY <1>1, <3>1, <3>2, FailsKeeps
  <2>2. QED
    BY <1>2, <1>8, <2>1 DEF FailOperation, senderVars
<1>9. CASE Complete
  <2>1. IsQueue' /\ Parties' /\ Accounts'
    BY <1>9, CompleteKeeps
  <2>2. draft' = draft
    BY <1>9 DEF Complete, senderVars
  <2>3. IsDraft(draft)'
    BY <1>1, <2>2
  <2>4. QED
    BY <2>1, <2>3 DEF MInv
<1>10. CASE Abandon
  <2>1. Parties' /\ Accounts'
    BY <1>1, <1>10, AbandonKeeps
  <2>2. QED
    BY <1>2, <1>10, <2>1 DEF Abandon, senderVars
<1>11. CASE \E clear \in BOOLEAN : TakeBuffers(clear)
  <2>1. Parties' /\ Accounts'
    BY <1>1, <1>11, TakeBuffersKeeps
  <2>2. QED
    BY <1>2, <1>11, <2>1 DEF TakeBuffers, senderVars
<1>12. CASE RecoverBytesMut \/ RecoverVec \/ RecoverRecvMsg
  <2>1. Parties' /\ Accounts'
    BY <1>1, <1>12, RecoversKeep
  <2>2. draft' = draft /\ queue' = queue
    BY <1>12 DEF RecoverBytesMut, RecoverVec, RecoverRecvMsg, Recover, senderVars
  <2>3. QED
    BY <1>2, <2>1, <2>2
<1>13. QED
  BY <1>3, <1>4, <1>5, <1>6, <1>7, <1>8, <1>9, <1>10, <1>11, <1>12, Zenon DEF Next, Lends

(* The invariant holds of every behaviour. *)
LEMMA MInvHolds == Spec => []MInv
<1>1. Init => MInv
  BY MInvInit
<1>2. MInv /\ [Next]_vars => MInv'
  BY MInvNext
<1>3. QED
  BY <1>1, <1>2, PTL DEF Spec

(* Whatever is lent, refused, completed, failed, dropped or recovered, and  *)
(* in whatever order, every buffer is in the hands of the receiver, of its  *)
(* operation, of its result or of its error, or was lost for one of the     *)
(* five causes; none is both held and lost, and each error gives back all   *)
(* it holds to the method made for it (IoError and the into_ methods of     *)
(* io/operation/data, message.rs). For any buffers and any messages.        *)
THEOREM BuffersComeBackHolds == Spec => []BuffersComeBack
<1>1. MInv => BuffersComeBack
  <2> SUFFICES ASSUME MInv PROVE BuffersComeBack
    OBVIOUS
  <2>1. Parties /\ Accounts
    BY DEF MInv
  <2> DEFINE O == UNION {InUse(o.buffers) : o \in op}
             G == UNION {InUse(g.result.buffers) : g \in got}
             E == UNION {InUse(e.buffers) : e \in err}
  <2>2. Ids(HandOf(op, got, err)) = Ids(O) \cup Ids(G) \cup Ids(E)
    <3>1. HandOf(op, got, err) = (O \cup G) \cup E
      BY Zenon DEF HandOf
    <3> HIDE DEF O, G, E
    <3>2. Ids((O \cup G) \cup E) = Ids(O \cup G) \cup Ids(E) /\ Ids(O \cup G) = Ids(O) \cup Ids(G)
      BY IdsOfUnion
    <3>3. QED
      BY <3>1, <3>2
  <2> HIDE DEF O, G, E
  <2>3. Ids(All) = Ids(held) \cup LostIds(lost) \cup Ids(O) \cup Ids(G) \cup Ids(E)
    BY <2>1, <2>2 DEF Accounts, Split
  <2>4. \A b \in held : b.id \notin LostIds(lost)
    <3>1. \A b \in held : b.id \in Ids(held)
      BY DEF Ids
    <3>2. QED
      BY <2>1, <3>1 DEF Accounts, Split
  <2>5. \A l \in lost : l[2] \in Reasons
    BY <2>1 DEF Accounts
  <2>6. ASSUME NEW e \in err
        PROVE  CASE e.kind = "Read" -> InUse(IntoBytesMut(e)) = InUse(e.buffers)
                 [] e.kind = "Readv" -> InUse(IntoVec(e)) = InUse(e.buffers)
                 [] e.kind = "RecvMsg" -> InUse(IntoRecvMsgBuffers(e)) = InUse(e.buffers)
    <3>1. GoodErr(e)
      BY <2>1, ErrIsOne
    <3>2. e.buffers.control = {} => e.buffers = RecvMsgBuffers(e.buffers.data, None)
      BY <3>1, PartOfBuffers DEF GoodErr
    <3>3. e.kind # "RecvMsg" => e.buffers = RecvMsgBuffers(e.buffers.data, None)
      BY <3>1, <3>2 DEF GoodErr
    <3>4. \/ e.kind = "Read" /\ <<e.holder, e.kind>> \in BytesMutHolders
          \/ e.kind = "Readv" /\ <<e.holder, e.kind>> \in VecHolders
          \/ e.kind = "Readv" /\ e.buffers = NoBuffers
          \/ e.kind = "RecvMsg" /\ <<e.holder, e.kind>> \in RecvMsgHolders
      BY <3>1 DEF GoodErr, BytesMutHolders, VecHolders, RecvMsgHolders, ControlHolders
    <3>5. CASE e.kind = "Read" /\ <<e.holder, e.kind>> \in BytesMutHolders
      <4>1. IntoBytesMut(e) = e.buffers
        BY <3>3, <3>5 DEF IntoBytesMut, BytesMutHolders, ControlHolders
      <4>2. QED
        BY <3>5, <4>1, Zenon
    <3>6. CASE e.kind = "Readv" /\ <<e.holder, e.kind>> \in VecHolders
      <4>1. IntoVec(e) = e.buffers
        BY <3>3, <3>6 DEF IntoVec
      <4>2. QED
        BY <3>6, <4>1, Zenon
    <3>7. CASE e.kind = "Readv" /\ e.buffers = NoBuffers
      <4>1. IntoVec(e) = NoBuffers
        BY <3>3, <3>7 DEF IntoVec
      <4>2. QED
        BY <3>7, <4>1, Zenon
    <3>8. CASE e.kind = "RecvMsg" /\ <<e.holder, e.kind>> \in RecvMsgHolders
      <4>1. IntoRecvMsgBuffers(e) = e.buffers
        BY <3>8 DEF IntoRecvMsgBuffers
      <4>2. QED
        BY <3>8, <4>1, Zenon
    <3>9. QED
      BY <3>4, <3>5, <3>6, <3>7, <3>8
  <2>7. QED
    BY <2>3, <2>4, <2>5, <2>6, Zenon DEF BuffersComeBack, All, LostIds, Reasons, O, G, E
<1>2. QED
  BY <1>1, MInvHolds, PTL

-----------------------------------------------------------------------------
(* Where the bytes land.                                                    *)
LEMMA EndOfConcat ==
    ASSUME NEW S, NEW a \in Seq(S), NEW b \in Seq(S)
    PROVE  SubSeq(a \o b, Len(a) + 1, Len(a \o b)) = b
<1> DEFINE c == a \o b
           k == Len(a)
           s == SubSeq(c, k + 1, Len(c))
<1>1. /\ c \in Seq(S) /\ Len(c) = k + Len(b) /\ k \in Nat /\ Len(b) \in Nat
      /\ \A i \in 1 .. Len(b) : c[k + i] = b[i]
  OBVIOUS
<1> HIDE DEF c, k
<1>2. /\ s \in Seq(S) /\ Len(s) = Len(b)
      /\ \A i \in 1 .. Len(b) : s[i] = c[k + i]
  <2> DEFINE n == k + Len(b)
             m == k + 1
  <2>1. /\ m \in Int /\ n \in Int /\ n - m + 1 = Len(b) /\ \A i \in m .. n : c[i] \in S
        /\ m <= n \/ Len(b) = 0
    <3>1. m \in Int /\ n \in Int /\ n - m + 1 = Len(b) /\ (m <= n \/ Len(b) = 0)
      BY <1>1
    <3>2. \A i \in m .. n : i \in 1 .. Len(c)
      BY <1>1
    <3> HIDE DEF m, n
    <3>3. \A i \in m .. n : c[i] \in S
      BY <1>1, <3>2, ElementOfSeq
    <3>4. QED
      BY <3>1, <3>3, Zenon
  <2>2. s = SubSeq(c, m, n)
    BY <1>1
  <2> HIDE DEF n, s
  <2>3. /\ SubSeq(c, m, n) \in Seq(S)
        /\ Len(SubSeq(c, m, n)) = IF m <= n THEN n - m + 1 ELSE 0
        /\ \A i \in 1 .. n - m + 1 : SubSeq(c, m, n)[i] = c[m + i - 1]
    <3> HIDE DEF m
    <3>1. m \in Int /\ n \in Int /\ \A i \in m .. n : c[i] \in S
      BY <2>1
    <3>2. QED
      BY <3>1, SubSeqProperties
  <2>4. \A i \in 1 .. Len(b) : m + i - 1 = k + i
    BY <1>1
  <2> HIDE DEF m
  <2>5. Len(s) = Len(b)
    BY <1>1, <2>1, <2>2, <2>3
  <2>6. \A i \in 1 .. Len(b) : s[i] = c[k + i]
    BY <2>1, <2>2, <2>3, <2>4, Zenon
  <2>7. QED
    BY <2>2, <2>3, <2>5, <2>6, Zenon
<1> HIDE DEF s
<1>3. \A i \in 1 .. Len(b) : s[i] = b[i]
  BY <1>1, <1>2
<1>4. s = b
  BY <1>2, <1>3, SeqEqual
<1>5. QED
  BY <1>4 DEF s, c, k

(* Two adjacent slices are the slice they span. *)
LEMMA StartsConcat ==
    ASSUME NEW S, NEW a \in Seq(S), NEW n \in 0 .. Len(a), NEW m \in 0 .. n
    PROVE  SubSeq(a, 1, m) \o SubSeq(a, m + 1, n) = SubSeq(a, 1, n)
<1>1. /\ Len(a) \in Nat
      /\ SubSeq(a, 1, m) \in Seq(S) /\ Len(SubSeq(a, 1, m)) = m
      /\ SubSeq(a, m + 1, n) \in Seq(S) /\ Len(SubSeq(a, m + 1, n)) = n - m
      /\ SubSeq(a, 1, n) \in Seq(S) /\ Len(SubSeq(a, 1, n)) = n
  OBVIOUS
<1>2. /\ \A i \in 1 .. m : SubSeq(a, 1, m)[i] = a[i]
      /\ \A i \in 1 .. n - m : SubSeq(a, m + 1, n)[i] = a[m + i]
      /\ \A i \in 1 .. n : SubSeq(a, 1, n)[i] = a[i]
  OBVIOUS
<1> DEFINE p == SubSeq(a, 1, m)
           q == SubSeq(a, m + 1, n)
           r == SubSeq(a, 1, n)
<1>3. /\ p \in Seq(S) /\ Len(p) = m /\ q \in Seq(S) /\ Len(q) = n - m /\ r \in Seq(S) /\ Len(r) = n
      /\ \A i \in 1 .. m : p[i] = a[i]
      /\ \A i \in 1 .. n - m : q[i] = a[m + i]
      /\ \A i \in 1 .. n : r[i] = a[i]
  BY <1>1, <1>2
<1> HIDE DEF p, q, r
<1>4. p \o q \in Seq(S) /\ Len(p \o q) = n
  BY <1>3
<1>5. ASSUME NEW i \in 1 .. n PROVE (p \o q)[i] = r[i]
  <2>1. CASE i <= m
    <3>1. i \in 1 .. m
      BY <2>1
    <3>2. (p \o q)[i] = p[i]
      BY <1>3, <3>1
    <3>3. QED
      BY <1>3, <3>1, <3>2
  <2>2. CASE i > m
    <3> DEFINE j == i - m
    <3>1. j \in 1 .. n - m /\ m + j = i
      BY <2>2
    <3> HIDE DEF j
    <3>2. (p \o q)[m + j] = q[j]
      <4>1. j \in 1 .. Len(q) /\ m + j \in 1 .. Len(p) + Len(q) /\ ~(m + j <= Len(p)) /\ m + j - Len(p) = j
        BY <1>3, <3>1
      <4>2. QED
        BY <1>3, <4>1
    <3>3. q[j] = a[m + j] /\ r[i] = a[i]
      BY <1>3, <3>1
    <3>4. QED
      BY <3>1, <3>2, <3>3
  <2>3. i <= m \/ i > m
    BY <1>1
  <2>4. QED
    BY <2>1, <2>2, <2>3
<1>6. p \o q = r
  BY <1>3, <1>4, <1>5, SeqEqual
<1>7. QED
  BY <1>6 DEF p, q, r

(* Where the kernel wrote all that is counted, no garbage. *)
LEMMA NothingMore ==
    ASSUME NEW written \in Seq(Byte)
    PROVE  Contents(written, Len(written)) = written
<1> DEFINE n == Len(written)
           c == Contents(written, n)
<1>1. n \in Nat /\ written = [i \in 1 .. n |-> written[i]]
  OBVIOUS
<1> HIDE DEF n
<1>2. c = [i \in 1 .. n |-> IF i <= n THEN written[i] ELSE Garbage]
  BY Zenon DEF Contents, n
<1>3. \A i \in 1 .. n : i <= n
  BY <1>1
<1>4. \A i \in 1 .. n : (IF i <= n THEN written[i] ELSE Garbage) = written[i]
  BY <1>3, Zenon
<1>5. c = written
  BY <1>1, <1>2, <1>4, Zenon
<1>6. QED
  BY <1>5, Zenon DEF n

(* What a receive adds to each of its buffers.                              *)
LEMMA PiecesAre ==
    ASSUME NEW vec \in VecType, NEW payload \in Seq(Byte), NEW i \in 1 .. Len(vec)
    PROVE  LET part  == Scatter(vec, payload)[i]
               share == Share(vec, Taken(vec, payload, Len(vec)), i)
               after == After(vec, payload)[i]
           IN  /\ share \in 0 .. ChunkOf(vec[i]) /\ part \in Seq(Byte)
               /\ Contents(part, share) \in Seq(Cell) /\ Len(Contents(part, share)) = share
               /\ after.bytes = vec[i].bytes \o Contents(part, share)
               /\ SubSeq(after.bytes, Len(vec[i].bytes) + 1, Len(after.bytes)) = Contents(part, share)
<1> DEFINE total == Taken(vec, payload, Len(vec))
           v == Scatter(vec, payload)
           part == v[i]
           share == Share(vec, total, i)
           after == After(vec, payload)[i]
<1>1. Len(vec) \in Nat /\ vec[i] \in BufferType
  BY VecSums
<1>2. v \in Seq(Seq(Byte)) /\ Len(v) = Len(vec) /\ total \in Nat
  <2>1. v \in Seq(Seq(Byte)) /\ Len(v) = Len(vec) /\ \A n \in 0 .. Len(vec) : Taken(vec, payload, n) \in 0 .. Len(payload)
    BY ScatterIs
  <2>2. Len(vec) \in 0 .. Len(vec) /\ Len(payload) \in Nat
    BY <1>1
  <2>3. QED
    BY <2>1, <2>2
<1> HIDE DEF total, v
<1>3. part \in Seq(Byte)
  <2>1. i \in 1 .. Len(v)
    BY <1>2
  <2>2. QED
    BY <1>2, <2>1, ElementOfSeq
<1>4. VecIntoBytes(vec, v, total)[i] = Advance(vec[i], part, share) /\ share \in 0 .. ChunkOf(vec[i])
  BY <1>2, SpreadIs
<1> HIDE DEF share, part
<1>5. /\ Advance(vec[i], part, share).bytes = vec[i].bytes \o Contents(part, share)
      /\ Contents(part, share) \in Seq(Cell) /\ Len(Contents(part, share)) = share
  BY <1>1, <1>3, <1>4, AdvanceIs, ZenonT(30)
<1>6. after.bytes = vec[i].bytes \o Contents(part, share)
  <2>1. after = VecIntoBytes(vec, v, total)[i]
    BY Zenon DEF After, v, total
  <2> HIDE DEF after
  <2>2. QED
    BY <1>4, <1>5, <2>1, Zenon
<1> HIDE DEF after
<1>7. vec[i].bytes \in Seq(Cell)
  BY <1>1 DEF BufferType
<1>8. SubSeq(vec[i].bytes \o Contents(part, share), Len(vec[i].bytes) + 1, Len(vec[i].bytes \o Contents(part, share)))
          = Contents(part, share)
  BY <1>5, <1>7, EndOfConcat
<1>9. SubSeq(after.bytes, Len(vec[i].bytes) + 1, Len(after.bytes)) = Contents(part, share)
  BY <1>6, <1>8, Zenon
<1>10. share \in 0 .. ChunkOf(vec[i]) /\ Contents(part, share) \in Seq(Cell) /\ Len(Contents(part, share)) = share
  BY <1>4, <1>5, Zenon
<1>11. QED
  BY <1>3, <1>6, <1>9, <1>10, Zenon DEF after, part, share, total, v

(* Up to the first full buffer that the count reaches, the chunks and the   *)
(* spare room come to the same share of it.                                 *)
LEMMA KeepsUp ==
    ASSUME NEW vec \in VecType, NEW total \in Nat, NEW k \in 0 .. Len(vec),
           \A i \in 1 .. k : SpareOf(vec[i]) = 0 => total <= SumTo(Spares(vec), i - 1)
    PROVE  \A i \in 0 .. k : /\ SumTo(Spares(vec), i) <= SumTo(Chunks(vec), i)
                             /\ MinOf(total, SumTo(Chunks(vec), i)) = MinOf(total, SumTo(Spares(vec), i))
<1> DEFINE s(i) == SumTo(Spares(vec), i)
           c(i) == SumTo(Chunks(vec), i)
           Q(i) == s(i) <= c(i) /\ MinOf(total, c(i)) = MinOf(total, s(i))
           P == {n \in Nat : n <= k => Q(n)}
<1>1. /\ Len(vec) \in Nat /\ k \in Nat
      /\ \A n \in 0 .. Len(vec) : s(n) \in Nat /\ c(n) \in Nat
      /\ \A i \in 1 .. Len(vec) : /\ s(i) = s(i - 1) + SpareOf(vec[i]) /\ c(i) = c(i - 1) + ChunkOf(vec[i])
                                  /\ vec[i] \in BufferType
  BY VecSums
<1>2. s(0) = 0 /\ c(0) = 0
  BY SumToNothing
<1> HIDE DEF s, c
<1>3. 0 \in P
  BY <1>2
<1>4. ASSUME NEW n \in Nat, n \in P PROVE n + 1 \in P
  <2> SUFFICES ASSUME n + 1 <= k PROVE Q(n + 1)
    OBVIOUS
  <2> DEFINE i == n + 1
  <2>1. i \in 1 .. k /\ i \in 1 .. Len(vec) /\ i - 1 = n /\ n \in 0 .. Len(vec) /\ i \in 0 .. Len(vec) /\ n <= k
    BY <1>1
  <2>2. Q(n)
    BY <1>4, <2>1
  <2> HIDE DEF i
  <2>3. s(i) = s(n) + SpareOf(vec[i]) /\ c(i) = c(n) + ChunkOf(vec[i]) /\ vec[i] \in BufferType
    BY <1>1, <2>1
  <2>4. /\ SpareOf(vec[i]) \in Nat /\ ChunkOf(vec[i]) \in Nat /\ SpareOf(vec[i]) <= ChunkOf(vec[i])
        /\ SpareOf(vec[i]) > 0 => ChunkOf(vec[i]) = SpareOf(vec[i])
    BY <2>3, Room
  <2>5. SpareOf(vec[i]) = 0 => total <= s(n)
    BY <2>1 DEF s
  <2>6. s(n) \in Nat /\ c(n) \in Nat /\ s(i) \in Nat /\ c(i) \in Nat
    BY <1>1, <2>1
  <2>7. Q(i)
    BY <2>2, <2>3, <2>4, <2>5, <2>6, SMTT(30) DEF MinOf
  <2>8. QED
    BY <2>7 DEF i
<1> HIDE DEF P
<1>5. Nat \subseteq P
  BY <1>3, <1>4, NatSetInduction
<1>6. QED
  BY <1>1, <1>5 DEF P, s, c

(* The share of the count that lies in the first buffers' spare memory is   *)
(* what the kernel wrote in them.                                           *)
LEMMA TakenIs ==
    ASSUME NEW vec \in VecType, NEW payload \in Seq(Byte), NEW i \in 0 .. Len(vec)
    PROVE  MinOf(Taken(vec, payload, Len(vec)), SumTo(Spares(vec), i)) = Taken(vec, payload, i)
<1>1. Len(vec) \in Nat /\ Len(payload) \in Nat /\ \A j \in 1 .. Len(vec) : Spares(vec)[j] \in Nat
  <2>1. DOMAIN vec = 1 .. Len(vec) /\ \A j \in DOMAIN vec : vec[j] \in BufferType
    BY VecSums
  <2>2. \A j \in 1 .. Len(vec) : Spares(vec)[j] = SpareOf(vec[j])
    BY <2>1, Zenon DEF Spares
  <2>3. QED
    BY <2>1, <2>2, Room, SMTT(30)
<1>2. Len(vec) \in 0 .. Len(vec)
  BY <1>1
<1> DEFINE s == SumTo(Spares(vec), i)
           t == SumTo(Spares(vec), Len(vec))
<1>3. s \in Nat /\ t \in Nat
  BY <1>2, VecSums
<1>4. s <= t
  BY <1>1, <1>2, SumToGrows
<1> HIDE DEF s, t
<1>5. MinOf(MinOf(t, Len(payload)), s) = MinOf(s, Len(payload))
  BY <1>1, <1>3, <1>4 DEF MinOf
<1>6. QED
  BY <1>5 DEF Taken, s, t

(* Each buffer's piece, before any is overtaken, is what was written in it. *)
LEMMA PieceIsPart ==
    ASSUME NEW vec \in VecType, NEW payload \in Seq(Byte),
           ~Overtaken(vec, Taken(vec, payload, Len(vec))), NEW i \in 1 .. Len(vec)
    PROVE  Contents(Scatter(vec, payload)[i], Share(vec, Taken(vec, payload, Len(vec)), i)) =
               SubSeq(payload, Taken(vec, payload, i - 1) + 1, Taken(vec, payload, i))
<1> DEFINE total == Taken(vec, payload, Len(vec))
           part == Scatter(vec, payload)[i]
           s(j) == SumTo(Spares(vec), j)
           c(j) == SumTo(Chunks(vec), j)
<1>1. /\ Len(vec) \in Nat /\ DOMAIN vec = 1 .. Len(vec) /\ i \in 0 .. Len(vec) /\ i - 1 \in 0 .. Len(vec)
      /\ Len(vec) \in 0 .. Len(vec) /\ \A j \in 1 .. Len(vec) : s(j - 1) \in Nat
  BY VecSums, SMTT(30)
<1>2. total \in 0 .. Len(payload) /\ Len(payload) \in Nat
  <2>1. \A n \in 0 .. Len(vec) : Taken(vec, payload, n) \in 0 .. Len(payload)
    BY ScatterIs
  <2>2. QED
    BY <1>1, <2>1
<1>3. \A j \in 1 .. Len(vec) : SpareOf(vec[j]) = 0 => total <= s(j - 1)
  <2>1. \A j \in 1 .. Len(vec) : ~(SpareOf(vec[j]) = 0 /\ total > s(j - 1))
    BY <1>1, Zenon DEF Overtaken
  <2> HIDE DEF total, s
  <2>2. QED
    BY <1>1, <1>2, <2>1
<1>4. MinOf(total, c(i)) = MinOf(total, s(i)) /\ MinOf(total, c(i - 1)) = MinOf(total, s(i - 1))
  <2>1. total \in Nat
    BY <1>2
  <2> HIDE DEF total
  <2>2. \A j \in 0 .. Len(vec) : s(j) <= c(j) /\ MinOf(total, c(j)) = MinOf(total, s(j))
    BY <1>1, <1>3, <2>1, KeepsUp
  <2> HIDE DEF s, c
  <2>3. QED
    BY <1>1, <2>2
<1>5. MinOf(total, s(i)) = Taken(vec, payload, i) /\ MinOf(total, s(i - 1)) = Taken(vec, payload, i - 1)
  BY <1>1, TakenIs
<1>6. Share(vec, total, i) = Taken(vec, payload, i) - Taken(vec, payload, i - 1)
  BY <1>4, <1>5, Zenon DEF Share
<1>7. /\ part = SubSeq(payload, Taken(vec, payload, i - 1) + 1, Taken(vec, payload, i))
      /\ Len(part) = Taken(vec, payload, i) - Taken(vec, payload, i - 1)
  BY ScatterIs
<1>8. part \in Seq(Byte)
  BY PiecesAre
<1> HIDE DEF part, total
<1>9. Contents(part, Share(vec, total, i)) = part
  <2>1. Share(vec, total, i) = Len(part)
    BY <1>6, <1>7
  <2>2. QED
    BY <1>8, <2>1, NothingMore
<1>10. QED
  BY <1>7, <1>9, Zenon DEF part, total

(* The first buffer overtaken takes a byte that nobody wrote.               *)
LEMMA PieceIsGarbage ==
    ASSUME NEW vec \in VecType, NEW payload \in Seq(Byte),
           Overtaken(vec, Taken(vec, payload, Len(vec)))
    PROVE  \E i \in 1 .. Len(vec) :
              LET piece == Contents(Scatter(vec, payload)[i], Share(vec, Taken(vec, payload, Len(vec)), i))
              IN  Len(piece) \in Nat \ {0} /\ piece[1] = Garbage
<1> DEFINE total == Taken(vec, payload, Len(vec))
           s(j) == SumTo(Spares(vec), j)
           c(j) == SumTo(Chunks(vec), j)
           Q(j) == SpareOf(vec[j]) = 0 /\ total > s(j - 1)
           T == {j \in 1 .. Len(vec) : Q(j)}
<1>1. /\ Len(vec) \in Nat /\ DOMAIN vec = 1 .. Len(vec)
      /\ Len(vec) \in 0 .. Len(vec)
      /\ \A j \in 0 .. Len(vec) : s(j) \in Nat /\ c(j) \in Nat
      /\ \A j \in 1 .. Len(vec) :
            /\ vec[j] \in BufferType /\ j - 1 \in 0 .. Len(vec) /\ j \in 0 .. Len(vec)
            /\ s(j) = s(j - 1) + SpareOf(vec[j]) /\ c(j) = c(j - 1) + ChunkOf(vec[j])
  BY VecSums
<1>2. total \in 0 .. Len(payload) /\ Len(payload) \in Nat /\ total \in Nat
  <2>1. (\A n \in 0 .. Len(vec) : Taken(vec, payload, n) \in 0 .. Len(payload)) /\ Len(payload) \in Nat
    BY ScatterIs
  <2>2. QED
    BY <1>1, <2>1
<1>3. T # {} /\ T \in SUBSET Nat
  <2>1. \E j \in 1 .. Len(vec) : Q(j)
    BY <1>1, Zenon DEF Overtaken
  <2> HIDE DEF Q
  <2>2. QED
    BY <1>1, <2>1
<1>4. PICK i \in T : \A m \in T : i <= m
  BY <1>3, LeastNatural
<1>5. i \in 1 .. Len(vec) /\ Q(i)
  BY <1>4
<1> DEFINE k == i - 1
<1>6. k \in 0 .. Len(vec) /\ k \in 0 .. k /\ \A j \in 1 .. k : j \in 1 .. Len(vec) /\ j < i
  BY <1>1, <1>5
<1> HIDE DEF total, s, c
<1>7. \A j \in 1 .. k : SpareOf(vec[j]) = 0 => total <= s(j - 1)
  <2> SUFFICES ASSUME NEW j \in 1 .. k, SpareOf(vec[j]) = 0, ~(total <= s(j - 1)) PROVE FALSE
    OBVIOUS
  <2>1. j \in 1 .. Len(vec) /\ j < i /\ s(j - 1) \in Nat
    BY <1>1, <1>6
  <2>2. Q(j)
    BY <1>2, <2>1
  <2>3. i <= j
    BY <1>4, <2>1, <2>2
  <2>4. QED
    BY <1>5, <2>1, <2>3
<1>8. s(k) <= c(k) /\ MinOf(total, c(k)) = MinOf(total, s(k))
  <2> HIDE DEF k
  <2>1. \A j \in 0 .. k : s(j) <= c(j) /\ MinOf(total, c(j)) = MinOf(total, s(j))
    BY <1>2, <1>6, <1>7, KeepsUp DEF s, c
  <2>2. QED
    BY <1>6, <2>1
<1>9. ChunkOf(vec[i]) \in Nat \ {0} /\ c(i) = c(k) + ChunkOf(vec[i]) /\ s(i) = s(k) + SpareOf(vec[i])
      /\ c(k) \in Nat /\ c(i) \in Nat /\ s(k) \in Nat /\ SpareOf(vec[i]) = 0 /\ total > s(k)
  BY <1>1, <1>5, Room
<1> DEFINE share == Share(vec, total, i)
           part == Scatter(vec, payload)[i]
           piece == Contents(part, share)
<1>10. share \in Nat \ {0}
  <2>1. share = MinOf(total, c(i)) - MinOf(total, c(k))
    BY DEF Share, c
  <2> HIDE DEF share, k
  <2>2. QED
    BY <1>2, <1>8, <1>9, <2>1, SMTT(30) DEF MinOf
<1>11. Len(part) = 0
  <2>1. part \in Seq(Byte)
    BY <1>5, PiecesAre
  <2>2. Len(part) <= SpareOf(vec[i])
    BY <1>5, ScatterIs
  <2> HIDE DEF part
  <2>3. QED
    BY <1>9, <2>1, <2>2
<1>12. Len(piece) = share
  BY <1>5, PiecesAre DEF total
<1>13. piece[1] = Garbage
  <2> HIDE DEF share, part
  <2>1. 1 \in 1 .. share /\ ~(1 <= Len(part))
    BY <1>10, <1>11
  <2>2. piece[1] = IF 1 <= Len(part) THEN part[1] ELSE Garbage
    BY <2>1, Zenon DEF Contents
  <2>3. QED
    BY <2>1, <2>2
<1> HIDE DEF piece, share
<1>14. Len(piece) \in Nat \ {0} /\ piece[1] = Garbage
  BY <1>10, <1>12, <1>13
<1>15. QED
  BY <1>5, <1>14, Zenon DEF piece, share, total

(* The pieces laid end to end are the start of the payload exactly if no    *)
(* buffer was overtaken: the part the kernel wrote for the buffers up to    *)
(* each is a slice, and of two sequences that are equal no byte is garbage. *)
LEMMA LandsInOrder ==
    ASSUME NEW vec \in VecType, vec # <<>>, NEW payload \in Seq(Byte)
    PROVE  (Added(vec, After(vec, payload)) = SubSeq(payload, 1, Taken(vec, payload, Len(vec))))
               <=> ~Overtaken(vec, Taken(vec, payload, Len(vec)))
<1> DEFINE n == Len(vec)
           total == Taken(vec, payload, n)
           piece(i) == Contents(Scatter(vec, payload)[i], Share(vec, total, i))
           t(i) == Taken(vec, payload, i)
           after == After(vec, payload)
           pieces == [i \in DOMAIN vec |->
                         SubSeq(after[i].bytes, Len(vec[i].bytes) + 1, Len(after[i].bytes))]
<1>1. /\ n \in Nat \ {0} /\ DOMAIN vec = 1 .. n /\ 1 \in 1 .. n /\ n \in 1 .. n
      /\ \A i \in 1 .. n : i \in 0 .. n /\ i - 1 \in 0 .. n /\ i \in Nat
  <2>1. vec \in Seq(DataType) /\ n \in Nat /\ DOMAIN vec = 1 .. n
    BY VecSums
  <2>2. n # 0
    BY <2>1
  <2> HIDE DEF n
  <2>3. QED
    BY <2>1, <2>2
<1>2. /\ Len(payload) \in Nat /\ \A i \in 0 .. n : t(i) \in 0 .. Len(payload)
      /\ \A i \in 1 .. n : t(i - 1) <= t(i)
      /\ t(0) = 0
  <2>1. \A i \in 0 .. n : t(i) \in 0 .. Len(payload)
    BY ScatterIs
  <2>2. \A i \in 1 .. n : t(i - 1) <= t(i)
    BY ScatterIs
  <2>3. QED
    BY <2>1, <2>2, CountIs
<1>3. /\ pieces \in Seq(Seq(Cell)) /\ Len(pieces) = n
      /\ \A i \in 1 .. n : pieces[i] = piece(i) /\ piece(i) \in Seq(Cell)
  <2>1. \A i \in 1 .. n : /\ SubSeq(after[i].bytes, Len(vec[i].bytes) + 1, Len(after[i].bytes)) = piece(i)
                          /\ piece(i) \in Seq(Cell)
    BY PiecesAre
  <2> HIDE DEF n, total, piece, after
  <2>2. pieces = [i \in 1 .. n |-> piece(i)]
    BY <1>1, <2>1
  <2>3. \A i \in 1 .. n : pieces[i] = piece(i)
    BY <2>2, Zenon
  <2> HIDE DEF pieces
  <2>4. pieces = [i \in 1 .. n |-> pieces[i]]
    BY <2>2, <2>3, Zenon
  <2>5. pieces \in Seq(Seq(Cell)) /\ Len(pieces) = n
    <3>1. n \in Nat /\ \A i \in 1 .. n : pieces[i] \in Seq(Cell)
      BY <1>1, <2>1, <2>3
    <3>2. QED
      BY <2>4, <3>1, SeqIs, Zenon
  <2>6. QED
    BY <2>1, <2>3, <2>5
<1>4. Added(vec, after) = FlattenSeq(pieces)
  BY Zenon DEF Added
<1> HIDE DEF n, total, after, pieces
<1>5. PICK w : /\ FlattenSeq(pieces) = w[n]
               /\ w[1] = pieces[1]
               /\ \A i \in 2 .. n : w[i] = w[i - 1] \o pieces[i]
               /\ \A i \in 1 .. n : w[i] \in Seq(Cell)
  <2>1. pieces # <<>>
    BY <1>1, <1>3
  <2>2. \E w : /\ FlattenSeq(pieces) = w[Len(pieces)]
               /\ w[1] = pieces[1]
               /\ \A i \in 2 .. Len(pieces) : w[i] = w[i - 1] \o pieces[i]
               /\ \A i \in 1 .. Len(pieces) : w[i] \in Seq(Cell)
    BY <1>3, <2>1, FlattenIs
  <2>3. QED
    BY <1>3, <2>2, Zenon
<1>6. ASSUME ~Overtaken(vec, total) PROVE w[n] = SubSeq(payload, 1, total)
  <2>1. \A i \in 1 .. n : piece(i) = SubSeq(payload, t(i - 1) + 1, t(i))
    BY <1>6, PieceIsPart DEF n, total
  <2> HIDE DEF piece, t
  <2> DEFINE P == {m \in Nat : m < n => w[m + 1] = SubSeq(payload, 1, t(m + 1))}
  <2>2. 0 \in P
    <3>1. w[1] = SubSeq(payload, t(1 - 1) + 1, t(1))
      BY <1>1, <1>3, <1>5, <2>1
    <3>2. t(1 - 1) + 1 = 1
      BY <1>2
    <3>3. w[1] = SubSeq(payload, 1, t(1))
      BY <3>1, <3>2
    <3>4. QED
      BY <3>3
  <2>3. ASSUME NEW m \in Nat, m \in P PROVE m + 1 \in P
    <3> SUFFICES ASSUME m + 1 < n PROVE w[m + 1 + 1] = SubSeq(payload, 1, t(m + 1 + 1))
      OBVIOUS
    <3> DEFINE k == m + 1 + 1
    <3>1. k \in 2 .. n /\ k \in 1 .. n /\ k - 1 = m + 1 /\ k - 1 \in 1 .. n /\ m < n
      BY <1>1
    <3>2. w[k - 1] = SubSeq(payload, 1, t(k - 1))
      BY <2>3, <3>1
    <3> HIDE DEF k, P
    <3>3. w[k] = w[k - 1] \o pieces[k] /\ pieces[k] = piece(k)
      BY <1>3, <1>5, <3>1
    <3>4. w[k] = SubSeq(payload, 1, t(k - 1)) \o SubSeq(payload, t(k - 1) + 1, t(k))
      BY <2>1, <3>1, <3>2, <3>3
    <3>5. t(k) \in 0 .. Len(payload) /\ t(k - 1) \in 0 .. t(k)
      <4>1. k \in 0 .. n /\ k - 1 \in 0 .. n
        BY <1>1, <3>1
      <4>2. QED
        BY <1>2, <3>1, <4>1
    <3>6. SubSeq(payload, 1, t(k - 1)) \o SubSeq(payload, t(k - 1) + 1, t(k)) = SubSeq(payload, 1, t(k))
      BY <3>5, StartsConcat
    <3>7. QED
      BY <3>4, <3>6 DEF k
  <2> HIDE DEF P
  <2>4. Nat \subseteq P
    BY <2>2, <2>3, NatSetInduction
  <2>5. n - 1 \in P /\ n - 1 < n /\ n - 1 + 1 = n
    BY <1>1, <2>4
  <2>6. w[n] = SubSeq(payload, 1, t(n))
    BY <2>5 DEF P
  <2>7. QED
    BY <2>6 DEF t, total
<1>7. ASSUME Overtaken(vec, total) PROVE w[n] # SubSeq(payload, 1, total)
  <2>1. PICK i \in 1 .. n : Len(piece(i)) \in Nat \ {0} /\ piece(i)[1] = Garbage
    BY <1>7, PieceIsGarbage DEF n, total
  <2> HIDE DEF piece, t
  <2> DEFINE Dirty(s) == \E j \in 1 .. Len(s) : s[j] = Garbage
             P == {m \in Nat : i + m <= n => Dirty(w[i + m])}
  <2>2. Dirty(pieces[i])
    <3>1. pieces[i] = piece(i) /\ 1 \in 1 .. Len(piece(i))
      BY <1>3, <2>1
    <3>2. QED
      BY <2>1, <3>1
  <2>3. ASSUME NEW a \in Seq(Cell), NEW b \in Seq(Cell), Dirty(a) \/ Dirty(b) PROVE Dirty(a \o b)
    <3>1. Len(a) \in Nat /\ Len(b) \in Nat /\ Len(a \o b) = Len(a) + Len(b)
      OBVIOUS
    <3>2. CASE Dirty(a)
      <4>1. PICK j \in 1 .. Len(a) : a[j] = Garbage
        BY <3>2
      <4>2. j \in 1 .. Len(a \o b) /\ (a \o b)[j] = a[j]
        BY <3>1
      <4>3. QED
        BY <4>1, <4>2
    <3>3. CASE Dirty(b)
      <4>1. PICK j \in 1 .. Len(b) : b[j] = Garbage
        BY <3>3
      <4> DEFINE k == Len(a) + j
      <4>2. k \in 1 .. Len(a) + Len(b) /\ ~(k <= Len(a)) /\ k - Len(a) = j
        BY <3>1
      <4> HIDE DEF k
      <4>3. (a \o b)[k] = b[j]
        BY <4>2
      <4>4. QED
        BY <3>1, <4>1, <4>2, <4>3
    <3>4. QED
      BY <2>3, <3>2, <3>3
  <2> HIDE DEF Dirty
  <2>4. 0 \in P
    <3>1. Dirty(w[i])
      <4>1. CASE i = 1
        BY <1>5, <2>2, <4>1
      <4>2. CASE i # 1
        <5>1. i \in 2 .. n /\ i - 1 \in 1 .. n
          BY <1>1, <4>2
        <5>2. w[i] = w[i - 1] \o pieces[i] /\ w[i - 1] \in Seq(Cell) /\ pieces[i] \in Seq(Cell)
          BY <1>3, <1>5, <5>1
        <5>3. QED
          BY <2>2, <2>3, <5>2
      <4>3. QED
        BY <4>1, <4>2
    <3>2. i + 0 = i
      BY <1>1
    <3>3. QED
      BY <3>1, <3>2
  <2>5. ASSUME NEW m \in Nat, m \in P PROVE m + 1 \in P
    <3> SUFFICES ASSUME i + (m + 1) <= n PROVE Dirty(w[i + (m + 1)])
      OBVIOUS
    <3> DEFINE k == i + (m + 1)
    <3>1. k \in 2 .. n /\ k \in 1 .. n /\ k - 1 = i + m /\ k - 1 \in 1 .. n /\ i + m <= n
      BY <1>1
    <3>2. Dirty(w[k - 1])
      BY <2>5, <3>1
    <3> HIDE DEF k, P
    <3>3. w[k] = w[k - 1] \o pieces[k] /\ w[k - 1] \in Seq(Cell) /\ pieces[k] \in Seq(Cell)
      BY <1>3, <1>5, <3>1
    <3>4. QED
      BY <2>3, <3>2, <3>3 DEF k
  <2> HIDE DEF P
  <2>6. Nat \subseteq P
    BY <2>4, <2>5, NatSetInduction
  <2>7. n - i \in Nat /\ n - i \in P /\ i + (n - i) = n
    BY <1>1, <2>6
  <2>8. Dirty(w[n])
    BY <1>1, <2>7 DEF P
  <2>9. Garbage \notin Byte
    BY BuffersAssumption
  <2>10. ~Dirty(SubSeq(payload, 1, total))
    <3>1. total \in 0 .. Len(payload)
      BY <1>1, <1>2 DEF total, t
    <3>2. SubSeq(payload, 1, total) \in Seq(Byte)
      BY <3>1
    <3>3. QED
      BY <2>9, <3>2, ElementOfSeq DEF Dirty
  <2>11. QED
    BY <2>8, <2>10
<1>8. QED
  BY <1>4, <1>5, <1>6, <1>7, Zenon DEF after, total, n

(* What a result says of the data buffers of its operation.                 *)
LEMMA ResultIs ==
    ASSUME NEW o, GoodOp(o), NEW m, IsMessage(m), NEW vec \in VecType, o.buffers.data = {vec}
    PROVE  /\ Completion(o, Written(o, m)).bytes = Taken(vec, m.bytes, Len(vec))
           /\ Completion(o, Written(o, m)).buffers.data = {After(vec, m.bytes)}
<1>1. LET r == Completion(o, Written(o, m))
      IN  /\ r.bytes = CountOf(Written(o, m))
          /\ r.buffers = RecvMsgBuffers(IntoDataBuffers(o, Written(o, m)),
                                        {ControlAfter(b, Written(o, m)) : b \in o.buffers.control})
  BY CompletionIs
<1>2. m.bytes \in Seq(Byte)
  BY DEF IsMessage
<1>3. CountOf(Written(o, m)) = Taken(vec, m.bytes, Len(vec)) /\ IntoDataBuffers(o, Written(o, m)) = {After(vec, m.bytes)}
  BY <1>2, DataReturned
<1>4. QED
  BY <1>1, <1>3 DEF RecvMsgBuffers

(* A result in hand, in the terms of the lemmas above. *)
LEMMA GotIs ==
    ASSUME MInv, NEW g \in got, NEW before \in g.of.buffers.data
    PROVE  /\ GoodOp(g.of) /\ IsMessage(g.message) /\ g.message.bytes \in Seq(Byte)
           /\ before \in VecType /\ g.of.buffers.data = {before} /\ OutputIoVecs(before) # {}
           /\ g.result.bytes = Taken(before, g.message.bytes, Len(before))
           /\ g.result.buffers.data = {After(before, g.message.bytes)}
<1>1. GoodGot(g)
  BY GotIsOne DEF MInv
<1>2. GoodOp(g.of) /\ IsMessage(g.message) /\ g.message.bytes \in Seq(Byte)
  BY <1>1 DEF GoodGot, IsMessage
<1>3. before \in VecType /\ g.of.buffers.data = {before} /\ OutputIoVecs(before) # {}
  BY <1>2, UseIs DEF GoodOp
<1>4. g.result = Completion(g.of, Written(g.of, g.message))
  BY <1>1 DEF GoodGot
<1>5. QED
  BY <1>2, <1>3, <1>4, ResultIs

(* The bytes that a receive adds to its buffers are those of the message,   *)
(* in order, and as many as the result counts, exactly if the count did not *)
(* reach a full buffer of a vectored receive (IoBuffers::into_bytes,        *)
(* buffers.rs:588 and 671). For buffers of any number, sizes and contents,  *)
(* in any order, and messages of any length: up to the first full buffer    *)
(* the count reaches, chunks and spare memory give each buffer the same     *)
(* share, and that buffer takes a byte that nobody wrote.                   *)
THEOREM BytesLandInOrderHolds == Spec => []BytesLandInOrder
<1>1. MInv => BytesLandInOrder
  <2> SUFFICES ASSUME MInv, NEW g \in got, NEW before \in g.of.buffers.data, NEW after \in g.result.buffers.data
               PROVE  (Added(before, after) = SubSeq(g.message.bytes, 1, g.result.bytes))
                          <=> (g.of.kind = "Read" \/ ~Overtaken(before, g.result.bytes))
    BY Zenon DEF BytesLandInOrder
  <2> DEFINE o == g.of
             p == g.message.bytes
             total == Taken(before, p, Len(before))
  <2>2. /\ GoodOp(o) /\ p \in Seq(Byte)
        /\ before \in VecType /\ o.buffers.data = {before} /\ OutputIoVecs(before) # {}
        /\ g.result.bytes = total /\ g.result.buffers.data = {After(before, p)}
    BY GotIs
  <2>7. after = After(before, p)
    BY <2>2
  <2>8. before # <<>>
    BY <2>2 DEF OutputIoVecs
  <2>9. (Added(before, after) = SubSeq(p, 1, total)) <=> ~Overtaken(before, total)
    BY <2>2, <2>7, <2>8, LandsInOrder
  <2>10. o.kind = "Read" => ~Overtaken(before, total)
    <3> SUFFICES ASSUME o.kind = "Read" PROVE ~Overtaken(before, total)
      OBVIOUS
    <3>1. PICK b \in DataType : o.buffers = RecvMsgBuffers({<<b>>}, {}) /\ SpareOf(b) > 0
      BY <2>2 DEF GoodOp
    <3>2. before = <<b>>
      BY <2>2, <3>1 DEF RecvMsgBuffers
    <3>3. DOMAIN before = {1} /\ before[1] = b /\ SpareOf(b) # 0
      BY <3>1, <3>2, SingleVec, Room DEF DataType
    <3> HIDE DEF total
    <3>4. QED
      BY <3>3 DEF Overtaken
  <2>11. QED
    BY <2>2, <2>9, <2>10
<1>2. QED
  BY <1>1, MInvHolds, PTL

-----------------------------------------------------------------------------
(* A receive into one empty buffer makes it the start of the message.       *)
LEMMA OneBufferFilled ==
    ASSUME NEW vec \in VecType, Len(vec) = 1, vec[1].bytes = <<>>, OutputIoVecs(vec) # {}, NEW payload \in Seq(Byte)
    PROVE  LET n == Taken(vec, payload, 1)
           IN  /\ n \in 0 .. Len(payload)
               /\ Len(After(vec, payload)) = 1
               /\ After(vec, payload)[1].bytes = SubSeq(payload, 1, n)
<1> DEFINE n == Taken(vec, payload, 1)
           after == After(vec, payload)
           s == SumTo(Spares(vec), 0)
<1>1. DOMAIN vec = {1} /\ 1 \in 1 .. Len(vec) /\ 1 \in 0 .. Len(vec)
  <2>1. DOMAIN vec = 1 .. Len(vec)
    BY VecSums
  <2>2. QED
    BY <2>1
<1>2. n \in 0 .. Len(payload)
  BY <1>1, ScatterIs
<1>3. SpareOf(vec[1]) # 0
  <2>1. SpareOf(vec[1]) > 0
    BY <1>1 DEF OutputIoVecs
  <2>2. QED
    BY <2>1
<1> HIDE DEF n
<1>4. ~Overtaken(vec, n)
  BY <1>1, <1>3 DEF Overtaken
<1>5. Taken(vec, payload, 1 - 1) + 1 = 1
  BY CountIs
<1>6. Contents(Scatter(vec, payload)[1], Share(vec, n, 1)) = SubSeq(payload, Taken(vec, payload, 1 - 1) + 1, n)
  BY <1>1, <1>4, PieceIsPart DEF n
<1>7. after[1].bytes = vec[1].bytes \o Contents(Scatter(vec, payload)[1], Share(vec, n, 1))
  <2>1. After(vec, payload)[1].bytes =
            vec[1].bytes \o Contents(Scatter(vec, payload)[1], Share(vec, Taken(vec, payload, Len(vec)), 1))
    BY <1>1, PiecesAre
  <2>2. QED
    BY <2>1, Zenon DEF n
<1> HIDE DEF after
<1>8. after[1].bytes = <<>> \o SubSeq(payload, 1, n)
  BY <1>5, <1>6, <1>7
<1>9. <<>> \o SubSeq(payload, 1, n) = SubSeq(payload, 1, n)
  <2>1. SubSeq(payload, 1, n) \in Seq(Byte)
    BY <1>2
  <2>2. QED
    BY <2>1, ConcatEmptySeq
<1>10. Len(after) = 1
  <2>1. after \in VecType /\ DOMAIN after = DOMAIN vec
    BY AfterIs DEF after
  <2>2. Len(after) \in Nat /\ DOMAIN after = 1 .. Len(after)
    BY <2>1, VecSums
  <2>3. Len(after) \in Nat /\ 1 .. Len(after) = {1}
    BY <1>1, <2>1, <2>2
  <2>4. 1 \in 1 .. Len(after) /\ Len(after) \in 1 .. Len(after)
    BY <2>3
  <2>5. QED
    BY <2>3, <2>4
<1>11. after[1].bytes = SubSeq(payload, 1, n)
  BY <1>8, <1>9, Zenon
<1>12. QED
  BY <1>2, <1>10, <1>11, Zenon DEF after, n

(* A recvmsg into one empty buffer finds the alert of the message exactly   *)
(* if a control message told it that the record is one and two bytes at     *)
(* least arrived (IoRecvMessage::get_alert, message.rs:1577). For any       *)
(* payloads, control messages and sizes of the buffers.                     *)
THEOREM AlertsAreTheRecordsHolds == Spec => []AlertsAreTheRecords
<1>1. MInv => AlertsAreTheRecords
  <2> SUFFICES ASSUME MInv, NEW g \in got, NEW before \in g.of.buffers.data,
                      g.result.kind = "RecvMsg", Len(before) = 1, before[1].bytes = <<>>
               PROVE  GetAlert(g.result) =
                        {[level |-> TlsAlertLevelOf(g.message.bytes[1]), description |-> SubSeq(g.message.bytes, 2, n)] :
                            n \in {g.result.bytes} \cap IF CarriesAlert(g) THEN 1 .. 2 ELSE {}}
    BY Zenon DEF AlertsAreTheRecords
  <2> DEFINE o == g.of
             p == g.message.bytes
             k == Taken(before, p, 1)
             after == After(before, p)
  <2>1. /\ GoodOp(o) /\ IsMessage(g.message)
        /\ g.result.bytes = Taken(before, p, Len(before)) /\ g.result.buffers.data = {after}
    BY GotIs
  <2>2. p \in Seq(Byte)
    BY GotIs
  <2>3. before \in VecType /\ OutputIoVecs(before) # {}
    BY GotIs
  <2>4. g.result.bytes = k /\ g.result.buffers.data = {after}
    BY <2>1
  <2>5. k \in 0 .. Len(p) /\ Len(after) = 1 /\ after[1].bytes = SubSeq(p, 1, k)
    BY <2>2, <2>3, OneBufferFilled
  <2> HIDE DEF after, k
  <2>6. Len(SubSeq(p, 1, k)) = k
    BY <2>2, <2>5
  <2>7. ASSUME k \in 1 .. 2 PROVE SubSeq(p, 1, k)[1] = p[1] /\ Tail(SubSeq(p, 1, k)) = SubSeq(p, 2, k)
    <3> DEFINE q == SubSeq(p, 1, k)
    <3>1. q \in Seq(Byte) /\ Len(q) = k /\ \A i \in 1 .. k : q[i] = p[i]
      BY <2>2, <2>5, <2>7
    <3>2. SubSeq(p, 2, k) \in Seq(Byte) /\ Len(SubSeq(p, 2, k)) = k - 1
          /\ \A i \in 1 .. k - 1 : SubSeq(p, 2, k)[i] = p[i + 1]
      BY <2>2, <2>5, <2>7
    <3> HIDE DEF q
    <3>3. q # <<>> /\ 1 \in 1 .. k
      BY <2>7, <3>1
    <3>4. Tail(q) \in Seq(Byte) /\ Len(Tail(q)) = k - 1 /\ \A i \in 1 .. k - 1 : Tail(q)[i] = q[i + 1]
      BY <2>7, <3>1, <3>3
    <3>5. \A i \in 1 .. k - 1 : i + 1 \in 1 .. k
      BY <2>7
    <3>6. Tail(q) = SubSeq(p, 2, k)
      BY <3>1, <3>2, <3>4, <3>5, SeqEqual
    <3>7. QED
      BY <3>1, <3>3, <3>6 DEF q
  <2>8. GetAlert(g.result) =
            {[level |-> TlsAlertLevelOf(vec[1].bytes[1]), description |-> Tail(vec[1].bytes)] :
                vec \in {v \in {after} : CarriesAlert(g) /\ Len(v) = 1 /\ Len(v[1].bytes) \in 1 .. 2}}
    BY <2>4, Zenon DEF GetAlert, CarriesAlert
  <2>9. CASE CarriesAlert(g) /\ k \in 1 .. 2
    <3>1. {v \in {after} : CarriesAlert(g) /\ Len(v) = 1 /\ Len(v[1].bytes) \in 1 .. 2} = {after}
      BY <2>5, <2>6, <2>9
    <3>2. GetAlert(g.result) = {[level |-> TlsAlertLevelOf(after[1].bytes[1]), description |-> Tail(after[1].bytes)]}
      BY <2>8, <3>1
    <3>3. GetAlert(g.result) = {[level |-> TlsAlertLevelOf(p[1]), description |-> SubSeq(p, 2, k)]}
      BY <2>5, <2>7, <2>9, <3>2
    <3>4. {g.result.bytes} \cap (IF CarriesAlert(g) THEN 1 .. 2 ELSE {}) = {k}
      BY <2>4, <2>9
    <3>5. QED
      BY <3>3, <3>4
  <2>10. CASE ~(CarriesAlert(g) /\ k \in 1 .. 2)
    <3>1. {v \in {after} : CarriesAlert(g) /\ Len(v) = 1 /\ Len(v[1].bytes) \in 1 .. 2} = {}
      BY <2>5, <2>6, <2>10
    <3>2. GetAlert(g.result) = {}
      BY <2>8, <3>1
    <3>3. {g.result.bytes} \cap (IF CarriesAlert(g) THEN 1 .. 2 ELSE {}) = {}
      BY <2>4, <2>10
    <3>4. QED
      BY <3>2, <3>3
  <2>11. QED
    BY <2>9, <2>10
<1>2. QED
  BY <1>1, MInvHolds, PTL

-----------------------------------------------------------------------------
(* Descriptors are told by the messages of one type and no other.           *)
LEMMA RightsOfLevel ==
    ASSUME NEW raw, Parse(raw) # {}, raw.type = "SCM_RIGHTS"
    PROVE  raw.level = "SOL_SOCKET"
<1>1. ~IsOne(raw, IpV4Size) /\ ~IsOne(raw, IpV6Size) /\ ~IsOne(raw, TlsSize)
  BY DEF IsOne, IpV4Size, IpV6Size, TlsSize
<1>2. ParseIpV4(raw) = {} /\ ParseIpV6(raw) = {} /\ ParseTls(raw) = {}
  BY <1>1 DEF ParseIpV4, ParseIpV6, ParseTls
<1>3. QED
  BY <1>2 DEF Parse

(* An SCM_RIGHTS message parses to the descriptors in it. *)
LEMMA RightsAreParsed ==
    ASSUME NEW raw, IsRaw(raw), raw.type = "SCM_RIGHTS", raw.level = "SOL_SOCKET"
    PROVE  Parse(raw) = {ControlMessage("Socket", "Rights", raw.value)}
<1>1. Len(raw.value) \in Nat /\ raw.len = 4 * Len(raw.value)
  BY DEF IsRaw
<1>2. \A n \in Nat : (4 * n) % 4 = 0
  OBVIOUS
<1>3. IsMany(raw, "SCM_RIGHTS")
  BY <1>1, <1>2 DEF IsMany, MemberSize
<1>4. ~IsMany(raw, "SCM_TIMESTAMPING") /\ ~IsOne(raw, SocketSize)
  BY DEF IsMany, IsOne, SocketSize
<1>5. Parse(raw) = ParseSocket(raw)
  BY DEF Parse
<1>6. QED
  BY <1>3, <1>4, <1>5 DEF ParseSocket

(* No other message parses to descriptors. *)
LEMMA NoRightsElse ==
    ASSUME NEW raw, raw.type # "SCM_RIGHTS", NEW m \in Parse(raw)
    PROVE  m.kind # "Rights"
<1>1. \A level, kind, value : ControlMessage(level, kind, value).kind = kind
  BY DEF ControlMessage
<1>2. ~IsMany(raw, "SCM_RIGHTS")
  BY DEF IsMany
<1>3. CASE raw.level = "SOL_SOCKET"
  <2>1. \/ m = ControlMessage("Socket", "DetailedTimestamp", raw.value)
        \/ m = ControlMessage("Socket", IF raw.type = "SCM_CREDENTIALS" THEN "Credentials" ELSE "Timestamp", raw.value)
    BY <1>2, <1>3 DEF Parse, ParseSocket
  <2>2. QED
    BY <1>1, <2>1
<1>4. CASE raw.level = "IPPROTO_IP"
  <2>1. \E value : m = ControlMessage("IpV4", "PacketInfo", value) \/ m = ControlMessage("IpV4", "TimeToLive", value)
    BY <1>4 DEF Parse, ParseIpV4
  <2>2. QED
    BY <1>1, <2>1
<1>5. CASE raw.level = "IPPROTO_IPV6"
  <2>1. \E value : \/ m = ControlMessage("IpV6", "PacketInfo", value)
                   \/ m = ControlMessage("IpV6", "HopLimit", value)
                   \/ m = ControlMessage("IpV6", "Class", value)
    BY <1>5 DEF Parse, ParseIpV6
  <2>2. QED
    BY <1>1, <2>1
<1>6. CASE raw.level = "SOL_TLS"
  <2>1. m = ControlMessage("Tls", "GetRecordType", raw.value)
    BY <1>6 DEF Parse, ParseTls
  <2>2. QED
    BY <1>1, <2>1
<1>7. QED
  BY <1>3, <1>4, <1>5, <1>6 DEF Parse

(* All the messages parse, so what each tells is what it held.              *)
LEMMA RightsOfAll ==
    ASSUME NEW n \in Nat, NEW raws, DOMAIN raws = 1 .. n,
           \A i \in 1 .. n : IsRaw(raws[i]) /\ Parse(raws[i]) # {}
    PROVE  UNION {UNION {ToSet(m.value) : m \in {k \in ToSet(messages) : k.kind = "Rights"}} :
                      messages \in {[i \in DOMAIN raws |-> CHOOSE m \in Parse(raws[i]) : TRUE]}}
             = UNION {ToSet(raw.value) : raw \in {r \in ToSet(raws) : r.type = "SCM_RIGHTS"}}
<1> DEFINE messages == [i \in DOMAIN raws |-> CHOOSE m \in Parse(raws[i]) : TRUE]
           told == {k \in ToSet(messages) : k.kind = "Rights"}
           rights == {r \in ToSet(raws) : r.type = "SCM_RIGHTS"}
<1>1. ASSUME NEW i \in 1 .. n
      PROVE  /\ raws[i].type = "SCM_RIGHTS" => messages[i].kind = "Rights" /\ messages[i].value = raws[i].value
             /\ raws[i].type # "SCM_RIGHTS" => messages[i].kind # "Rights"
  <2>1. messages[i] \in Parse(raws[i])
    BY Zenon
  <2> HIDE DEF messages
  <2>2. CASE raws[i].type = "SCM_RIGHTS"
    <3>1. Parse(raws[i]) = {ControlMessage("Socket", "Rights", raws[i].value)}
      BY <2>2, RightsOfLevel, RightsAreParsed
    <3>2. messages[i] = ControlMessage("Socket", "Rights", raws[i].value)
      BY <2>1, <3>1
    <3>3. QED
      BY <2>2, <3>2 DEF ControlMessage
  <2>3. CASE raws[i].type # "SCM_RIGHTS"
    BY <2>1, <2>3, NoRightsElse
  <2>4. QED
    BY <2>2, <2>3
<1>2. ToSet(messages) = {messages[i] : i \in 1 .. n} /\ ToSet(raws) = {raws[i] : i \in 1 .. n}
  BY Zenon DEF ToSet
<1> HIDE DEF messages
<1>3. {ToSet(m.value) : m \in told} = {ToSet(r.value) : r \in rights}
  <2>1. ASSUME NEW m \in told PROVE \E r \in rights : r.value = m.value
    BY <1>1, <1>2
  <2>2. ASSUME NEW r \in rights PROVE \E m \in told : m.value = r.value
    BY <1>1, <1>2
  <2> HIDE DEF told, rights
  <2>3. QED
    BY <2>1, <2>2
<1>4. UNION {UNION {ToSet(m.value) : m \in {k \in ToSet(msgs) : k.kind = "Rights"}} : msgs \in {messages}}
          = UNION {ToSet(m.value) : m \in told}
  OBVIOUS
<1>5. QED
  BY <1>3, <1>4, Zenon DEF messages

(* Every descriptor the kernel installed for a receive is told to the       *)
(* program, unless a message the control buffer had no room for was cut,    *)
(* and it is not the descriptors' own, or the socket has the kernel add a   *)
(* message that does not parse (IoControlMessage::try_parse and prepare,    *)
(* message.rs). For any control messages in any number and order: whatever  *)
(* prepare makes of one arrives as one that parse knows, and a message of   *)
(* descriptors that is cut still parses to those it kept.                   *)
THEOREM RightsAreToldHolds == Spec => []RightsAreTold
<1>1. MInv => RightsAreTold
  <2> SUFFICES ASSUME MInv, NEW g \in got,
                      ~(g.written.controls.cut /\ Last(g.written.controls.raws).type # "SCM_RIGHTS"),
                      \A raw \in ToSet(g.message.socket.adds) : Parse(raw) # {}
               PROVE  Installed(g) = Told(g)
    BY DEF RightsAreTold
  <2> DEFINE o == g.of
             m == g.message
             controls == g.written.controls
             raws == controls.raws
             R == ToSet(m.raws)
  <2>1. GoodGot(g)
    BY GotIsOne DEF MInv
  <2>2. GoodOp(o) /\ IsMessage(m) /\ g.written = Written(o, m) /\ g.result = Completion(o, g.written)
    BY <2>1 DEF GoodGot
  <2>3. g.result.control = IF o.kind = "RecvMsg" THEN ParsedControl(g.written) ELSE {}
    <3>1. LET r == Completion(o, Written(o, m))
          IN  r.control = IF o.kind = "RecvMsg" THEN ParsedControl(Written(o, m)) ELSE {}
      BY <2>2, CompletionIs
    <3>2. QED
      BY <2>2, <3>1
  <2>4. PutSound(R, RoomFor(o), controls)
    BY <2>2, ControlsWritten
  <2>5. CASE raws = <<>>
    <3>1. Installed(g) = {}
      BY <2>5 DEF Installed, ToSet
    <3>2. g.result.control = {}
      BY <2>3, <2>5 DEF ParsedControl, None
    <3>3. Told(g) = {}
      BY <3>2 DEF Told
    <3>4. QED
      BY <3>1, <3>3
  <2>6. CASE raws # <<>>
    <3>1. o.kind = "RecvMsg"
      <4>1. o.buffers.control # {}
        BY <2>4, <2>6 DEF PutSound, RoomFor, None
      <4>2. o.kind = "Read" => o.buffers.control = {}
        <5> SUFFICES ASSUME o.kind = "Read" PROVE o.buffers.control = {}
          OBVIOUS
        <5>1. PICK b \in DataType : o.buffers = RecvMsgBuffers({<<b>>}, {})
          BY <2>2, Zenon DEF GoodOp
        <5>2. QED
          BY <5>1 DEF RecvMsgBuffers
      <4>3. QED
        BY <2>2, <4>1, <4>2 DEF GoodOp
    <3>2. Len(raws) \in Nat /\ DOMAIN raws = 1 .. Len(raws)
      <4>1. raws \in Seq(R \cup Cuts(R))
        BY <2>4 DEF PutSound
      <4>2. QED
        BY <4>1
    <3>3. \A raw \in R : Parse(raw) # {}
      BY <2>2 DEF IsMessage
    <3>4. ASSUME NEW i \in 1 .. Len(raws) PROVE IsRaw(raws[i]) /\ Parse(raws[i]) # {}
      <4>1. /\ IsRaw(raws[i])
            /\ raws[i] \in R \/ (controls.cut /\ i = Len(raws)
                                 /\ \E raw \in R : raws[i].type = raw.type /\ raws[i].level = raw.level)
        BY <2>4, <3>2 DEF PutSound
      <4>2. CASE raws[i] \in R
        BY <3>3, <4>1, <4>2
      <4>3. CASE controls.cut /\ i = Len(raws) /\ \E raw \in R : raws[i].type = raw.type /\ raws[i].level = raw.level
        <5>1. raws[i].type = "SCM_RIGHTS"
          BY <4>3 DEF Last
        <5>2. raws[i].level = "SOL_SOCKET"
          BY <3>3, <4>3, <5>1, RightsOfLevel
        <5>3. QED
          BY <4>1, <5>1, <5>2, RightsAreParsed
      <4>4. QED
        BY <4>1, <4>2, <4>3
    <3>5. g.result.control = {[i \in DOMAIN raws |-> CHOOSE x \in Parse(raws[i]) : TRUE]}
      <4>1. g.result.control = ParseFromMsghdr(raws)
        BY <2>3, <2>6, <3>1 DEF ParsedControl
      <4>2. ~(raws = <<>> \/ \E i \in DOMAIN raws : Parse(raws[i]) = {})
        BY <2>6, <3>2, <3>4
      <4> HIDE DEF raws
      <4>3. QED
        BY <4>1, <4>2, Zenon DEF ParseFromMsghdr
    <3>6. Installed(g) = UNION {ToSet(raw.value) : raw \in {r \in ToSet(raws) : r.type = "SCM_RIGHTS"}}
      BY Zenon DEF Installed
    <3>7. Told(g) = UNION {UNION {ToSet(k.value) : k \in {n \in ToSet(messages) : n.kind = "Rights"}} :
                              messages \in {[i \in DOMAIN raws |-> CHOOSE x \in Parse(raws[i]) : TRUE]}}
      BY <3>5, Zenon DEF Told
    <3> HIDE DEF raws
    <3>8. QED
      BY <3>2, <3>4, <3>6, <3>7, RightsOfAll, Zenon
  <2>7. QED
    BY <2>5, <2>6
<1>2. QED
  BY <1>1, MInvHolds, PTL

-----------------------------------------------------------------------------
(* Numbers of 8 and 16 bits, and the bytes of one of 16.                    *)

IsByte(x) == x \in Nat /\ x < 256
IsGroup(x) == x \in Nat /\ x < 65536
HighOf(x) == x \div 256
LowOf(x) == x % 256
PairOf(a, b) == a * 256 + b

(* A number, from its quotient and its remainder. *)
LEMMA Division ==
    ASSUME NEW a \in Nat, NEW m \in Nat \ {0}
    PROVE  a = m * (a \div m) + (a % m)
BY DivisionTheorem, Zenon

(* The high byte of a number of 16 bits. *)
LEMMA HighIs == ASSUME NEW a, IsGroup(a) PROVE IsByte(HighOf(a))
BY DEF IsGroup, IsByte, HighOf

(* The low byte. *)
LEMMA LowIs == ASSUME NEW a, IsGroup(a) PROVE IsByte(LowOf(a))
BY DEF IsGroup, IsByte, LowOf

(* The number of its two bytes. *)
LEMMA GroupIs == ASSUME NEW a, IsGroup(a) PROVE a = PairOf(HighOf(a), LowOf(a))
<1>1. PICK m : m = 256
  OBVIOUS
<1>2. m \in Nat \ {0} /\ a \in Nat
  BY <1>1 DEF IsGroup
<1>3. a = m * (a \div m) + (a % m)
  BY <1>2, Division, Zenon
<1>4. a \div m = HighOf(a) /\ a % m = LowOf(a)
  BY <1>1 DEF HighOf, LowOf
<1>5. HighOf(a) \in Nat /\ LowOf(a) \in Nat
  BY HighIs, LowIs DEF IsByte
<1>6. QED
  BY <1>1, <1>3, <1>4, <1>5 DEF PairOf

(* Two bytes make a number of 16 bits. *)
LEMMA PairIs ==
    ASSUME NEW a, NEW b, IsByte(a), IsByte(b)
    PROVE  IsGroup(PairOf(a, b)) 
BY DEF IsByte, IsGroup, PairOf

(* Its high byte is the first. *)
LEMMA PairHigh ==
    ASSUME NEW a, NEW b, IsByte(a), IsByte(b)
    PROVE  HighOf(PairOf(a, b)) = a 
BY DEF IsByte, HighOf, PairOf

(* Its low byte is the second. *)
LEMMA PairLow ==
    ASSUME NEW a, NEW b, IsByte(a), IsByte(b)
    PROVE  LowOf(PairOf(a, b)) = b
BY DEF IsByte, LowOf, PairOf

(* A port in the other order of bytes. *)
LEMMA PortBeIs == ASSUME NEW port PROVE PortBe(port) = PairOf(LowOf(port), HighOf(port))
BY SMT DEF PortBe, PairOf, LowOf, HighOf

-----------------------------------------------------------------------------
(* compress_v6: the runs of zeros in the groups of an IPv6 address.         *)

IsRun(parts, i, n) ==
    /\ n \in 0 .. i
    /\ \A j \in (i - n + 1) .. i : parts[j] = 0
    /\ n < i => parts[i - n] /= 0

(* The run of zeros that ends at a group: no group of it but is zero, and   *)
(* the one before it is not.                                                *)
LEMMA ZerosToIs == ASSUME NEW parts, NEW i \in Nat PROVE IsRun(parts, i, ZerosTo(parts, i))
<1> DEFINE T == {k \in 0 .. i : \A j \in k + 1 .. i : parts[j] = 0}
<1>1. i \in T /\ T \in SUBSET Nat
  OBVIOUS
<1>2. PICK k \in T : \A m \in T : k <= m
  <2> HIDE DEF T
  <2>1. T # {}
    BY <1>1
  <2>2. QED
    BY <1>1, <2>1, LeastNatural
<1>3. k \in 0 .. i /\ \A j \in k + 1 .. i : parts[j] = 0
  BY <1>2
<1>4. ASSUME k > 0 PROVE parts[k] /= 0
  <2>1. k - 1 \in 0 .. i /\ ~(k <= k - 1)
    BY <1>3, <1>4
  <2>2. PICK j \in (k - 1) + 1 .. i : parts[j] /= 0
    BY <1>2, <2>1
  <2>3. QED
    BY <1>3, <2>2
<1>5. i - k \in 0 .. i /\ i - (i - k) = k
  BY <1>3
<1>6. IsRun(parts, i, i - k)
  BY <1>3, <1>4, <1>5 DEF IsRun
<1>7. ZerosTo(parts, i) = CHOOSE n \in 0 .. i : IsRun(parts, i, n)
  BY Zenon DEF ZerosTo, IsRun
<1>8. \E n \in 0 .. i : IsRun(parts, i, n)
  BY <1>5, <1>6, Zenon
<1>9. QED
  BY <1>7, <1>8, Zenon

(* The longest run is the run of some group, and no run is longer. *)
LEMMA MostIs ==
    ASSUME NEW parts
    PROVE  /\ MostZeroes(parts) \in 0 .. 8
           /\ \E i \in 1 .. 8 : ZerosTo(parts, i) = MostZeroes(parts)
           /\ \A i \in 1 .. 8 : ZerosTo(parts, i) <= MostZeroes(parts)
<1> DEFINE runs == {ZerosTo(parts, i) : i \in 1 .. 8}
           T == {8 - n : n \in runs}
<1>1. \A n \in runs : n \in 0 .. 8
  <2>1. \A i \in 1 .. 8 : ZerosTo(parts, i) \in 0 .. i
    BY ZerosToIs DEF IsRun
  <2>2. \A i \in 1 .. 8 : ZerosTo(parts, i) \in 0 .. 8
    BY <2>1
  <2>3. QED
    BY <2>2, Zenon
<1>2. runs # {}
  OBVIOUS
<1> HIDE DEF runs
<1>3. T \in SUBSET Nat /\ T # {}
  BY <1>1, <1>2
<1>4. PICK t \in T : \A u \in T : t <= u
  <2> HIDE DEF T
  <2>1. QED
    BY <1>3, LeastNatural
<1>5. PICK n \in runs : t = 8 - n
  OBVIOUS
<1>6. \A m \in runs : m <= n
  <2>1. \A m \in runs : 8 - n <= 8 - m
    BY <1>4, <1>5
  <2>2. QED
    BY <1>1, <2>1
<1>7. MostZeroes(parts) = CHOOSE x \in runs : \A m \in runs : m <= x
  BY Zenon DEF MostZeroes, runs
<1>8. MostZeroes(parts) \in runs /\ \A m \in runs : m <= MostZeroes(parts)
  BY <1>6, <1>7, Zenon
<1>9. QED
  BY <1>1, <1>8, Zenon DEF runs

(* There is a first group of a longest run, and double_colon_index is it. *)
LEMMA DoubleColonIs ==
    ASSUME NEW parts, MostZeroes(parts) # 0
    PROVE  LET d == DoubleColon(parts) M == MostZeroes(parts)
           IN  /\ d \in 1 .. 8 /\ d + M - 1 \in 1 .. 8
               /\ ZerosTo(parts, d + M - 1) = M
               /\ \A j \in 1 .. (d - 1) : ZerosTo(parts, j + M - 1) < M
<1> DEFINE M == MostZeroes(parts)
           Z(i) == ZerosTo(parts, i)
           T == {i \in 1 .. 8 : i + M - 1 \in 1 .. 8 /\ Z(i + M - 1) = M}
<1>0. M \in 1 .. 8 /\ \A i \in 1 .. 8 : Z(i) \in 0 .. i /\ Z(i) <= M
  BY MostIs, ZerosToIs DEF IsRun
<1>1. PICK e \in 1 .. 8 : Z(e) = M
  BY MostIs, Zenon
<1>2. DoubleColon(parts) = CHOOSE i \in 1 .. 8 : Z(i + M - 1) = M /\ \A j \in 1 .. (i - 1) : Z(j + M - 1) < M
  BY Zenon DEF DoubleColon
<1> HIDE DEF M, Z
<1>3. e - M + 1 \in 1 .. 8 /\ (e - M + 1) + M - 1 = e
  BY <1>0, <1>1
<1>4. e - M + 1 \in T /\ T \in SUBSET Nat
  BY <1>1, <1>3
<1>5. PICK d \in T : \A m \in T : d <= m
  <2> HIDE DEF T
  <2>1. T # {}
    BY <1>4
  <2>2. QED
    BY <1>4, <2>1, LeastNatural
<1>6. d \in 1 .. 8 /\ d + M - 1 \in 1 .. 8 /\ Z(d + M - 1) = M
  BY <1>5
<1>7. \A j \in 1 .. (d - 1) : Z(j + M - 1) < M
  <2>1. TAKE j \in 1 .. (d - 1)
  <2>2. j \in 1 .. 8 /\ j + M - 1 \in 1 .. 8 /\ ~(d <= j)
    BY <1>0, <1>6
  <2>3. Z(j + M - 1) # M
    BY <1>5, <2>2
  <2>4. QED
    BY <1>0, <2>2, <2>3
<1> DEFINE c == DoubleColon(parts)
<1>8. c \in 1 .. 8 /\ Z(c + M - 1) = M /\ \A j \in 1 .. (c - 1) : Z(j + M - 1) < M
  BY <1>2, <1>6, <1>7, Zenon
<1> HIDE DEF c
<1>9. c <= d
  <2>1. d \notin 1 .. (c - 1)
    BY <1>0, <1>6, <1>8
  <2>2. QED
    BY <1>6, <1>8, <2>1
<1>10. c + M - 1 \in 1 .. 8
  BY <1>0, <1>6, <1>8, <1>9
<1>11. QED
  BY <1>8, <1>10, Zenon DEF c, M, Z

(* From there on as many groups as the longest run are zero; if it is one   *)
(* group, it is the first zero, and no two zeros are together.              *)
LEMMA ZerosAre ==
    ASSUME NEW parts
    PROVE  LET d == DoubleColon(parts) M == MostZeroes(parts)
           IN  /\ M \in 0 .. 8
               /\ M # 0 => /\ d \in 1 .. 8 /\ d + M - 1 \in 1 .. 8
                           /\ \A j \in d .. d + M - 1 : parts[j] = 0
               /\ M = 1 => /\ \A j \in 1 .. d - 1 : parts[j] # 0
                           /\ \A i \in 1 .. 7 : ~(parts[i] = 0 /\ parts[i + 1] = 0)
<1> DEFINE M == MostZeroes(parts)
           Z(i) == ZerosTo(parts, i)
           d == DoubleColon(parts)
<1>0. M \in 0 .. 8 /\ \A i \in 1 .. 8 : Z(i) \in 0 .. i /\ Z(i) <= M /\ IsRun(parts, i, Z(i))
  <2>1. \A i \in 1 .. 8 : IsRun(parts, i, Z(i))
    <3>1. \A i \in 1 .. 8 : i \in Nat
      OBVIOUS
    <3>2. QED
      BY <3>1, ZerosToIs, Zenon
  <2>2. \A i \in 1 .. 8 : Z(i) \in 0 .. i
    BY <2>1, Zenon DEF IsRun
  <2>3. M \in 0 .. 8 /\ \A i \in 1 .. 8 : Z(i) <= M
    BY MostIs, Zenon
  <2>4. QED
    BY <2>1, <2>2, <2>3, Zenon
<1>1. ASSUME M # 0
      PROVE  /\ d \in 1 .. 8 /\ d + M - 1 \in 1 .. 8
             /\ \A j \in d .. d + M - 1 : parts[j] = 0
             /\ \A j \in 1 .. (d - 1) : Z(j + M - 1) < M
  <2>1. /\ d \in 1 .. 8 /\ d + M - 1 \in 1 .. 8 /\ Z(d + M - 1) = M
        /\ \A j \in 1 .. (d - 1) : Z(j + M - 1) < M
    BY <1>1, DoubleColonIs, Zenon
  <2> HIDE DEF d, M, Z
  <2>2. IsRun(parts, d + M - 1, M)
    BY <1>0, <2>1, Zenon
  <2>3. (d + M - 1) - M + 1 = d
    BY <1>0, <2>1
  <2>4. \A j \in d .. d + M - 1 : parts[j] = 0
    BY <2>2, <2>3 DEF IsRun
  <2>5. QED
    BY <2>1, <2>4, Zenon
<1>2. ASSUME M = 1 PROVE \A j \in 1 .. d - 1 : parts[j] # 0
  <2>1. d \in 1 .. 8 /\ \A j \in 1 .. (d - 1) : Z(j + M - 1) < M
    BY <1>1, <1>2
  <2> HIDE DEF d, M, Z
  <2>2. TAKE j \in 1 .. d - 1
  <2>3. j \in 1 .. 8 /\ j + M - 1 = j /\ j - 0 = j
    BY <1>2, <2>1
  <2>4. Z(j) = 0 /\ IsRun(parts, j, Z(j))
    <3>1. Z(j + M - 1) < M
      BY <2>1
    <3>2. Z(j) < M /\ Z(j) \in 0 .. j /\ IsRun(parts, j, Z(j))
      BY <1>0, <2>3, <3>1
    <3>3. QED
      BY <1>2, <2>3, <3>2
  <2> DEFINE n == Z(j)
  <2>5. n = 0 /\ IsRun(parts, j, n)
    BY <2>4
  <2> HIDE DEF n
  <2>6. n < j => parts[j - n] # 0
    BY <2>5, Zenon DEF IsRun
  <2>7. QED
    BY <2>3, <2>5, <2>6
<1>3. ASSUME M = 1, NEW i \in 1 .. 7, parts[i] = 0, parts[i + 1] = 0 PROVE FALSE
  <2> HIDE DEF d, M, Z
  <2> DEFINE n == Z(i + 1)
  <2>1. i + 1 \in 1 .. 8
    OBVIOUS
  <2>2. n \in 0 .. i + 1 /\ n <= M /\ IsRun(parts, i + 1, n)
    BY <1>0, <2>1
  <2> HIDE DEF n
  <2>3. n = 0 \/ n = 1
    BY <1>3, <2>2
  <2>4. n < i + 1 => parts[(i + 1) - n] # 0
    BY <2>2 DEF IsRun
  <2>5. n < i + 1 /\ (n = 0 => (i + 1) - n = i + 1) /\ (n = 1 => (i + 1) - n = i)
    BY <2>3
  <2>6. QED
    BY <1>3, <2>3, <2>4, <2>5
<1>4. QED
  BY <1>0, <1>1, <1>2, <1>3, Zenon

-----------------------------------------------------------------------------
(* Its text: an empty part for the longest run, one more at an end.         *)

(* A group is never taken for the empty part. *)
LEMMA NotBlank == ASSUME NEW x, IsGroup(x) PROVE x \in Nat /\ x # Blank /\ x < Blank /\ Blank \in Nat
BY DEF IsGroup, Blank

(* What is below the empty part is a group. *)
LEMMA GroupBelow == ASSUME NEW x \in Nat, x < Blank PROVE IsGroup(x)
BY DEF IsGroup, Blank

FrontOf(c) == IF c[1] = Blank THEN Tail(c) ELSE c
TrimOf(c) == IF Last(FrontOf(c)) = Blank THEN Front(FrontOf(c)) ELSE FrontOf(c)

(* A text with one empty part inside. *)
HasBlank(body, d) ==
    /\ body \in Seq(Nat) /\ Len(body) \in 1 .. 7 /\ d \in 1 .. Len(body)
    /\ \A i \in 1 .. Len(body) : body[i] = Blank <=> i = d

WithEdge(body, first) ==
    CASE body = <<Blank>> -> <<Blank, Blank, Blank>>
      [] Len(body) > 1 /\ first = 1 -> <<Blank>> \o body
      [] Len(body) > 1 /\ first = Len(body) -> Append(body, Blank)
      [] OTHER -> body

(* The first half of a sequence of two. *)
LEMMA FirstOfTwo == ASSUME NEW S, NEW s \in Seq(S), Len(s) = 2 PROVE SubSeq(s, 1, 1) = <<s[1]>>
<1> DEFINE u == SubSeq(s, 1, 1)
<1>1. u \in Seq(S) /\ Len(u) = 1 /\ u[1] = s[1]
  OBVIOUS
<1> HIDE DEF u
<1>2. u = <<u[1]>>
  BY <1>1
<1>3. QED
  BY <1>1, <1>2, Zenon DEF u

(* A number put in front of a sequence. *)
LEMMA BlankBefore ==
    ASSUME NEW body \in Seq(Nat), Len(body) \in Nat \ {0}, NEW x \in Nat
    PROVE  LET c == <<x>> \o body
           IN  c \in Seq(Nat) /\ Len(c) = Len(body) + 1 /\ c[1] = x /\ Tail(c) = body /\ c[2] = body[1]
BY SMTT(30)

(* The part put at an end of the text is the one that uncompress_v6 drops,  *)
(* and the text it makes has a double colon inside.                         *)
LEMMA EdgeIs ==
    ASSUME NEW body, NEW d, HasBlank(body, d)
    PROVE  LET c == WithEdge(body, d)
           IN  c \in Seq(Nat) /\ Len(c) \in 3 .. 8 /\ HasDoubleColon(c) /\ TrimOf(c) = body
<1> DEFINE c == WithEdge(body, d)
           m == Len(body)
<1>1. /\ body \in Seq(Nat) /\ m \in 1 .. 7 /\ d \in 1 .. m
      /\ \A i \in 1 .. m : body[i] = Blank <=> i = d
  BY Zenon DEF HasBlank
<1>2. Blank \in Nat
  BY DEF Blank
<1>8. (m > 1 => m # 1 /\ m + 1 \in 3 .. 8) /\ Len(<<Blank>>) = 1 /\ m \in Nat \ {0} /\ 1 \in 1 .. m
  <2> HIDE DEF m
  <2>1. QED
    BY <1>1
<1>9. m = 1 \/ (m > 1 /\ d = 1) \/ (m > 1 /\ d # 1 /\ d = m) \/ (m > 1 /\ d # 1 /\ d # m)
  <2> HIDE DEF m
  <2>1. QED
    BY <1>1
<1>3. CASE m = 1
  <2>1. body = <<Blank>>
    BY <1>1, <1>3
  <2>2. c = <<Blank, Blank, Blank>>
    BY <2>1 DEF WithEdge
  <2> HIDE DEF c
  <2>3. c \in Seq(Nat) /\ Len(c) = 3 /\ c[1] = Blank /\ c[2] = Blank
    BY <1>2, <2>2
  <2>4. Tail(c) = <<Blank, Blank>>
    BY <1>2, <2>2
  <2>5. FrontOf(c) = <<Blank, Blank>>
    BY <2>3, <2>4, Zenon DEF FrontOf
  <2>6. Last(<<Blank, Blank>>) = Blank /\ Front(<<Blank, Blank>>) = <<Blank>>
    <3> DEFINE t == <<Blank, Blank>>
    <3>1. t \in Seq(Nat) /\ Len(t) = 2 /\ t[1] = Blank /\ t[2] = Blank
      BY <1>2
    <3> HIDE DEF t
    <3>2. Last(t) = Blank /\ Front(t) = SubSeq(t, 1, 1)
      BY <3>1 DEF Last, Front
    <3>3. SubSeq(t, 1, 1) = <<t[1]>>
      BY <3>1, FirstOfTwo, Zenon
    <3>4. QED
      BY <3>1, <3>2, <3>3, Zenon DEF t
  <2>7. TrimOf(c) = body
    BY <2>1, <2>5, <2>6, Zenon DEF TrimOf
  <2>8. HasDoubleColon(c)
    BY <2>3 DEF HasDoubleColon
  <2>9. QED
    BY <2>3, <2>7, <2>8 DEF c
<1>4. CASE m > 1 /\ d = 1
  <2>1. m # 1 /\ body # <<Blank>>
    BY <1>4, <1>8, Zenon
  <2>2. c = <<Blank>> \o body
    BY <1>4, <2>1, Zenon DEF WithEdge
  <2> HIDE DEF c
  <2>3. c \in Seq(Nat) /\ Len(c) = m + 1 /\ c[1] = Blank /\ Tail(c) = body /\ c[2] = body[1]
    BY <1>1, <1>2, <1>8, <2>2, BlankBefore, Zenon
  <2>4. FrontOf(c) = body
    BY <2>3, Zenon DEF FrontOf
  <2>5. Last(body) # Blank
    BY <1>1, <1>4 DEF Last
  <2>6. TrimOf(c) = body
    BY <2>4, <2>5, Zenon DEF TrimOf
  <2>7. HasDoubleColon(c)
    <3>1. c[2] = Blank
      BY <1>1, <1>4, <1>8, <2>3, Zenon
    <3>2. 2 \in 2 .. (Len(c) - 1)
      BY <1>1, <1>4, <2>3
    <3>3. QED
      BY <3>1, <3>2, Zenon DEF HasDoubleColon
  <2>8. Len(c) \in 3 .. 8
    BY <1>4, <1>8, <2>3, Zenon
  <2>9. QED
    BY <2>3, <2>6, <2>7, <2>8, Zenon DEF c
<1>5. CASE m > 1 /\ d # 1 /\ d = m
  <2>1. m # 1 /\ body # <<Blank>>
    BY <1>5, <1>8, Zenon
  <2>2. c = Append(body, Blank)
    BY <1>5, <2>1, Zenon DEF WithEdge
  <2> HIDE DEF c
  <2>3. c \in Seq(Nat) /\ Len(c) = m + 1 /\ c[1] = body[1] /\ c[m + 1] = Blank /\ c[m] = body[m]
    BY <1>1, <1>2, <2>2
  <2>4. c[1] # Blank
    BY <1>1, <1>5, <2>3
  <2>5. FrontOf(c) = c
    BY <2>4, Zenon DEF FrontOf
  <2>6. Last(c) = Blank
    BY <2>3 DEF Last
  <2>7. Front(c) = body
    <3>1. Front(c) = SubSeq(c, 1, m)
      BY <1>1, <2>3 DEF Front
    <3>2. SubSeq(c, 1, m) = body
      BY <1>1, <1>2, <2>2
    <3>3. QED
      BY <3>1, <3>2
  <2>8. TrimOf(c) = body
    BY <2>5, <2>6, <2>7, Zenon DEF TrimOf
  <2>9. HasDoubleColon(c)
    BY <1>1, <1>5, <2>3 DEF HasDoubleColon
  <2>10. Len(c) \in 3 .. 8
    BY <1>5, <1>8, <2>3, Zenon
  <2>11. QED
    BY <2>3, <2>8, <2>9, <2>10, Zenon DEF c
<1>6. CASE m > 1 /\ d # 1 /\ d # m
  <2>1. m # 1 /\ body # <<Blank>>
    BY <1>6, <1>8, Zenon
  <2>2. c = body
    BY <1>6, <2>1, Zenon DEF WithEdge
  <2> HIDE DEF c
  <2>3. body[1] # Blank /\ Last(body) # Blank
    BY <1>1, <1>6 DEF Last
  <2>4. TrimOf(c) = body
    BY <2>2, <2>3, Zenon DEF TrimOf, FrontOf
  <2>5. HasDoubleColon(c)
    BY <1>1, <1>6, <2>2 DEF HasDoubleColon
  <2>6. Len(c) \in 3 .. 8
    BY <1>1, <1>6, <2>2
  <2>7. QED
    BY <1>1, <2>2, <2>4, <2>5, <2>6, Zenon DEF c
<1>7. QED
  BY <1>3, <1>4, <1>5, <1>6, <1>9, Zenon

-----------------------------------------------------------------------------
(* uncompress_v6: the zeros put back.                                       *)

Fill(body, d) == SubSeq(body, 1, d - 1) \o [z \in 1 .. 9 - Len(body) |-> 0] \o SubSeq(body, d + 1, Len(body))

(* uncompress_v6 of a text with one empty part. *)
LEMMA UncompressIs ==
    ASSUME NEW body, NEW d, HasBlank(body, d), NEW c, Len(c) \in 3 .. 8, TrimOf(c) = body
    PROVE  Uncompress(c) = {Fill(body, d)}
<1> DEFINE blank == {i \in DOMAIN body : body[i] = Blank}
           i == CHOOSE i \in blank : TRUE
           m == IF Len(body) < 8 THEN 9 - Len(body) ELSE 1
           filled == SubSeq(body, 1, i - 1) \o [z \in 1 .. m |-> 0] \o SubSeq(body, i + 1, Len(body))
<1>1. Uncompress(c) =
          CASE Len(c) \notin 3 .. 9 \/ Cardinality(blank) > 1 -> {}
            [] blank = {} -> IF Len(body) = 8 THEN {body} ELSE {}
            [] OTHER -> {filled}
  BY Zenon DEF Uncompress, TrimOf, FrontOf
<1>2. /\ body \in Seq(Nat) /\ Len(body) \in 1 .. 7 /\ d \in 1 .. Len(body)
      /\ \A j \in 1 .. Len(body) : body[j] = Blank <=> j = d
  BY Zenon DEF HasBlank
<1>3. blank = {d}
  BY <1>2
<1> HIDE DEF blank
<1>4. i = d /\ blank # {}
  BY <1>3
<1>5. Cardinality(blank) = 1
  BY <1>3, FS_Singleton, Zenon
<1>11. Len(body) \in 1 .. 7
  BY <1>2, Zenon
<1>6. ~(Len(c) \notin 3 .. 9) /\ ~(1 > 1)
  OBVIOUS
<1>7. m = 9 - Len(body)
  <2> DEFINE l == Len(body)
  <2>1. l \in 1 .. 7
    BY <1>11
  <2> HIDE DEF l
  <2>2. (IF l < 8 THEN 9 - l ELSE 1) = 9 - l
    BY <2>1
  <2>3. QED
    BY <2>2, Zenon DEF l
<1> HIDE DEF i, m
<1>8. filled = Fill(body, d)
  BY <1>4, <1>7, Zenon DEF Fill
<1> HIDE DEF filled
<1>9. Uncompress(c) = {filled}
  BY <1>1, <1>4, <1>5, <1>6, Zenon
<1>10. QED
  BY <1>8, <1>9, Zenon

(* Groups with zeros in a row. *)
IsGroups(parts) == parts \in Seq(Nat) /\ Len(parts) = 8 /\ \A i \in 1 .. 8 : IsGroup(parts[i])
HasZeros(parts, d, n) ==
    /\ n \in 2 .. 8 /\ d \in 1 .. 8 /\ d + n - 1 \in 1 .. 8
    /\ \A j \in d .. d + n - 1 : parts[j] = 0
Shortened(parts, d, n) == SubSeq(parts, 1, d - 1) \o <<Blank>> \o SubSeq(parts, d + n, 8)

IsTwo(s, S, a, b) ==
    /\ s \in Seq(S) /\ Len(s) = Len(a) + Len(b)
    /\ \A i \in 1 .. Len(a) : s[i] = a[i]
    /\ \A i \in 1 .. Len(b) : s[Len(a) + i] = b[i]

(* The places of two sequences put together. *)
LEMMA TwoParts == ASSUME NEW S, NEW a \in Seq(S), NEW b \in Seq(S) PROVE IsTwo(a \o b, S, a, b)
<1> DEFINE t == a \o b
<1>1. t \in Seq(S) /\ Len(t) = Len(a) + Len(b)
  OBVIOUS
<1>2. \A i \in 1 .. Len(a) : t[i] = a[i]
  OBVIOUS
<1>3. \A i \in 1 .. Len(b) : t[Len(a) + i] = b[i]
  OBVIOUS
<1> HIDE DEF t
<1>4. IsTwo(t, S, a, b)
  BY <1>1, <1>2, <1>3, Zenon DEF IsTwo
<1>5. QED
  BY <1>4, Zenon DEF t

IsThree(s, S, a, b, c) ==
    /\ s \in Seq(S) /\ Len(s) = Len(a) + Len(b) + Len(c)
    /\ \A i \in 1 .. Len(a) : s[i] = a[i]
    /\ \A i \in 1 .. Len(b) : s[Len(a) + i] = b[i]
    /\ \A i \in 1 .. Len(c) : s[Len(a) + Len(b) + i] = c[i]

(* The places of three. *)
LEMMA ThreeParts ==
    ASSUME NEW S, NEW a \in Seq(S), NEW b \in Seq(S), NEW c \in Seq(S)
    PROVE  IsThree(a \o b \o c, S, a, b, c)
<1> DEFINE t == a \o b
           s == t \o c
<1>1. Len(a) \in Nat /\ Len(b) \in Nat /\ Len(c) \in Nat
  OBVIOUS
<1>2. /\ t \in Seq(S) /\ Len(t) = Len(a) + Len(b)
      /\ \A i \in 1 .. Len(a) : t[i] = a[i]
      /\ \A i \in 1 .. Len(b) : t[Len(a) + i] = b[i]
  <2>1. IsTwo(t, S, a, b)
    BY TwoParts, Zenon
  <2> HIDE DEF t
  <2>2. QED
    BY <2>1, Zenon DEF IsTwo
<1> HIDE DEF t
<1>3. /\ s \in Seq(S) /\ Len(s) = Len(t) + Len(c)
      /\ \A i \in 1 .. Len(t) : s[i] = t[i]
      /\ \A i \in 1 .. Len(c) : s[Len(t) + i] = c[i]
  <2>1. IsTwo(s, S, t, c)
    BY <1>2, TwoParts, Zenon
  <2> HIDE DEF s
  <2>2. QED
    BY <2>1, Zenon DEF IsTwo
<1> HIDE DEF s
<1>7. s \in Seq(S) /\ Len(s) = Len(a) + Len(b) + Len(c)
  BY <1>1, <1>2, <1>3
<1>8. \A i \in 1 .. Len(a) : s[i] = a[i]
  BY <1>1, <1>2, <1>3
<1>9. \A i \in 1 .. Len(b) : s[Len(a) + i] = b[i]
  BY <1>1, <1>2, <1>3
<1>10. \A i \in 1 .. Len(c) : s[Len(a) + Len(b) + i] = c[i]
  BY <1>1, <1>2, <1>3
<1>11. QED
  <2>1. IsThree(s, S, a, b, c)
    BY <1>7, <1>8, <1>9, <1>10, Zenon DEF IsThree
  <2>2. QED
    BY <2>1, Zenon DEF s, t

IsPiece(u, S, s, m, n) ==
    /\ u \in Seq(S) /\ Len(u) = n - m + 1
    /\ \A i \in 1 .. n - m + 1 : u[i] = s[m + i - 1]

(* The places of a slice. *)
LEMMA PieceIs ==
    ASSUME NEW S, NEW s \in Seq(S), NEW m \in Nat \ {0}, NEW n \in Nat, n <= Len(s), m <= n + 1
    PROVE  IsPiece(SubSeq(s, m, n), S, s, m, n)
<1>1. \A i \in m .. n : s[i] \in S
  OBVIOUS
<1>2. /\ SubSeq(s, m, n) \in Seq(S) /\ Len(SubSeq(s, m, n)) = IF m <= n THEN n - m + 1 ELSE 0
      /\ \A i \in 1 .. n - m + 1 : SubSeq(s, m, n)[i] = s[m + i - 1]
  BY <1>1, SubSeqProperties
<1>3. (IF m <= n THEN n - m + 1 ELSE 0) = n - m + 1
  OBVIOUS
<1>4. QED
  BY <1>2, <1>3, Zenon DEF IsPiece

IsShortened(body, parts, d, n) ==
    /\ HasBlank(body, d) /\ Len(body) = 9 - n
    /\ \A i \in 1 .. d - 1 : body[i] = parts[i]
    /\ \A i \in 1 .. 9 - d - n : body[d + i] = parts[d + n - 1 + i]

(* Groups with a run of zeros cut out: the groups before and after it, and  *)
(* one empty part.                                                          *)
LEMMA ShortenedIs ==
    ASSUME NEW parts, NEW d, NEW n, IsGroups(parts), HasZeros(parts, d, n)
    PROVE  IsShortened(Shortened(parts, d, n), parts, d, n)
<1> DEFINE a == SubSeq(parts, 1, d - 1)
           b == <<Blank>>
           c == SubSeq(parts, d + n, 8)
           body == a \o b \o c
<1>1. parts \in Seq(Nat) /\ Len(parts) = 8 /\ n \in 2 .. 8 /\ d \in 1 .. 8 /\ d + n - 1 \in 1 .. 8
  BY DEF IsGroups, HasZeros
<1>2. \A i \in 1 .. 8 : parts[i] \in Nat /\ parts[i] # Blank
  BY NotBlank, Zenon DEF IsGroups
<1>3. Blank \in Nat
  BY DEF Blank
<1>4. a \in Seq(Nat) /\ Len(a) = d - 1 /\ \A i \in 1 .. d - 1 : a[i] = parts[i]
  <2> DEFINE m == 1
             k == d - 1
             u == SubSeq(parts, m, k)
  <2>1. m \in Nat \ {0} /\ k \in Nat /\ k <= Len(parts) /\ m <= k + 1
    BY <1>1
  <2>2. k - m + 1 = d - 1 /\ k = d - 1 /\ \A i \in Nat : m + i - 1 = i
    BY <1>1
  <2>3. a = u
    OBVIOUS
  <2> HIDE DEF m, k, a
  <2>4. IsPiece(u, Nat, parts, m, k)
    BY <1>1, <2>1, PieceIs, Zenon
  <2> HIDE DEF u
  <2>5. u \in Seq(Nat) /\ Len(u) = d - 1 /\ \A i \in 1 .. d - 1 : u[i] = parts[i]
    <3>1. u \in Seq(Nat) /\ Len(u) = k - m + 1
      BY <2>4, Zenon DEF IsPiece
    <3>6. ASSUME NEW i \in 1 .. d - 1 PROVE u[i] = parts[i]
     <4>3. i \in 1 .. k - m + 1 /\ m + i - 1 = i
       BY <1>1 DEF k, m
     <4>4. u[i] = parts[m + i - 1]
       BY <2>4, <4>3, Zenon DEF IsPiece
     <4>5. QED
       BY <4>3, <4>4
    <3>7. QED
      BY <2>2, <3>1, <3>6, Zenon
  <2>6. QED
    BY <2>3, <2>5, Zenon
<1>5. b \in Seq(Nat) /\ Len(b) = 1 /\ b[1] = Blank
  BY <1>3
<1>6. c \in Seq(Nat) /\ Len(c) = 9 - d - n /\ \A i \in 1 .. 9 - d - n : c[i] = parts[d + n - 1 + i]
  <2> DEFINE m == d + n
             k == 8
             u == SubSeq(parts, m, k)
  <2>1. m \in Nat \ {0} /\ k \in Nat /\ k <= Len(parts) /\ m <= k + 1
    BY <1>1
  <2>2. k - m + 1 = 9 - d - n
    BY <1>1
  <2>3. c = u
    OBVIOUS
  <2> HIDE DEF m, k, c
  <2>4. IsPiece(u, Nat, parts, m, k)
    BY <1>1, <2>1, PieceIs, Zenon
  <2> HIDE DEF u
  <2>5. ASSUME NEW i \in 1 .. 9 - d - n PROVE u[i] = parts[d + n - 1 + i]
    <3>1. i \in 1 .. k - m + 1 /\ m + i - 1 = d + n - 1 + i
      BY <1>1 DEF k, m
    <3>2. u[i] = parts[m + i - 1]
      BY <2>4, <3>1, Zenon DEF IsPiece
    <3>3. QED
      BY <3>1, <3>2
  <2>6. u \in Seq(Nat) /\ Len(u) = k - m + 1
    BY <2>4, Zenon DEF IsPiece
  <2>7. QED
    BY <2>2, <2>3, <2>5, <2>6, Zenon
<1> HIDE DEF a, b, c
<1>7. /\ body \in Seq(Nat) /\ Len(body) = Len(a) + Len(b) + Len(c)
      /\ \A i \in 1 .. Len(a) : body[i] = a[i]
      /\ \A i \in 1 .. Len(b) : body[Len(a) + i] = b[i]
      /\ \A i \in 1 .. Len(c) : body[Len(a) + Len(b) + i] = c[i]
  <2>1. IsThree(body, Nat, a, b, c)
    BY <1>4, <1>5, <1>6, ThreeParts, Zenon
  <2>2. QED
    BY <2>1, Zenon DEF IsThree
<1> HIDE DEF body
<1>8. Len(body) = 9 - n
  BY <1>1, <1>4, <1>5, <1>6, <1>7
<1>9. \A i \in 1 .. d - 1 : body[i] = parts[i]
  BY <1>1, <1>4, <1>7
<1>10. body[d] = Blank
  <2>1. 1 \in 1 .. Len(b) /\ Len(a) + 1 = d
    BY <1>1, <1>4, <1>5
  <2>2. QED
    BY <1>5, <1>7, <2>1, Zenon
<1>11. \A i \in 1 .. 9 - d - n : body[d + i] = parts[d + n - 1 + i]
  <2>1. Len(a) + Len(b) = d
    BY <1>1, <1>4, <1>5
  <2>2. QED
    BY <1>6, <1>7, <2>1, Zenon
<1>12. \A i \in 1 .. Len(body) : body[i] = Blank <=> i = d
  <2>1. TAKE i \in 1 .. Len(body)
  <2>2. CASE i < d
    <3>1. i \in 1 .. d - 1 /\ i \in 1 .. 8 /\ i # d
      BY <1>1, <1>8, <2>2
    <3>2. QED
      BY <1>2, <1>9, <3>1, Zenon
  <2>3. CASE i = d
    BY <1>10, <2>3, Zenon
  <2>4. CASE i > d
    <3>1. i - d \in 1 .. 9 - d - n /\ d + (i - d) = i /\ d + n - 1 + (i - d) \in 1 .. 8 /\ i # d
      BY <1>1, <1>8, <2>4
    <3>2. body[i] = parts[d + n - 1 + (i - d)]
      BY <1>11, <3>1
    <3>3. QED
      BY <1>2, <3>1, <3>2, Zenon
  <2>5. QED
    BY <1>1, <1>8, <2>2, <2>3, <2>4
<1>13. Len(body) \in 1 .. 7 /\ d \in 1 .. Len(body)
  BY <1>1, <1>8
<1>14. HasBlank(body, d)
  BY <1>7, <1>12, <1>13, Zenon DEF HasBlank
<1>15. body = Shortened(parts, d, n)
  BY Zenon DEF Shortened, body, a, b, c
<1>16. QED
  BY <1>8, <1>9, <1>11, <1>14, <1>15, Zenon DEF IsShortened

(* Zeros put in for the empty part give the groups back. *)
LEMMA FillIs ==
    ASSUME NEW parts, NEW d, NEW n, IsGroups(parts), HasZeros(parts, d, n)
    PROVE  Fill(Shortened(parts, d, n), d) = parts
<1> DEFINE body == Shortened(parts, d, n)
           a == SubSeq(body, 1, d - 1)
           b == [z \in 1 .. n |-> 0]
           c == SubSeq(body, d + 1, 9 - n)
           s == a \o b \o c
<1>1. parts \in Seq(Nat) /\ Len(parts) = 8 /\ n \in 2 .. 8 /\ d \in 1 .. 8 /\ d + n - 1 \in 1 .. 8
  BY DEF IsGroups, HasZeros
<1>2. /\ body \in Seq(Nat) /\ Len(body) = 9 - n
      /\ \A i \in 1 .. d - 1 : body[i] = parts[i]
      /\ \A i \in 1 .. 9 - d - n : body[d + i] = parts[d + n - 1 + i]
  <2>1. IsShortened(body, parts, d, n)
    BY ShortenedIs, Zenon
  <2> HIDE DEF body
  <2>2. QED
    BY <2>1, Zenon DEF IsShortened, HasBlank
<1> HIDE DEF body
<1>3. 9 - Len(body) = n
  BY <1>1, <1>2
<1>4. Fill(body, d) = s
  BY <1>2, <1>3, Zenon DEF Fill
<1>5. a \in Seq(Nat) /\ Len(a) = d - 1 /\ \A i \in 1 .. d - 1 : a[i] = parts[i]
  <2>1. a \in Seq(Nat) /\ Len(a) = d - 1 /\ \A i \in 1 .. d - 1 : a[i] = body[i]
    <3>1. Len(body) = 9 - n /\ n \in 2 .. 8 /\ d \in 1 .. 8 /\ d + n - 1 \in 1 .. 8
      BY <1>1, <1>2, Zenon
    <3>2. d - 1 \in Nat /\ d - 1 <= Len(body)
      BY <3>1
    <3>3. QED
      BY <1>2, <3>2
  <2>2. QED
    BY <1>2, <2>1, Zenon
<1>6. b \in Seq(Nat) /\ Len(b) = n /\ \A i \in 1 .. n : b[i] = 0
  BY <1>1
<1>7. c \in Seq(Nat) /\ Len(c) = 9 - d - n /\ \A i \in 1 .. 9 - d - n : c[i] = body[d + i]
  BY <1>1, <1>2, SMTT(30)
<1> HIDE DEF a, b, c
<1>8. /\ s \in Seq(Nat) /\ Len(s) = Len(a) + Len(b) + Len(c)
      /\ \A i \in 1 .. Len(a) : s[i] = a[i]
      /\ \A i \in 1 .. Len(b) : s[Len(a) + i] = b[i]
      /\ \A i \in 1 .. Len(c) : s[Len(a) + Len(b) + i] = c[i]
  <2>1. IsThree(s, Nat, a, b, c)
    BY <1>5, <1>6, <1>7, ThreeParts, Zenon
  <2>2. QED
    BY <2>1, Zenon DEF IsThree
<1> HIDE DEF s
<1>9. Len(s) = 8
  BY <1>1, <1>5, <1>6, <1>7, <1>8
<1>10. \A i \in 1 .. 8 : s[i] = parts[i]
  <2>1. TAKE i \in 1 .. 8
  <2>2. CASE i < d
    <3>1. i \in 1 .. d - 1 /\ i \in 1 .. Len(a)
      BY <1>1, <1>5, <2>2
    <3>2. QED
      BY <1>5, <1>8, <3>1, Zenon
  <2>3. CASE i \in d .. d + n - 1
    <3>1. i - d + 1 \in 1 .. n /\ Len(a) + (i - d + 1) = i
      BY <1>1, <1>5, <2>3
    <3>2. s[i] = b[i - d + 1]
      BY <1>6, <1>8, <3>1
    <3>3. parts[i] = 0
      BY <2>3, Zenon DEF HasZeros
    <3>4. QED
      BY <1>6, <3>1, <3>2, <3>3, Zenon
  <2>4. CASE i > d + n - 1
    <3> DEFINE k == i - d - n + 1
    <3>1. k \in 1 .. 9 - d - n /\ Len(a) + Len(b) + k = i /\ d + n - 1 + k = i
      BY <1>1, <1>5, <1>6, <2>4
    <3> HIDE DEF k
    <3>2. s[i] = c[k] /\ c[k] = body[d + k] /\ body[d + k] = parts[i]
      BY <1>2, <1>7, <1>8, <3>1
    <3>3. QED
      BY <3>2, Zenon
  <2>5. QED
    BY <1>1, <2>2, <2>3, <2>4, SMTT(30)
<1>11. s = parts
  BY <1>1, <1>8, <1>9, <1>10, SeqEqual
<1>12. QED
  BY <1>4, <1>11, Zenon DEF body

(* Groups with no two zeros together are written as they are, if the first  *)
(* zero is not at an end.                                                   *)
LEMMA PlainIs ==
    ASSUME NEW parts, IsGroups(parts),
           MostZeroes(parts) = 0 \/ (MostZeroes(parts) = 1 /\ DoubleColon(parts) \notin {1, 8})
    PROVE  Compress(parts) = parts
<1> DEFINE M == MostZeroes(parts)
           d == DoubleColon(parts)
           body == IF M > 1 THEN Shortened(parts, d, M) ELSE parts
<1>1. Compress(parts) =
        IF M = 0 THEN parts
        ELSE CASE body = <<Blank>> -> <<Blank, Blank, Blank>>
               [] Len(body) > 1 /\ d = 1 -> <<Blank>> \o body
               [] Len(body) > 1 /\ d = Len(body) -> Append(body, Blank)
               [] OTHER -> body
  BY Zenon DEF Compress, Shortened
<1>2. CASE M = 0
  BY <1>1, <1>2, Zenon
<1>3. CASE M = 1 /\ d # 1 /\ d # 8
  <2>1. ~(M > 1) /\ M # 0
    BY <1>3
  <2>2. body = parts
    BY <2>1, Zenon
  <2> HIDE DEF body, M, d
  <2>3. Len(body) = 8 /\ body # <<Blank>>
    <3>1. Len(parts) = 8
      BY Zenon DEF IsGroups
    <3>2. Len(<<Blank>>) = 1 /\ 8 # 1
      OBVIOUS
    <3>3. QED
      BY <2>2, <3>1, <3>2, Zenon
  <2>4. QED
    BY <1>1, <1>3, <2>1, <2>2, <2>3, Zenon DEF M, d
<1>4. QED
  BY <1>2, <1>3

(* Others have their first longest run cut out. *)
LEMMA ShortIs ==
    ASSUME NEW parts, IsGroups(parts), MostZeroes(parts) \in 2 .. 8
    PROVE  /\ HasZeros(parts, DoubleColon(parts), MostZeroes(parts))
           /\ Compress(parts) = WithEdge(Shortened(parts, DoubleColon(parts), MostZeroes(parts)), DoubleColon(parts))
<1> DEFINE M == MostZeroes(parts)
           d == DoubleColon(parts)
           body == IF M > 1 THEN Shortened(parts, d, M) ELSE parts
<1>1. M > 1 /\ M # 0
  BY SMT
<1>2. HasZeros(parts, d, M)
  BY <1>1, ZerosAre, Zenon DEF HasZeros
<1>3. body = Shortened(parts, d, M)
  BY <1>1, Zenon
<1>4. Compress(parts) = WithEdge(body, d)
  BY <1>1, Zenon DEF Compress, Shortened, WithEdge
<1>5. QED
  BY <1>2, <1>3, <1>4, Zenon

(* The text of groups is parsed to them, unless the run is one zero at an   *)
(* end.                                                                     *)
LEMMA TextBack ==
    ASSUME NEW parts, IsGroups(parts),
           ~(MostZeroes(parts) = 1 /\ DoubleColon(parts) \in {1, 8})
    PROVE  LET c == Compress(parts)
           IN  \/ HasDoubleColon(c) /\ Len(c) <= 8 /\ Uncompress(c) = {parts}
               \/ ~HasDoubleColon(c) /\ Len(c) = 8 /\ c = parts
<1> DEFINE M == MostZeroes(parts)
           d == DoubleColon(parts)
           c == Compress(parts)
<1>1. M \in 0 .. 8
  BY ZerosAre, Zenon
<1>2. CASE M = 0 \/ M = 1
  <2>1. c = parts
    BY <1>2, PlainIs
  <2>2. Len(parts) = 8 /\ \A i \in 1 .. 8 : parts[i] # Blank
    BY NotBlank, Zenon DEF IsGroups
  <2>3. ~HasDoubleColon(parts)
    BY <2>2 DEF HasDoubleColon
  <2>4. QED
    BY <2>1, <2>2, <2>3, Zenon
<1>3. CASE M \in 2 .. 8
  <2> DEFINE body == Shortened(parts, d, M)
  <2>1. HasZeros(parts, d, M) /\ c = WithEdge(body, d)
    BY <1>3, ShortIs, Zenon
  <2>2. IsShortened(body, parts, d, M)
    BY <2>1, ShortenedIs, Zenon
  <2>3. HasBlank(body, d)
    BY <2>2, Zenon DEF IsShortened
  <2>4. c \in Seq(Nat) /\ Len(c) \in 3 .. 8 /\ HasDoubleColon(c) /\ TrimOf(c) = body
    BY <2>1, <2>3, EdgeIs, Zenon
  <2>5. Uncompress(c) = {Fill(body, d)}
    BY <2>3, <2>4, UncompressIs, Zenon
  <2>6. Fill(body, d) = parts
    BY <2>1, FillIs, Zenon
  <2>7. Len(c) <= 8
    <3> DEFINE l == Len(c)
    <3>1. l \in 3 .. 8
      BY <2>4, Zenon
    <3> HIDE DEF l
    <3>2. l <= 8
      BY <3>1
    <3>3. QED
      BY <3>2, Zenon DEF l
  <2> HIDE DEF c, body, M, d
  <2>8. QED
    BY <2>4, <2>5, <2>6, <2>7, Zenon DEF c
<1>4. QED
  <2> HIDE DEF M
  <2>1. M = 0 \/ M = 1 \/ M \in 2 .. 8
    BY <1>1
  <2>2. QED
    BY <1>2, <1>3, <2>1, Zenon

(* A lone zero at an edge, as the property names it. *)
LEMMA EdgeZero ==
    ASSUME NEW parts, IsGroups(parts), MostZeroes(parts) = 1, DoubleColon(parts) \in {1, 8}
    PROVE  LET zeros == {i \in 1 .. 8 : parts[i] = 0}
           IN  /\ zeros = {8} \/ 1 \in zeros
               /\ \A i \in zeros : i + 1 \notin zeros
<1> DEFINE d == DoubleColon(parts)
           zeros == {i \in 1 .. 8 : parts[i] = 0}
<1>1. /\ d \in 1 .. 8 /\ \A j \in d .. d + 1 - 1 : parts[j] = 0
      /\ \A j \in 1 .. d - 1 : parts[j] # 0
      /\ \A i \in 1 .. 7 : ~(parts[i] = 0 /\ parts[i + 1] = 0)
  <2>1. 1 # 0
    OBVIOUS
  <2>2. QED
    BY <2>1, ZerosAre, Zenon
<1> HIDE DEF d
<1>2. d = 1 \/ d = 8
  BY DEF d
<1>3. parts[d] = 0
  <2>1. d \in d .. d + 1 - 1
    BY <1>1
  <2>2. QED
    BY <1>1, <2>1, Zenon
<1>4. zeros = {8} \/ 1 \in zeros
  BY <1>1, <1>2, <1>3
<1>5. \A i \in zeros : i + 1 \notin zeros
  <2>1. TAKE i \in zeros
  <2>2. CASE i = 8
    BY <2>2
  <2>3. CASE i \in 1 .. 7
    BY <1>1, <2>3
  <2>4. QED
    BY <2>2, <2>3
<1>6. QED
  BY <1>4, <1>5, Zenon

-----------------------------------------------------------------------------
(* Addresses as bytes.                                                      *)

(* A byte is a number from 0 to 255. *)
LEMMA OctetIs == ASSUME NEW x PROVE x \in 0 .. 255 <=> IsByte(x)
<1>1. x \in 0 .. 255 => IsByte(x)
  BY DEF IsByte
<1>2. IsByte(x) => x \in 0 .. 255
  BY DEF IsByte
<1>3. QED
  BY <1>1, <1>2

IsBytes(s, n) == s \in Seq(Nat) /\ Len(s) = n /\ \A i \in 1 .. n : IsByte(s[i])

(* A fixed number of bytes is a sequence of that length. *)
LEMMA OctetsAre == ASSUME NEW n \in Nat, NEW s PROVE s \in Octets(n) <=> IsBytes(s, n)
<1> DEFINE B == 0 .. 255
<1>1. \A x : x \in B <=> IsByte(x)
  BY OctetIs
<1>2. \A x : IsByte(x) => x \in Nat
  BY DEF IsByte
<1>3. Octets(n) = [1 .. n -> B]
  BY DEF Octets
<1> HIDE DEF B
<1>4. ASSUME s \in [1 .. n -> B] PROVE IsBytes(s, n)
  <2>1. s \in [1 .. n -> Nat]
    BY <1>1, <1>2, <1>4, Zenon
  <2>2. s \in Seq(Nat) /\ Len(s) = n
    BY <2>1
  <2>3. \A i \in 1 .. n : IsByte(s[i])
    BY <1>1, <1>4, Zenon
  <2>4. QED
    BY <2>2, <2>3, Zenon DEF IsBytes
<1>5. ASSUME IsBytes(s, n) PROVE s \in [1 .. n -> B]
  <2>1. s \in Seq(Nat) /\ Len(s) = n /\ \A i \in 1 .. n : s[i] \in B
    BY <1>1, <1>5, Zenon DEF IsBytes
  <2>2. s = [i \in 1 .. n |-> s[i]]
    BY <2>1
  <2>3. QED
    BY <2>1, <2>2, Zenon
<1>6. QED
  BY <1>3, <1>4, <1>5, Zenon

(* Bytes reversed twice are as they were. *)
LEMMA ReverseTwice ==
    ASSUME NEW s, NEW n \in Nat, IsBytes(s, n)
    PROVE  IsBytes(Reverse(s), n) /\ Reverse(Reverse(s)) = s
<1> DEFINE r == [i \in 1 .. n |-> s[n - i + 1]]
           t == [i \in 1 .. n |-> r[n - i + 1]]
<1>1. s \in Seq(Nat) /\ Len(s) = n /\ \A i \in 1 .. n : IsByte(s[i]) /\ s[i] \in Nat
  BY DEF IsBytes
<1>2. \A i \in 1 .. n : n - i + 1 \in 1 .. n /\ n - (n - i + 1) + 1 = i
  OBVIOUS
<1>3. \A i \in 1 .. n : r[i] = s[n - i + 1] /\ r[i] \in Nat /\ IsByte(r[i])
  BY <1>1, <1>2
<1>4. r \in Seq(Nat) /\ Len(r) = n
  BY <1>1, <1>3
<1>5. Reverse(s) = r
  BY <1>1, Zenon DEF Reverse
<1>6. Reverse(r) = t
  <2> HIDE DEF r
  <2>1. Reverse(r) = [i \in 1 .. Len(r) |-> r[Len(r) - i + 1]]
    BY Zenon DEF Reverse
  <2>2. QED
    BY <1>4, <2>1, Zenon
<1>7. \A i \in 1 .. n : t[i] = s[i]
  BY <1>2, <1>3
<1>8. t \in Seq(Nat) /\ Len(t) = n
  <2> HIDE DEF r
  <2>1. \A i \in 1 .. n : r[n - i + 1] \in Nat
    BY <1>2, <1>3
  <2>2. QED
    BY <1>1, <2>1
<1>9. t = s
  <2> HIDE DEF t
  <2>1. QED
    BY <1>1, <1>7, <1>8, SeqEqual
<1>10. IsBytes(r, n)
  <2> HIDE DEF r
  <2>1. QED
    BY <1>3, <1>4, Zenon DEF IsBytes
<1>11. QED
  BY <1>5, <1>6, <1>9, <1>10, Zenon

(* The bytes of eight groups. *)
LEMMA UncompressedIs ==
    ASSUME NEW parts, IsGroups(parts)
    PROVE  UncompressedAsBytes(parts) =
               {[i \in 1 .. 16 |-> IF i % 2 = 1 THEN HighOf(parts[(i + 1) \div 2]) ELSE LowOf(parts[(i + 1) \div 2])]}
<1>1. Len(parts) = 8 /\ \A i \in 1 .. 8 : parts[i] < Blank
  BY NotBlank, Zenon DEF IsGroups
<1>2. \A i \in 1 .. 16 : /\ parts[(i + 1) \div 2] \div 256 = HighOf(parts[(i + 1) \div 2])
                         /\ parts[(i + 1) \div 2] % 256 = LowOf(parts[(i + 1) \div 2])
  BY DEF HighOf, LowOf
<1>3. UncompressedAsBytes(parts) =
           {[i \in 1 .. 16 |-> IF i % 2 = 1 THEN parts[(i + 1) \div 2] \div 256 ELSE parts[(i + 1) \div 2] % 256]}
  BY <1>1 DEF UncompressedAsBytes
<1>4. QED
  BY <1>2, <1>3

(* Sixteen bytes are eight groups, and those are these bytes. *)
LEMMA BytesBack ==
    ASSUME NEW bytes, IsBytes(bytes, 16)
    PROVE  /\ IsGroups(BytesAsUncompressed(bytes))
           /\ UncompressedAsBytes(BytesAsUncompressed(bytes)) = {bytes}
<1> DEFINE g == BytesAsUncompressed(bytes)
           f == [i \in 1 .. 16 |-> IF i % 2 = 1 THEN HighOf(g[(i + 1) \div 2]) ELSE LowOf(g[(i + 1) \div 2])]
<1>1. bytes \in Seq(Nat) /\ Len(bytes) = 16 /\ \A i \in 1 .. 16 : IsByte(bytes[i])
  BY Zenon DEF IsBytes
<1>2. g = [k \in 1 .. 8 |-> PairOf(bytes[2 * k - 1], bytes[2 * k])]
  BY DEF BytesAsUncompressed, PairOf
<1>3. \A k \in 1 .. 8 : 2 * k - 1 \in 1 .. 16 /\ 2 * k \in 1 .. 16
  OBVIOUS
<1>4. \A k \in 1 .. 8 : /\ g[k] = PairOf(bytes[2 * k - 1], bytes[2 * k])
                        /\ IsByte(bytes[2 * k - 1]) /\ IsByte(bytes[2 * k])
  BY <1>1, <1>2, <1>3
<1> HIDE DEF g
<1>5. \A k \in 1 .. 8 : IsGroup(g[k]) /\ HighOf(g[k]) = bytes[2 * k - 1] /\ LowOf(g[k]) = bytes[2 * k]
  <2>1. TAKE k \in 1 .. 8
  <2> DEFINE a == bytes[2 * k - 1]
             b == bytes[2 * k]
  <2>2. g[k] = PairOf(a, b) /\ IsByte(a) /\ IsByte(b)
    BY <1>4
  <2> HIDE DEF a, b
  <2>5. IsGroup(PairOf(a, b))
    BY <2>2, PairIs, Zenon
  <2>6. HighOf(PairOf(a, b)) = a
    BY <2>2, PairHigh, Zenon
  <2>7. LowOf(PairOf(a, b)) = b
    BY <2>2, PairLow, Zenon
  <2>3. IsGroup(g[k]) /\ HighOf(g[k]) = a /\ LowOf(g[k]) = b
    BY <2>2, <2>5, <2>6, <2>7, Zenon
  <2>4. QED
    BY <2>3 DEF a, b
<1>6. \A k \in 1 .. 8 : g[k] \in Nat
  BY <1>5, NotBlank, Zenon
<1>7. g \in Seq(Nat) /\ Len(g) = 8
  <2> DEFINE h(k) == PairOf(bytes[2 * k - 1], bytes[2 * k])
  <2>1. g = [k \in 1 .. 8 |-> h(k)]
    BY <1>2
  <2>4. \A k \in 1 .. 8 : h(k) \in Nat
    BY <1>4, <1>6
  <2> HIDE DEF h
  <2>2. g \in [1 .. 8 -> Nat]
    BY <2>1, <2>4, Zenon
  <2> DEFINE n == 8
  <2>5. n \in Nat /\ g \in [1 .. n -> Nat]
    BY <2>2
  <2> HIDE DEF n
  <2>6. g \in Seq(Nat) /\ Len(g) = n
    BY <2>5
  <2>3. QED
    BY <2>6 DEF n
<1>8. IsGroups(g)
  BY <1>5, <1>7, Zenon DEF IsGroups
<1>9. UncompressedAsBytes(g) = {f}
  BY <1>8, UncompressedIs, Zenon
<1>10. \A i \in 1 .. 16 : f[i] = bytes[i]
  <2>1. TAKE i \in 1 .. 16
  <2> DEFINE k == (i + 1) \div 2
  <2>2. f[i] = IF i % 2 = 1 THEN HighOf(g[k]) ELSE LowOf(g[k])
    OBVIOUS
  <2>3. k \in 1 .. 8 /\ (i % 2 = 1 => 2 * k - 1 = i) /\ (i % 2 # 1 => 2 * k = i)
    OBVIOUS
  <2> HIDE DEF k, f
  <2>4. HighOf(g[k]) = bytes[2 * k - 1] /\ LowOf(g[k]) = bytes[2 * k]
    BY <1>5, <2>3, Zenon
  <2>5. QED
    BY <2>2, <2>3, <2>4
<1>11. f = bytes
  <2>1. DOMAIN f = 1 .. 16 /\ f = [i \in 1 .. 16 |-> f[i]]
    OBVIOUS
  <2>2. bytes = [i \in 1 .. 16 |-> bytes[i]]
    BY <1>1
  <2> HIDE DEF f
  <2>3. QED
    BY <1>10, <2>1, <2>2
<1>12. QED
  BY <1>8, <1>9, <1>11, Zenon DEF g

-----------------------------------------------------------------------------
(* An address, its text and the address that the text is parsed to.         *)

(* An address is of one of the two versions, with its number of bytes. *)
LEMMA AddressIs ==
    ASSUME NEW ip \in IpAddresses
    PROVE  \/ ip = V4(ip.bytes) /\ ip.version = "V4" /\ IsBytes(ip.bytes, 4)
           \/ ip = V6(ip.bytes) /\ ip.version = "V6" /\ IsBytes(ip.bytes, 16)
<1>1. 4 \in Nat /\ 16 \in Nat
  OBVIOUS
<1>2. CASE ip \in [version : {"V4"}, bytes : Octets(4)]
  <2>1. ip = V4(ip.bytes) /\ ip.version = "V4" /\ ip.bytes \in Octets(4)
    BY <1>2 DEF V4
  <2>2. QED
    BY <1>1, <2>1, OctetsAre
<1>3. CASE ip \in [version : {"V6"}, bytes : Octets(16)]
  <2>1. ip = V6(ip.bytes) /\ ip.version = "V6" /\ ip.bytes \in Octets(16)
    BY <1>3 DEF V6
  <2>2. QED
    BY <1>1, <2>1, OctetsAre
<1>4. QED
  BY <1>2, <1>3 DEF IpAddresses

(* Four bytes are an address. *)
LEMMA V4Is == ASSUME NEW bytes, IsBytes(bytes, 4) PROVE V4(bytes) \in IpAddresses
<1>1. 4 \in Nat
  OBVIOUS
<1>2. bytes \in Octets(4)
  BY <1>1, OctetsAre
<1>3. QED
  BY <1>2 DEF IpAddresses, V4

(* So are sixteen. *)
LEMMA V6Is == ASSUME NEW bytes, IsBytes(bytes, 16) PROVE V6(bytes) \in IpAddresses
<1>1. 16 \in Nat
  OBVIOUS
<1>2. bytes \in Octets(16)
  BY <1>1, OctetsAre
<1>3. QED
  BY <1>2 DEF IpAddresses, V6

(* Four bytes are parsed to the address that they are. *)
LEMMA V4Parsed ==
    ASSUME NEW text, IsBytes(text.parts, 4)
    PROVE  V4FromStr(text) = {V4(text.parts)}
<1>1. Len(text.parts) = 4 /\ \A i \in 1 .. 4 : text.parts[i] <= 255
  <2>1. \A x : IsByte(x) => x <= 255
    BY DEF IsByte
  <2>2. QED
    BY <2>1, Zenon DEF IsBytes
<1>2. QED
  BY <1>1, Zenon DEF V4FromStr

(* The text of an IPv4 address is parsed to it. *)
LEMMA V4Back ==
    ASSUME NEW bytes, IsBytes(bytes, 4)
    PROVE  IpFromStr(Dotted(bytes)) = {V4(bytes)}
<1> DEFINE text == Dotted(bytes)
<1>1. text.form = "dotted" /\ text.parts = bytes
  BY DEF Dotted
<1> HIDE DEF text
<1>2. V4FromStr(text) = {V4(bytes)}
  BY <1>1, V4Parsed
<1>3. IsV4(text)
  BY <1>1, Zenon DEF IsV4, IsBytes
<1>4. ~IsV6(text)
  BY <1>1 DEF IsV6, IsCompressed, IsUncompressed, IsMapped
<1>5. IpFromStr(text) = V4FromStr(text)
  BY <1>3, <1>4, Zenon DEF IpFromStr
<1>6. QED
  BY <1>2, <1>5, Zenon DEF text

Prefix == [i \in 1 .. 12 |-> IF i > 10 THEN 255 ELSE 0]

(* So is that of an IPv4 address mapped to IPv6. *)
LEMMA MappedBack ==
    ASSUME NEW bytes, IsBytes(bytes, 16), SubSeq(bytes, 1, 12) = Prefix
    PROVE  IpFromStr(Mapped(SubSeq(bytes, 13, 16))) = {V6(bytes)}
<1> DEFINE q == SubSeq(bytes, 13, 16)
           text == Mapped(q)
<1>1. bytes \in Seq(Nat) /\ Len(bytes) = 16 /\ \A i \in 1 .. 16 : IsByte(bytes[i])
  BY Zenon DEF IsBytes
<1>2. SubSeq(bytes, 1, 12) \o q = bytes
  <2> DEFINE m == 12
             n == 16
  <2>1. m \in 0 .. n /\ n \in 0 .. Len(bytes) /\ n = Len(bytes) /\ m + 1 = 13
    BY <1>1
  <2>2. q = SubSeq(bytes, m + 1, n)
    BY <2>1
  <2> HIDE DEF m, n, q
  <2>3. SubSeq(bytes, 1, m) \o SubSeq(bytes, m + 1, n) = SubSeq(bytes, 1, n)
    BY <1>1, <2>1, StartsConcat, Zenon
  <2>4. SubSeq(bytes, 1, Len(bytes)) = bytes
    BY <1>1
  <2>5. SubSeq(bytes, 1, m) \o q = bytes
    BY <2>1, <2>2, <2>3, <2>4, Zenon
  <2>6. QED
    BY <2>5, Zenon DEF m
<1>3. IsBytes(q, 4)
  <2> DEFINE m == 13
             n == 16
  <2>1. m \in Nat \ {0} /\ n \in Nat /\ n <= Len(bytes) /\ m <= n + 1 /\ n - m + 1 = 4
    BY <1>1
  <2> HIDE DEF m, n
  <2>2. IsPiece(SubSeq(bytes, m, n), Nat, bytes, m, n)
    BY <1>1, <2>1, PieceIs, Zenon
  <2>3. IsPiece(q, Nat, bytes, m, n)
    BY <2>2, Zenon DEF m, n
  <2> HIDE DEF q
  <2>4. q \in Seq(Nat) /\ Len(q) = 4 /\ \A i \in 1 .. 4 : q[i] = bytes[m + i - 1]
    BY <2>1, <2>3, Zenon DEF IsPiece
  <2>5. \A i \in 1 .. 4 : m + i - 1 \in 1 .. 16
    BY DEF m
  <2>6. \A i \in 1 .. 4 : IsByte(q[i])
    BY <1>1, <2>4, <2>5
  <2>7. QED
    BY <2>4, <2>6, Zenon DEF IsBytes
<1>4. text.form = "::ffff:dotted" /\ text.parts = q
  BY DEF Mapped
<1> HIDE DEF text, q
<1>5. V4FromStr(text) = {V4(q)}
  BY <1>3, <1>4, V4Parsed
<1>6. ~IsV4(text) /\ IsMapped(text) /\ IsV6(text)
  BY <1>4 DEF IsV4, IsMapped, IsV6
<1>7. IpFromStr(text) = ParseMapped(text)
  BY <1>6, Zenon DEF IpFromStr, V6FromStr
<1>8. ParseMapped(text) = {V6(ToBeBytes(V4(q)))}
  BY <1>5 DEF ParseMapped
<1>9. ToBeBytes(V4(q)) = Prefix \o q
  BY DEF ToBeBytes, V4, Prefix
<1>10. QED
  BY <1>2, <1>7, <1>8, <1>9, Zenon DEF text, q

(* So is that of any other IPv6 address, with the exception of TextBack. *)
LEMMA ColonsBack ==
    ASSUME NEW bytes, IsBytes(bytes, 16),
           LET parts == BytesAsUncompressed(bytes)
           IN  ~(MostZeroes(parts) = 1 /\ DoubleColon(parts) \in {1, 8})
    PROVE  IpFromStr(Colons(Compress(BytesAsUncompressed(bytes)))) = {V6(bytes)}
<1> DEFINE parts == BytesAsUncompressed(bytes)
           c == Compress(parts)
           text == Colons(c)
           read == IF IsCompressed(text) THEN Uncompress(text.parts) ELSE {text.parts}
<1>1. IsGroups(parts) /\ UncompressedAsBytes(parts) = {bytes}
  BY BytesBack, Zenon
<1>2. \/ HasDoubleColon(c) /\ Len(c) <= 8 /\ Uncompress(c) = {parts}
      \/ ~HasDoubleColon(c) /\ Len(c) = 8 /\ c = parts
  BY <1>1, TextBack, Zenon
<1> HIDE DEF c, parts
<1>3. text.form = "colons" /\ text.parts = c
  BY DEF Colons
<1> HIDE DEF text
<1>4. ~IsV4(text) /\ ~IsMapped(text)
  BY <1>3 DEF IsV4, IsMapped
<1>5. IsV6(text) /\ read = {parts}
  BY <1>2, <1>3, Zenon DEF IsV6, IsCompressed, IsUncompressed
<1>6. IpFromStr(text) = {V6(b) : b \in UNION {UncompressedAsBytes(p) : p \in read}}
  BY <1>4, <1>5, Zenon DEF IpFromStr, V6FromStr
<1> HIDE DEF read
<1>7. IpFromStr(text) = {V6(bytes)}
  BY <1>1, <1>5, <1>6
<1>8. QED
  BY <1>7, Zenon DEF text, c, parts

(* The text of an address is parsed to it, with the exception the property  *)
(* names.                                                                   *)
LEMMA TextRoundTrips ==
    ASSUME NEW ip \in IpAddresses
    PROVE  IpFromStr(DisplayIp(ip)) = {ip} \/ LoneEdgeZero(ip)
<1> DEFINE parts == BytesAsUncompressed(ip.bytes)
<1>1. CASE ip = V4(ip.bytes) /\ ip.version = "V4" /\ IsBytes(ip.bytes, 4)
  <2>1. DisplayIp(ip) = Dotted(ip.bytes)
    BY <1>1 DEF DisplayIp, IsV4MappedV6
  <2>2. QED
    BY <1>1, <2>1, V4Back, Zenon
<1>2. CASE ip = V6(ip.bytes) /\ ip.version = "V6" /\ IsBytes(ip.bytes, 16)
  <2>1. CASE SubSeq(ip.bytes, 1, 12) = Prefix
    <3>1. DisplayIp(ip) = Mapped(SubSeq(ip.bytes, 13, 16))
      BY <1>2, <2>1 DEF DisplayIp, IsV4MappedV6, Prefix
    <3>2. QED
      BY <1>2, <2>1, <3>1, MappedBack, Zenon
  <2>2. CASE SubSeq(ip.bytes, 1, 12) # Prefix
    <3>1. DisplayIp(ip) = Colons(Compress(parts))
      BY <1>2, <2>2 DEF DisplayIp, IsV4MappedV6, Prefix
    <3>2. CASE MostZeroes(parts) = 1 /\ DoubleColon(parts) \in {1, 8}
      <4>1. IsGroups(parts)
        BY <1>2, BytesBack, Zenon
      <4>2. LET zeros == {i \in 1 .. 8 : parts[i] = 0}
            IN  /\ zeros = {8} \/ 1 \in zeros
                /\ \A i \in zeros : i + 1 \notin zeros
        BY <3>2, <4>1, EdgeZero
      <4>3. QED
        BY <1>2, <4>2 DEF LoneEdgeZero
    <3>3. CASE ~(MostZeroes(parts) = 1 /\ DoubleColon(parts) \in {1, 8})
      BY <1>2, <3>1, <3>3, ColonsBack, Zenon
    <3>4. QED
      BY <3>2, <3>3
  <2>3. QED
    BY <2>1, <2>2
<1>3. QED
  BY <1>1, <1>2, AddressIs

-----------------------------------------------------------------------------
(* What is parsed is an address.                                            *)

(* The elements of a sequence over a set. *)
LEMMA ElementsAre == ASSUME NEW S, NEW s \in Seq(S) PROVE \A i \in 1 .. Len(s) : s[i] \in S
OBVIOUS

(* What is made of eight parsed groups is sixteen bytes. *)
LEMMA BytesOfGroups ==
    ASSUME NEW parts \in Seq(Nat), NEW bytes \in UncompressedAsBytes(parts)
    PROVE  IsBytes(bytes, 16)
<1>1. Len(parts) = 8 /\ \A i \in 1 .. 8 : parts[i] < Blank
  BY Zenon DEF UncompressedAsBytes
<1>2. \A i \in 1 .. 8 : IsGroup(parts[i])
  <2>1. \A i \in 1 .. 8 : parts[i] \in Nat
    BY <1>1, ElementsAre, Zenon
  <2>2. QED
    BY <1>1, <2>1, GroupBelow, Zenon
<1>3. IsGroups(parts)
  BY <1>1, <1>2, Zenon DEF IsGroups
<1> DEFINE g(i) == parts[(i + 1) \div 2]
           f(i) == IF i % 2 = 1 THEN HighOf(g(i)) ELSE LowOf(g(i))
<1>4. bytes = [i \in 1 .. 16 |-> f(i)]
  BY <1>3, UncompressedIs
<1>5. \A i \in 1 .. 16 : IsByte(f(i))
  <2>1. TAKE i \in 1 .. 16
  <2>2. (i + 1) \div 2 \in 1 .. 8
    OBVIOUS
  <2>3. IsGroup(g(i))
    BY <1>2, <2>2
  <2> HIDE DEF g
  <2>4. IsByte(HighOf(g(i))) /\ IsByte(LowOf(g(i)))
    BY <2>3, HighIs, LowIs, Zenon
  <2>5. QED
    BY <2>4
<1> HIDE DEF f
<1>6. \A i \in 1 .. 16 : f(i) \in Nat
  BY <1>5 DEF IsByte
<1> DEFINE n == 16
<1>7. n \in Nat /\ bytes \in [1 .. n -> Nat]
  BY <1>4, <1>6
<1>8. \A i \in 1 .. n : IsByte(bytes[i])
  BY <1>4, <1>5
<1> HIDE DEF n
<1>9. bytes \in Seq(Nat) /\ Len(bytes) = n
  BY <1>7
<1>10. IsBytes(bytes, n)
  BY <1>8, <1>9, Zenon DEF IsBytes
<1>11. QED
  BY <1>10, Zenon DEF n

(* What uncompress_v6 makes of numbers is numbers. *)
LEMMA UncompressType ==
    ASSUME NEW c \in Seq(Nat), Len(c) >= 3, NEW parts \in Uncompress(c)
    PROVE  parts \in Seq(Nat)
<1> DEFINE front == FrontOf(c)
           trim == TrimOf(c)
           blank == {i \in DOMAIN trim : trim[i] = Blank}
           i == CHOOSE i \in blank : TRUE
           m == IF Len(trim) < 8 THEN 9 - Len(trim) ELSE 1
           a == SubSeq(trim, 1, i - 1)
           b == [z \in 1 .. m |-> 0]
           d == SubSeq(trim, i + 1, Len(trim))
<1>1. front \in Seq(Nat) /\ Len(front) >= 2
  <2>1. Tail(c) \in Seq(Nat) /\ Len(Tail(c)) >= 2 /\ Len(c) >= 2
    OBVIOUS
  <2>2. front = c \/ front = Tail(c)
    BY Zenon DEF FrontOf
  <2> HIDE DEF front
  <2>3. QED
    BY <2>1, <2>2, Zenon
<1>2. trim \in Seq(Nat)
  <2>1. trim = front \/ trim = Front(front)
    BY Zenon DEF TrimOf
  <2> HIDE DEF front, trim
  <2>2. Front(front) \in Seq(Nat)
    <3> DEFINE first == 1
               last == Len(front) - 1
    <3>1. first \in Nat \ {0} /\ last \in Nat /\ last <= Len(front) /\ first <= last + 1
      BY <1>1
    <3>2. Front(front) = SubSeq(front, first, last)
      BY Zenon DEF Front
    <3> HIDE DEF first, last
    <3>3. IsPiece(SubSeq(front, first, last), Nat, front, first, last)
      BY <1>1, <3>1, PieceIs, Zenon
    <3>4. QED
      BY <3>2, <3>3, Zenon DEF IsPiece
  <2>3. QED
    BY <1>1, <2>1, <2>2
<1>3. Uncompress(c) =
          CASE Len(c) \notin 3 .. 9 \/ Cardinality(blank) > 1 -> {}
            [] blank = {} -> IF Len(trim) = 8 THEN {trim} ELSE {}
            [] OTHER -> {a \o b \o d}
  BY Zenon DEF Uncompress, TrimOf, FrontOf
<1> HIDE DEF front, trim
<1>4. CASE blank = {}
  <2> HIDE DEF a, b, d, blank
  <2>1. parts = trim
    BY <1>3, <1>4
  <2>2. QED
    BY <1>2, <2>1, Zenon
<1>5. CASE blank # {}
  <2>1. i \in blank
    BY <1>5, Zenon
  <2>2. Len(trim) \in Nat /\ i \in 1 .. Len(trim)
    BY <1>2, <2>1
  <2>3. m \in Nat
    BY <2>2
  <2> HIDE DEF i, m
  <2>4. a \in Seq(Nat)
    BY <1>2, <2>2, SMTT(30)
  <2>5. d \in Seq(Nat)
    BY <1>2, <2>2, SMTT(30)
  <2>6. b \in Seq(Nat)
    BY <2>3
  <2> HIDE DEF a, b, d
  <2>7. a \o b \o d \in Seq(Nat)
    BY <2>4, <2>5, <2>6
  <2>8. parts = a \o b \o d
    <3> HIDE DEF blank
    <3>1. QED
      BY <1>3, <1>5
  <2>9. QED
    BY <2>7, <2>8, Zenon
<1>6. QED
  BY <1>4, <1>5, Zenon

(* What is parsed as IPv4 has four bytes. *)
LEMMA V4ParsedIs ==
    ASSUME NEW text, text.parts \in Seq(Nat), NEW ip \in V4FromStr(text)
    PROVE  ip = V4(text.parts) /\ IsBytes(text.parts, 4)
<1>1. ip = V4(text.parts) /\ Len(text.parts) = 4 /\ \A i \in 1 .. 4 : text.parts[i] <= 255
  BY Zenon DEF V4FromStr
<1>2. \A i \in 1 .. 4 : text.parts[i] \in Nat
  BY <1>1, ElementsAre, Zenon
<1>3. \A i \in 1 .. 4 : IsByte(text.parts[i])
  <2>1. \A x \in Nat : x <= 255 => IsByte(x)
    BY DEF IsByte
  <2>2. QED
    BY <1>1, <1>2, <2>1
<1>4. QED
  BY <1>1, <1>3, Zenon DEF IsBytes

(* The prefix of mapped addresses and four bytes are sixteen bytes. *)
LEMMA MappedIs == ASSUME NEW q, IsBytes(q, 4) PROVE IsBytes(Prefix \o q, 16)
<1>1. q \in Seq(Nat) /\ Len(q) = 4 /\ \A i \in 1 .. 4 : IsByte(q[i])
  BY Zenon DEF IsBytes
<1>2. \A i \in 1 .. 12 : Prefix[i] \in Nat /\ IsByte(Prefix[i])
  BY DEF Prefix, IsByte
<1> DEFINE n == 12
<1>3. n \in Nat /\ Prefix \in [1 .. n -> Nat]
  <2>1. Prefix = [i \in 1 .. 12 |-> Prefix[i]]
    BY DEF Prefix
  <2>2. Prefix \in [1 .. 12 -> Nat]
    BY <1>2, <2>1, Zenon
  <2>3. QED
    BY <2>2
<1> HIDE DEF n
<1>4. Prefix \in Seq(Nat) /\ Len(Prefix) = n
  BY <1>3
<1>5. n = 12
  BY DEF n
<1> DEFINE s == Prefix \o q
<1>6. IsTwo(s, Nat, Prefix, q)
  BY <1>1, <1>4, TwoParts, Zenon
<1>7. s \in Seq(Nat) /\ Len(s) = Len(Prefix) + Len(q) /\ \A i \in 1 .. Len(Prefix) : s[i] = Prefix[i]
  BY <1>6, Zenon DEF IsTwo
<1>8. \A i \in 1 .. Len(q) : s[Len(Prefix) + i] = q[i]
  BY <1>6, Zenon DEF IsTwo
<1> HIDE DEF s
<1>9. Len(s) = 16
  BY <1>1, <1>4, <1>5, <1>7
<1>10. \A i \in 1 .. 16 : IsByte(s[i])
  <2>1. TAKE i \in 1 .. 16
  <2>2. CASE i <= 12
    <3>1. i \in 1 .. 12 /\ i \in 1 .. Len(Prefix)
      BY <1>4, <1>5, <2>2
    <3>2. QED
      BY <1>2, <1>7, <3>1
  <2>3. CASE i > 12
    <3>1. i - 12 \in 1 .. 4 /\ i - 12 \in 1 .. Len(q) /\ Len(Prefix) + (i - 12) = i
      BY <1>1, <1>4, <1>5, <2>3
    <3>2. s[i] = q[i - 12]
      BY <1>8, <3>1
    <3>3. QED
      BY <1>1, <3>1, <3>2, Zenon
  <2>4. QED
    BY <2>2, <2>3
<1>11. QED
  BY <1>7, <1>9, <1>10, Zenon DEF IsBytes, s

(* What a host name resolves to is an address. *)
LEMMA AnsweredIs ==
    ASSUME NEW host \in DOMAIN Answers, NEW text, text.form = "name", text.parts = <<host>>,
           NEW ip \in ResolveHostname(text)
    PROVE  ip \in IpAddresses
<1> DEFINE answers == Answers[host]
<1>1. answers \in Seq(ToSet(answers))
  BY AnswersAssumption
<1>2. ResolveHostname(text) =
          {FromAnswer(answers[i]) : i \in {j \in DOMAIN answers :
              IsInternet(answers[j]) /\ \A k \in 1 .. j - 1 : ~IsInternet(answers[k])}}
  <2>1. text.parts[1] = host
    OBVIOUS
  <2>2. QED
    BY <2>1, Zenon DEF ResolveHostname
<1>3. PICK i \in DOMAIN answers : IsInternet(answers[i]) /\ ip = FromAnswer(answers[i])
  BY <1>2
<1> DEFINE answer == answers[i]
<1>4. answer \in ToSet(answers)
  BY DEF ToSet
<1>5. /\ answer.family = "AF_INET" => answer.addr \in Octets(4)
      /\ answer.family = "AF_INET6" => answer.addr \in Octets(16)
  BY <1>4, AnswersAssumption
<1>6. answer.family = "AF_INET" \/ answer.family = "AF_INET6"
  BY <1>3 DEF IsInternet
<1> HIDE DEF answer
<1>7. 4 \in Nat /\ 16 \in Nat
  OBVIOUS
<1>8. CASE answer.family = "AF_INET"
  <2>1. IsBytes(answer.addr, 4)
    BY <1>5, <1>7, <1>8, OctetsAre
  <2>2. Reverse(Reverse(answer.addr)) = answer.addr
    BY <1>7, <2>1, ReverseTwice
  <2>3. ip = V4(answer.addr)
    BY <1>3, <1>8, <2>2, Zenon DEF FromAnswer, SwapBytes, answer
  <2>4. QED
    BY <2>1, <2>3, V4Is
<1>9. CASE answer.family = "AF_INET6"
  <2>1. IsBytes(answer.addr, 16)
    BY <1>5, <1>7, <1>9, OctetsAre
  <2>2. ip = V6(answer.addr)
    BY <1>3, <1>9 DEF FromAnswer, answer
  <2>3. QED
    BY <2>1, <2>2, V6Is
<1>10. QED
  BY <1>6, <1>8, <1>9

(* What any text is parsed to is an address. *)
LEMMA ParsedIs ==
    ASSUME NEW text \in Texts, NEW ip \in IpFromStr(text)
    PROVE  ip \in IpAddresses
<1>1. CASE text.form = "name"
  <2>1. PICK host \in DOMAIN Answers : text.parts = <<host>>
    BY <1>1 DEF Texts
  <2>2. ~IsV4(text) /\ ~IsV6(text)
    BY <1>1 DEF IsV4, IsV6, IsCompressed, IsUncompressed, IsMapped
  <2>3. ip \in ResolveHostname(text)
    BY <2>2, Zenon DEF IpFromStr
  <2>4. QED
    BY <1>1, <2>1, <2>3, AnsweredIs
<1>2. CASE text.form # "name"
  <2>1. text.parts \in Seq(Nat)
    BY <1>2 DEF Texts
  <2>2. CASE IsV4(text)
    <3>1. ~IsV6(text)
      BY <2>2 DEF IsV4, IsV6, IsCompressed, IsUncompressed, IsMapped
    <3>2. ip \in V4FromStr(text)
      BY <2>2, <3>1, Zenon DEF IpFromStr
    <3>3. QED
      BY <2>1, <3>2, V4ParsedIs, V4Is
  <2>3. CASE ~IsV4(text) /\ IsMapped(text)
    <3>1. IpFromStr(text) = ParseMapped(text)
      BY <2>3, Zenon DEF IpFromStr, V6FromStr, IsV6
    <3>2. PICK v4 \in V4FromStr(text) : ip = V6(ToBeBytes(v4))
      BY <3>1 DEF ParseMapped
    <3>3. v4 = V4(text.parts) /\ IsBytes(text.parts, 4)
      BY <2>1, V4ParsedIs
    <3>4. ToBeBytes(v4) = Prefix \o text.parts
      BY <3>3 DEF ToBeBytes, V4, Prefix
    <3>5. QED
      BY <3>2, <3>3, <3>4, MappedIs, V6Is
  <2>4. CASE ~IsV4(text) /\ ~IsMapped(text) /\ IsV6(text)
    <3> DEFINE read == IF IsCompressed(text) THEN Uncompress(text.parts) ELSE {text.parts}
    <3>1. IpFromStr(text) = {V6(b) : b \in UNION {UncompressedAsBytes(p) : p \in read}}
      BY <2>4, Zenon DEF IpFromStr, V6FromStr
    <3>2. \A p \in read : p \in Seq(Nat)
      <4>1. IsCompressed(text) => Len(text.parts) >= 3
        BY <2>1 DEF IsCompressed, HasDoubleColon
      <4>2. QED
        BY <2>1, <4>1, UncompressType
    <3> HIDE DEF read
    <3>3. PICK p \in read : \E b \in UncompressedAsBytes(p) : ip = V6(b)
      BY <3>1
    <3>4. QED
      BY <3>2, <3>3, BytesOfGroups, V6Is
  <2>5. CASE ~IsV4(text) /\ ~IsV6(text)
    <3>1. IpFromStr(text) = ResolveHostname(text)
      BY <2>5, Zenon DEF IpFromStr
    <3>2. ResolveHostname(text) = {}
      BY <1>2 DEF ResolveHostname
    <3>3. QED
      BY <3>1, <3>2
  <2>6. QED
    BY <2>2, <2>3, <2>4, <2>5 DEF IsV6
<1>3. QED
  BY <1>1, <1>2

-----------------------------------------------------------------------------
(* An address through a sockaddr_storage.                                   *)

(* A port put in network order and back is as it was. *)
LEMMA PortTwice == ASSUME NEW port, IsGroup(port) PROVE PortBe(PortBe(port)) = port
<1> DEFINE a == HighOf(port)
           b == LowOf(port)
<1>1. IsByte(a) /\ IsByte(b) /\ port = PairOf(a, b)
  BY HighIs, LowIs, GroupIs, Zenon
<1>2. PortBe(port) = PairOf(b, a)
  BY PortBeIs, Zenon
<1> HIDE DEF a, b
<1>3. PortBe(PairOf(b, a)) = PairOf(LowOf(PairOf(b, a)), HighOf(PairOf(b, a)))
  BY PortBeIs, Zenon
<1>4. LowOf(PairOf(b, a)) = a /\ HighOf(PairOf(b, a)) = b
  BY <1>1, PairHigh, PairLow, Zenon
<1>5. QED
  BY <1>1, <1>2, <1>3, <1>4, Zenon

(* A socket address is what is read from the sockaddr_storage written for   *)
(* it.                                                                      *)
LEMMA StorageRoundTrips ==
    ASSUME NEW ip \in IpAddresses, NEW port, IsGroup(port)
    PROVE  FromStorage(ToStorage(SocketAddress(ip, port))) = {SocketAddress(ip, port)}
<1> DEFINE sa == SocketAddress(ip, port)
           storage == ToStorage(sa)
<1>1. PortBe(PortBe(port)) = port
  BY PortTwice
<1>2. sa.ip = ip /\ sa.port = port
  BY DEF SocketAddress
<1> HIDE DEF sa
<1>3. CASE ip = V4(ip.bytes) /\ ip.version = "V4" /\ IsBytes(ip.bytes, 4)
  <2> DEFINE twice == Reverse(Reverse(ip.bytes))
  <2>1. 4 \in Nat
    OBVIOUS
  <2>2. twice = ip.bytes /\ Reverse(Reverse(twice)) = ip.bytes
    BY <1>3, <2>1, ReverseTwice, Zenon
  <2>3. storage = [family |-> "AF_INET", addr |-> twice, port |-> PortBe(port)]
    BY <1>2, <1>3, Zenon DEF ToStorage, SwapBytes
  <2> HIDE DEF storage, twice
  <2>4. storage.family = "AF_INET" /\ storage.addr = twice /\ storage.port = PortBe(port)
    BY <2>3
  <2>5. FromStorage(storage) = {SocketAddress(V4(Reverse(Reverse(storage.addr))), PortBe(storage.port))}
    BY <2>4 DEF FromStorage, SwapBytes
  <2>6. V4(Reverse(Reverse(storage.addr))) = ip /\ PortBe(storage.port) = port
    BY <1>1, <1>3, <2>2, <2>4
  <2>7. QED
    BY <2>5, <2>6, Zenon DEF storage, sa
<1>4. CASE ip = V6(ip.bytes) /\ ip.version = "V6" /\ IsBytes(ip.bytes, 16)
  <2>3. storage = [family |-> "AF_INET6", addr |-> ip.bytes, port |-> PortBe(port)]
    <3>1. ip.version # "V4"
      BY <1>4
    <3>2. QED
      BY <1>2, <3>1, Zenon DEF ToStorage
  <2> HIDE DEF storage
  <2>4. storage.family = "AF_INET6" /\ storage.addr = ip.bytes /\ storage.port = PortBe(port)
    BY <2>3
  <2>5. FromStorage(storage) = {SocketAddress(V6(storage.addr), PortBe(storage.port))}
    BY <2>4 DEF FromStorage
  <2>6. V6(storage.addr) = ip /\ PortBe(storage.port) = port
    <3>1. V6(storage.addr) = V6(ip.bytes) /\ PortBe(storage.port) = PortBe(PortBe(port))
      BY <2>4, SMTT(30)
    <3>2. QED
      BY <1>1, <1>4, <3>1
  <2>7. QED
    BY <2>5, <2>6, Zenon DEF storage, sa
<1>5. QED
  BY <1>3, <1>4, AddressIs

(* The port of the model's sockets has 16 bits. *)
LEMMA PortIsGroup == IsGroup(Port)
BY SocketsAssumption, SMTT(30) DEF IsGroup

(* What the kernel gives as the name of a socket is read as the addresses   *)
(* its text is parsed to, and that of a path as none.                       *)
LEMMA NameIsTold ==
    ASSUME NEW text \in Texts \cup Paths
    PROVE  UNION {FromStorage(s) : s \in NameOf(text)} = {SocketAddress(ip, Port) : ip \in IpFromStr(text)}
<1>1. CASE text.form = "path"
  <2>1. ~IsV4(text) /\ ~IsV6(text)
    BY <1>1 DEF IsV4, IsV6, IsCompressed, IsUncompressed, IsMapped
  <2>2. IpFromStr(text) = ResolveHostname(text)
    BY <2>1, Zenon DEF IpFromStr
  <2>3. ResolveHostname(text) = {}
    BY <1>1 DEF ResolveHostname
  <2> DEFINE storage == [family |-> "AF_UNIX", addr |-> <<>>, port |-> 0]
  <2>4. NameOf(text) = {storage}
    BY <1>1 DEF NameOf
  <2>5. storage.family = "AF_UNIX"
    OBVIOUS
  <2> HIDE DEF storage
  <2>6. FromStorage(storage) = {}
    BY <2>5 DEF FromStorage
  <2>7. QED
    BY <2>2, <2>3, <2>4, <2>6
<1>2. CASE text.form # "path"
  <2>1. text \in Texts
    BY <1>2 DEF Paths
  <2>2. \A ip \in IpFromStr(text) : FromStorage(ToStorage(SocketAddress(ip, Port))) = {SocketAddress(ip, Port)}
    BY <2>1, ParsedIs, PortIsGroup, StorageRoundTrips, Zenon
  <2>3. NameOf(text) = {ToStorage(SocketAddress(ip, Port)) : ip \in IpFromStr(text)}
    BY <1>2, Zenon DEF NameOf
  <2> DEFINE f(ip) == ToStorage(SocketAddress(ip, Port))
             h(ip) == SocketAddress(ip, Port)
             S == IpFromStr(text)
  <2>4. NameOf(text) = {f(ip) : ip \in S} /\ \A ip \in S : FromStorage(f(ip)) = {h(ip)}
    BY <2>2, <2>3, Zenon
  <2> HIDE DEF f, h, S
  <2>5. UNION {FromStorage(s) : s \in NameOf(text)} = {h(ip) : ip \in S}
    BY <2>4
  <2>6. QED
    BY <2>5, Zenon DEF h, S
<1>3. QED
  BY <1>1, <1>2

(* Those are addresses. *)
LEMMA ParsedAre ==
    ASSUME NEW text \in Texts \cup Paths, NEW ip \in IpFromStr(text)
    PROVE  ip \in IpAddresses
<1>1. CASE text.form = "path"
  <2>1. ~IsV4(text) /\ ~IsV6(text)
    BY <1>1 DEF IsV4, IsV6, IsCompressed, IsUncompressed, IsMapped
  <2>2. IpFromStr(text) = ResolveHostname(text)
    BY <2>1, Zenon DEF IpFromStr
  <2>3. ResolveHostname(text) = {}
    BY <1>1 DEF ResolveHostname
  <2>4. QED
    BY <2>2, <2>3
<1>2. CASE text.form # "path"
  <2>1. text \in Texts
    BY <1>2 DEF Paths
  <2>2. QED
    BY <2>1, ParsedIs
<1>3. QED
  BY <1>1, <1>2

(* The address of a recvmsg is one the sender's socket is bound to. *)
LEMMA AddressTold ==
    ASSUME NEW m, IsMessage(m), NEW w, w.name = m.name
    PROVE  /\ ParsedAddress(w) = UNION {{SocketAddress(ip, Port) : ip \in IpFromStr(text)} : text \in m.socket.own}
           /\ \A a \in ParsedAddress(w) : a.ip \in IpAddresses
<1>1. m.socket.own \subseteq Texts \cup Paths
  <2>1. m.socket \in Sockets
    BY DEF IsMessage
  <2>2. IsSocket(m.socket)
    BY <2>1, SocketsAssumption, SMTT(30)
  <2>3. QED
    BY <2>2, Zenon DEF IsSocket
<1>2. w.name = UNION {NameOf(text) : text \in m.socket.own}
  BY Zenon DEF IsMessage
<1>3. ParsedAddress(w) = UNION {UNION {FromStorage(s) : s \in NameOf(text)} : text \in m.socket.own}
  BY <1>2 DEF ParsedAddress
<1>4. \A text \in m.socket.own :
          UNION {FromStorage(s) : s \in NameOf(text)} = {SocketAddress(ip, Port) : ip \in IpFromStr(text)}
  BY <1>1, NameIsTold
<1>5. ParsedAddress(w) = UNION {{SocketAddress(ip, Port) : ip \in IpFromStr(text)} : text \in m.socket.own}
  BY <1>3, <1>4, Zenon
<1>6. \A a \in ParsedAddress(w) : a.ip \in IpAddresses
  <2>1. TAKE a \in ParsedAddress(w)
  <2>2. PICK text \in m.socket.own : \E ip \in IpFromStr(text) : a = SocketAddress(ip, Port)
    BY <1>5
  <2>3. PICK ip \in IpFromStr(text) : a = SocketAddress(ip, Port)
    BY <2>2
  <2>4. a.ip = ip
    BY <2>3 DEF SocketAddress
  <2>5. QED
    BY <1>1, <2>2, <2>3, <2>4, ParsedAre
<1>7. QED
  BY <1>5, <1>6, Zenon

(* The destination of a packet: reversed if it is an IPv4 address. *)
LEMMA PacketIs ==
    ASSUME NEW raw, IsRaw(raw), NEW m \in Parse(raw), m.kind = "PacketInfo"
    PROVE  m.value.destination =
               IF m.level = "IpV4" THEN [raw.value.destination EXCEPT !.bytes = Reverse(@)] ELSE raw.value.destination
<1>1. \A level, kind, value : /\ ControlMessage(level, kind, value).level = level
                              /\ ControlMessage(level, kind, value).kind = kind
                              /\ ControlMessage(level, kind, value).value = value
  BY DEF ControlMessage
<1>2. CASE raw.level = "SOL_SOCKET"
  <2>1. \/ m = ControlMessage("Socket", "Rights", raw.value)
        \/ m = ControlMessage("Socket", "DetailedTimestamp", raw.value)
        \/ m = ControlMessage("Socket", IF raw.type = "SCM_CREDENTIALS" THEN "Credentials" ELSE "Timestamp", raw.value)
    BY <1>2 DEF Parse, ParseSocket
  <2>2. QED
    BY <1>1, <2>1
<1>3. CASE raw.level = "IPPROTO_IP"
  <2> DEFINE destination == raw.value.destination
             turned == [destination EXCEPT !.bytes = Reverse(@)]
             specific == {[ip EXCEPT !.bytes = Reverse(@)] : ip \in raw.value.specific}
             value == [raw.value EXCEPT !.destination.bytes = Reverse(@), !.specific = specific]
  <2>1. \/ raw.type = "IP_PKTINFO" /\ m = ControlMessage("IpV4", "PacketInfo", value)
        \/ m = ControlMessage("IpV4", "TimeToLive", raw.value)
    BY <1>3 DEF Parse, ParseIpV4
  <2> HIDE DEF specific
  <2>2. raw.type = "IP_PKTINFO" /\ m = ControlMessage("IpV4", "PacketInfo", value)
    <3> HIDE DEF value
    <3>1. QED
      BY <1>1, <2>1
  <2>3. "destination" \in DOMAIN raw.value
    BY <2>2 DEF IsRaw
  <2>4. value.destination = turned
    BY <2>3
  <2> HIDE DEF value, turned
  <2>5. m.level = "IpV4" /\ m.value = value
    BY <1>1, <2>2
  <2>6. QED
    BY <2>4, <2>5, Zenon DEF turned
<1>4. CASE raw.level = "IPPROTO_IPV6"
  <2>1. \/ m = ControlMessage("IpV6", "PacketInfo", raw.value)
        \/ m = ControlMessage("IpV6", "HopLimit", raw.value)
        \/ m = ControlMessage("IpV6", "Class", TrafficClassOf(raw.value % 256))
    BY <1>4 DEF Parse, ParseIpV6
  <2>2. m = ControlMessage("IpV6", "PacketInfo", raw.value)
    BY <1>1, <2>1
  <2>3. m.level # "IpV4" /\ m.value = raw.value
    BY <1>1, <2>2
  <2>4. QED
    BY <2>3, Zenon
<1>5. CASE raw.level = "SOL_TLS"
  <2>1. m = ControlMessage("Tls", "GetRecordType", raw.value)
    BY <1>5 DEF Parse, ParseTls
  <2>2. QED
    BY <1>1, <2>1
<1>6. QED
  BY <1>2, <1>3, <1>4, <1>5 DEF Parse

(* The address that a recvmsg tells is its sender's, and no other, and its  *)
(* text is parsed back to it, unless it is an IPv6 address with no two zero *)
(* groups together whose first zero group is its first or its last          *)
(* (compress_v6, address.rs:383); the destination of an IPv4 packet is told *)
(* with its bytes reversed, that of an IPv6 packet as it is                 *)
(* (message.rs:173). For any texts, hosts and answers of the resolver, any  *)
(* port, and any of the 2^128 addresses: the conversions are functions, so  *)
(* what is proved of them here holds of every address, not of those of a    *)
(* run alone.                                                               *)
THEOREM AddressesRoundTripHolds == Spec => []AddressesRoundTrip
<1>1. MInv => AddressesRoundTrip
  <2> SUFFICES ASSUME MInv, NEW g \in got
               PROVE  /\ g.result.kind = "RecvMsg" =>
                         /\ g.result.address = UNION {{SocketAddress(ip, Port) : ip \in IpFromStr(text)} :
                                                          text \in g.message.socket.own}
                         /\ \A a \in g.result.address : IpFromStr(DisplayIp(a.ip)) = {a.ip} \/ LoneEdgeZero(a.ip)
                      /\ \A messages \in g.result.control : \A i \in DOMAIN messages :
                            messages[i].kind = "PacketInfo" =>
                                LET destination == g.written.controls.raws[i].value.destination
                                IN  messages[i].value.destination =
                                        IF messages[i].level = "IpV4" THEN [destination EXCEPT !.bytes = Reverse(@)]
                                                                      ELSE destination
    BY Zenon DEF AddressesRoundTrip
  <2> DEFINE o == g.of
             m == g.message
             w == g.written
             raws == w.controls.raws
             R == ToSet(m.raws)
  <2>1. GoodGot(g)
    BY GotIsOne DEF MInv
  <2>2. GoodOp(o) /\ IsMessage(m) /\ w = Written(o, m) /\ g.result = Completion(o, w)
    BY <2>1 DEF GoodGot
  <2>3. /\ g.result.kind = o.kind
        /\ g.result.control = IF o.kind = "RecvMsg" THEN ParsedControl(w) ELSE {}
        /\ g.result.address = IF o.kind = "RecvMsg" THEN ParsedAddress(w) ELSE {}
    <3>1. LET r == Completion(o, Written(o, m))
          IN  /\ r.kind = o.kind
              /\ r.control = IF o.kind = "RecvMsg" THEN ParsedControl(Written(o, m)) ELSE {}
              /\ r.address = IF o.kind = "RecvMsg" THEN ParsedAddress(Written(o, m)) ELSE {}
      BY <2>2, CompletionIs, Zenon
    <3>2. QED
      BY <2>2, <3>1, Zenon
  <2>4. w.name = m.name
    BY <2>2 DEF Written
  <2>5. ASSUME g.result.kind = "RecvMsg"
        PROVE  /\ g.result.address = UNION {{SocketAddress(ip, Port) : ip \in IpFromStr(text)} : text \in m.socket.own}
               /\ \A a \in g.result.address : IpFromStr(DisplayIp(a.ip)) = {a.ip} \/ LoneEdgeZero(a.ip)
    <3>1. g.result.address = ParsedAddress(w)
      BY <2>3, <2>5, Zenon
    <3>2. /\ ParsedAddress(w) = UNION {{SocketAddress(ip, Port) : ip \in IpFromStr(text)} : text \in m.socket.own}
          /\ \A a \in ParsedAddress(w) : a.ip \in IpAddresses
      BY <2>2, <2>4, AddressTold, Zenon
    <3>3. QED
      BY <3>1, <3>2, TextRoundTrips, Zenon
  <2>6. ASSUME NEW messages \in g.result.control, NEW i \in DOMAIN messages, messages[i].kind = "PacketInfo"
        PROVE  messages[i].value.destination =
                   IF messages[i].level = "IpV4" THEN [raws[i].value.destination EXCEPT !.bytes = Reverse(@)]
                                                 ELSE raws[i].value.destination
    <3>1. PutSound(R, RoomFor(o), w.controls)
      BY <2>2, ControlsWritten
    <3>2. \A j \in DOMAIN raws : IsRaw(raws[j])
      BY <3>1, Zenon DEF PutSound
    <3>3. messages \in ParseFromMsghdr(raws)
      BY <2>3, <2>6 DEF ParsedControl, None
    <3>4. /\ \A j \in DOMAIN raws : Parse(raws[j]) # {}
          /\ messages = [j \in DOMAIN raws |-> CHOOSE x \in Parse(raws[j]) : TRUE]
      BY <3>3, Zenon DEF ParseFromMsghdr
    <3> HIDE DEF raws
    <3>5. i \in DOMAIN raws
      BY <3>4, Zenon
    <3>6. messages[i] \in Parse(raws[i])
      BY <3>4, <3>5, Zenon
    <3>7. QED
      BY <2>6, <3>2, <3>5, <3>6, PacketIs, Zenon
  <2>7. QED
    BY <2>5, <2>6, Zenon
<1>2. QED
  BY <1>1, MInvHolds, PTL
====
