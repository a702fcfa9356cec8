-------------------------- MODULE RingBuffer_proofs --------------------------
(***************************************************************************)
(* Proofs about CRingBuffer for every size and every number of bytes.      *)
(***************************************************************************)
EXTENDS RingBuffer, SequenceTheorems, TLAPS

(* Pointer arithmetic. *)

\* GetAvailableData is the distance from head to tail, and GetAvailableSpace is
\* what is left beside it and the one byte that is never used.
LEMMA AvailableIsDistance ==
  ASSUME NEW h \in Pointer, NEW t \in Pointer
  PROVE  /\ GetAvailableData(h, t) = IF t >= h THEN t - h ELSE Size - h + t
         /\ GetAvailableSpace(h, t) = Size - 1 - GetAvailableData(h, t)
         /\ GetAvailableData(h, t) \in 0..Size
         /\ t < Size => GetAvailableSpace(h, t) \in 0..(Size - 1)
BY RingAssumption DEF GetAvailableData, GetAvailableSpace, Pointer

\* A pointer moved on or back by at most Size stays inside the buffer.
LEMMA PointerInRange ==
  ASSUME NEW p \in Offset, NEW n \in 0..Size, NEW b \in BOOLEAN
  PROVE  /\ Forward(p, n) \in Offset
         /\ Backward(p, n) \in Offset
         /\ Advance(p, n, b) \in Pointer
         /\ ~b => Advance(p, n, b) < Size
BY RingAssumption DEF Forward, Backward, Advance, Offset, Pointer

-----------------------------------------------------------------------------
(* Type correctness. *)

\* The shape of the state: types, and what the calls under way allow.
Shape == /\ TypeOK
         /\ Len(out) <= Size
         /\ wlen > 0 => m_Tail < Size
         /\ rlen > 0 => m_Head < Size
         /\ rlen > 0 => Len(out) <= rlen

\* An empty ring has the shape.
LEMMA ShapeInit == Init => Shape
<1> SUFFICES ASSUME Init PROVE Shape
  OBVIOUS
<1> USE RingAssumption DEF Init
<1>1. mem \in [Offset -> Nat]
  BY DEF Offset
<1>2. m_Head \in Pointer /\ m_Tail \in Pointer /\ m_Head < Size /\ m_Tail < Size
  BY DEF Pointer
<1>3. out \in Seq(Nat) /\ Len(out) = 0
  OBVIOUS
<1>4. wlen \in 0..(Size - 1) /\ wdone \in 0..wlen /\ rlen \in 0..Size
  OBVIOUS
<1>5. /\ accepted \in Nat /\ consumed \in Int
      /\ raced \in BOOLEAN
  <2>1. raced \in BOOLEAN
    BY Zenon
  <2>2. accepted \in Nat /\ consumed \in Int
    OBVIOUS
  <2> QED BY <2>1, <2>2
<1>6. TypeOK
  BY ONLY <1>1, <1>2, <1>3, <1>4, <1>5 DEF TypeOK
<1>7. Len(out) <= Size /\ wlen = 0 /\ rlen = 0
  BY <1>3
<1> QED BY ONLY <1>2, <1>6, <1>7 DEF Shape

\* Every step of either thread keeps the shape, races or not.
LEMMA ShapeStep == Shape /\ [CancelNext]_vars => Shape'
<1> SUFFICES ASSUME Shape, [CancelNext]_vars PROVE Shape'
  OBVIOUS
<1> USE RingAssumption DEF Shape, TypeOK
<1>0. Len(out) \in Nat /\ m_Head \in Pointer /\ m_Tail \in Pointer
  OBVIOUS
<1>h. m_Head < Size => m_Head \in Offset
  BY DEF Pointer, Offset
<1>t. m_Tail < Size => m_Tail \in Offset
  BY DEF Pointer, Offset
<1>1. ASSUME NEW n \in 1..MaxWrite, WriteBegin(n) PROVE Shape'
  <2>1. GetAvailableSpace(m_Head, m_Tail) \in 0..(Size - 1)
    BY <1>0, <1>1, AvailableIsDistance DEF WriteBegin
  <2>2. Least(n, GetAvailableSpace(m_Head, m_Tail)) \in 0..(Size - 1)
    BY <2>1 DEF Least
  <2> QED BY <1>1, <2>2 DEF WriteBegin
<1>2. CASE WriteByte
  <2>0. accepted + wdone + 1 \in Nat /\ mem \in [Offset -> Nat]
    BY <1>2
  <2>1. mem' \in [Offset -> Nat]
    BY ONLY <1>2, <2>0 DEF WriteByte
  <2>2. wdone' \in 0..wlen'
    BY <1>2 DEF WriteByte
  <2> QED BY <1>2, <2>1, <2>2 DEF WriteByte
<1>3. CASE WriteEnd
  <2>1. m_Tail \in Offset /\ wlen \in 0..Size
    BY <1>3, <1>t DEF WriteEnd
  <2>2. m_Tail' \in Pointer /\ (~TailTwoStores => m_Tail' < Size)
    BY <1>3, <2>1, PointerInRange DEF WriteEnd
  <2> QED BY <1>3, <2>2 DEF WriteEnd
<1>4. CASE WriteWrap
  BY <1>4 DEF WriteWrap, Pointer
<1>5. CASE ReadBegin
  <2>1. GetAvailableData(m_Head, m_Tail) \in 0..Size
    BY <1>0, AvailableIsDistance
  <2>2. Least(ReadSize, GetAvailableData(m_Head, m_Tail)) \in 0..Size
    BY <2>1 DEF Least
  <2>3. out' = <<>> /\ Len(out') = 0 /\ out' \in Seq(Nat)
    BY <1>5 DEF ReadBegin
  <2> QED BY <1>5, <2>2, <2>3 DEF ReadBegin
<1>6. CASE ReadByte
  <2>1. Forward(m_Head, Len(out)) \in Offset
    BY <1>0, <1>6, <1>h, PointerInRange DEF ReadByte
  <2>2. mem[Forward(m_Head, Len(out))] \in Nat
    BY <2>1
  <2>3. out' \in Seq(Nat) /\ Len(out') = Len(out) + 1
    BY <1>6, <2>2 DEF ReadByte
  <2> QED BY <1>0, <1>6, <2>3 DEF ReadByte
<1>7. CASE ReadEnd
  <2>1. m_Head \in Offset /\ rlen \in 0..Size
    BY <1>7, <1>h DEF ReadEnd
  <2>2. m_Head' \in Pointer /\ (~HeadTwoStores => m_Head' < Size)
    BY <1>7, <2>1, PointerInRange DEF ReadEnd
  <2> QED BY <1>7, <2>2 DEF ReadEnd
<1>8. CASE ReadWrap
  BY <1>8 DEF ReadWrap, Pointer
<1>9. ASSUME NEW n \in 1..ReadSize, CancelReadBytes(n) PROVE Shape'
  <2>1. m_Head \in Offset /\ n \in 0..Size
    BY <1>9, <1>h DEF CancelReadBytes
  <2>2. Backward(m_Head, n) \in Offset
    BY <2>1, PointerInRange
  <2>3. m_Head' \in Pointer /\ m_Head' < Size
    BY <1>9, <2>2 DEF CancelReadBytes, Offset, Pointer
  <2>4. out' \in Seq(Nat) /\ Len(out') = Len(out) - n
    BY <1>0, <1>9 DEF CancelReadBytes
  <2>5. raced' \in BOOLEAN
    BY <1>9 DEF CancelReadBytes
  <2> QED BY <1>0, <1>9, <2>3, <2>4, <2>5 DEF CancelReadBytes
<1>10. CASE UNCHANGED vars
  BY <1>10 DEF vars
<1> QED
  BY <1>1, <1>2, <1>3, <1>4, <1>5, <1>6, <1>7, <1>8, <1>9, <1>10
     DEF CancelNext, Next, Producer, Consumer

\* m_Head and m_Tail never leave the buffer and no count goes out of its range,
\* in every build and even after a race.
THEOREM CancelTypeCorrect == CancelSpec => []TypeOK
<1>1. Shape => TypeOK
  BY DEF Shape
<1> QED BY <1>1, ShapeInit, ShapeStep, PTL DEF CancelSpec

\* The same for m_TcpToComBuf, whose reader never cancels.
THEOREM TypeCorrect == Spec => []TypeOK
<1>1. [Next]_vars => [CancelNext]_vars
  BY DEF CancelNext
<1>2. Shape => TypeOK
  BY DEF Shape
<1> QED BY <1>1, <1>2, ShapeInit, ShapeStep, PTL DEF Spec
-----------------------------------------------------------------------------
(* Distances and indices.  Everything in the ring is named by its distance   *)
(* from m_Head, so that a moved pointer only renames places.                 *)

Distance(h, t) == GetAvailableData(h, Forward(t, 0))

\* The distance from head to tail, with m_End the same place as m_Base.
LEMMA DistanceValue ==
  ASSUME NEW h \in Pointer, NEW t \in Pointer
  PROVE  /\ t < Size => Distance(h, t) = IF t >= h THEN t - h ELSE Size - h + t
         /\ t = Size => Distance(h, t) = IF h = 0 THEN 0 ELSE Size - h
         /\ Distance(h, t) \in 0..(Size - 1)
<1> DEFINE u == Forward(t, 0)
<1>1. u \in Pointer /\ u = IF t = Size THEN 0 ELSE t
  BY RingAssumption DEF Pointer, Forward
<1>2. GetAvailableData(h, u) = IF u >= h THEN u - h ELSE Size - h + u
  BY <1>1, AvailableIsDistance
<1> QED BY <1>1, <1>2, RingAssumption DEF Distance, Pointer

\* Outside the one stale snapshot, both threads compute the true distance.
LEMMA SnapshotIsExact ==
  ASSUME NEW h \in Pointer, NEW t \in Pointer, ~(t = Size /\ h = 0)
  PROVE  /\ GetAvailableData(h, t) = Distance(h, t)
         /\ t < Size => GetAvailableSpace(h, t) = Size - 1 - Distance(h, t)
<1>1. /\ GetAvailableData(h, t) = IF t >= h THEN t - h ELSE Size - h + t
      /\ GetAvailableSpace(h, t) = Size - 1 - GetAvailableData(h, t)
  BY AvailableIsDistance
<1>2. /\ t < Size => Distance(h, t) = IF t >= h THEN t - h ELSE Size - h + t
      /\ t = Size => Distance(h, t) = IF h = 0 THEN 0 ELSE Size - h
  BY DistanceValue
<1> QED BY <1>1, <1>2, RingAssumption DEF Pointer

\* Publishing n written bytes brings the tail n further from the head.
LEMMA TailMoves ==
  ASSUME NEW h \in Pointer, NEW t \in Offset, NEW b \in BOOLEAN,
         NEW n \in 1..Size, n <= Size - 1 - Distance(h, t)
  PROVE  Distance(h, Advance(t, n, b)) = Distance(h, t) + n
<1> DEFINE a == Advance(t, n, b)
<1>1. t \in Pointer /\ t < Size /\ a \in Pointer
  BY RingAssumption, PointerInRange DEF Offset, Pointer
<1>2. Distance(h, t) = IF t >= h THEN t - h ELSE Size - h + t
  BY <1>1, DistanceValue
<1>3. /\ a < Size => Distance(h, a) = IF a >= h THEN a - h ELSE Size - h + a
      /\ a = Size => Distance(h, a) = IF h = 0 THEN 0 ELSE Size - h
  BY <1>1, DistanceValue
<1>4. a = IF t + n < Size \/ (t + n = Size /\ b) THEN t + n ELSE t + n - Size
  BY RingAssumption DEF Advance, Forward, Offset
<1> HIDE DEF a
<1>5. Distance(h, a) = Distance(h, t) + n
  BY <1>1, <1>2, <1>3, <1>4, RingAssumption DEF Offset, Pointer
<1> QED BY <1>5 DEF a

\* Publishing n read bytes brings the head n nearer to the tail.
LEMMA HeadMoves ==
  ASSUME NEW h \in Offset, NEW t \in Pointer, NEW b \in BOOLEAN,
         NEW n \in 1..Size, n <= Distance(h, t)
  PROVE  Distance(Advance(h, n, b), t) = Distance(h, t) - n
<1> DEFINE a == Advance(h, n, b)
<1>1. h \in Pointer /\ a \in Pointer
  BY RingAssumption, PointerInRange DEF Offset, Pointer
<1>2. /\ t < Size => Distance(h, t) = IF t >= h THEN t - h ELSE Size - h + t
      /\ t = Size => Distance(h, t) = IF h = 0 THEN 0 ELSE Size - h
  BY <1>1, DistanceValue
<1>3. /\ t < Size => Distance(a, t) = IF t >= a THEN t - a ELSE Size - a + t
      /\ t = Size => Distance(a, t) = IF a = 0 THEN 0 ELSE Size - a
  BY <1>1, DistanceValue
<1>4. a = IF h + n < Size \/ (h + n = Size /\ b) THEN h + n ELSE h + n - Size
  BY RingAssumption DEF Advance, Forward, Offset
<1> HIDE DEF a
<1>5. Distance(a, t) = Distance(h, t) - n
  BY <1>1, <1>2, <1>3, <1>4, RingAssumption DEF Offset, Pointer
<1> QED BY <1>5 DEF a

\* Cancelling n bytes takes the head n further from the tail.
LEMMA HeadMovesBack ==
  ASSUME NEW h \in Offset, NEW t \in Pointer,
         NEW n \in 1..Size, n <= Size - 1 - Distance(h, t)
  PROVE  Distance(Backward(h, n), t) = Distance(h, t) + n
<1> DEFINE a == Backward(h, n)
<1>1. h \in Pointer /\ a \in Pointer
  BY RingAssumption, PointerInRange DEF Offset, Pointer
<1>2. /\ t < Size => Distance(h, t) = IF t >= h THEN t - h ELSE Size - h + t
      /\ t = Size => Distance(h, t) = IF h = 0 THEN 0 ELSE Size - h
  BY <1>1, DistanceValue
<1>3. /\ t < Size => Distance(a, t) = IF t >= a THEN t - a ELSE Size - a + t
      /\ t = Size => Distance(a, t) = IF a = 0 THEN 0 ELSE Size - a
  BY <1>1, DistanceValue
<1>4. a = IF h < n THEN Size - (n - h) ELSE h - n
  BY DEF Backward
<1> HIDE DEF a
<1>5. Distance(a, t) = Distance(h, t) + n
  BY <1>1, <1>2, <1>3, <1>4, RingAssumption DEF Offset, Pointer
<1> QED BY <1>5 DEF a

\* Two bytes at different distances from a pointer are at different offsets.
LEMMA ForwardInjective ==
  ASSUME NEW p \in Pointer, NEW i \in Offset, NEW j \in Offset, Forward(p, i) = Forward(p, j)
  PROVE  i = j
BY RingAssumption DEF Forward, Offset, Pointer

\* A byte counted from a pointer is at an offset.
LEMMA ForwardInRange ==
  ASSUME NEW p \in Pointer, NEW i \in Offset
  PROVE  Forward(p, i) \in Offset
BY RingAssumption DEF Forward, Offset, Pointer

\* A byte counted from the tail, counted from the head.
LEMMA ForwardFromTail ==
  ASSUME NEW h \in Pointer, NEW t \in Pointer, NEW i \in Offset, Distance(h, t) + i < Size
  PROVE  Forward(t, i) = Forward(h, Distance(h, t) + i)
<1>1. /\ t < Size => Distance(h, t) = IF t >= h THEN t - h ELSE Size - h + t
      /\ t = Size => Distance(h, t) = IF h = 0 THEN 0 ELSE Size - h
  BY DistanceValue
<1> QED BY <1>1, RingAssumption DEF Forward, Offset, Pointer

\* A byte counted from a head that has moved on, counted from where it was.
LEMMA ForwardFromAdvanced ==
  ASSUME NEW h \in Offset, NEW b \in BOOLEAN, NEW n \in 1..Size
  PROVE  /\ \A i \in Offset : n + i <= Size => Forward(Advance(h, n, b), i) = Forward(h, n + i)
         /\ \A k \in 1..n : Backward(Advance(h, n, b), k) = Forward(h, n - k)
BY RingAssumption DEF Forward, Advance, Backward, Offset

\* A byte counted from a head that has moved back, counted from where it was.
LEMMA ForwardFromBackward ==
  ASSUME NEW h \in Offset, NEW n \in 1..(Size - 1)
  PROVE  /\ \A i \in 0..(n - 1) : Forward(Backward(h, n), i) = Backward(h, n - i)
         /\ \A i \in n..(Size - 1) : Forward(Backward(h, n), i) = Forward(h, i - n)
         /\ \A k \in 1..Size : n + k <= Size => Backward(Backward(h, n), k) = Backward(h, n + k)
BY RingAssumption DEF Forward, Backward, Offset

\* A byte behind the head, counted forward around the ring.
LEMMA BackwardIsForward ==
  ASSUME NEW h \in Pointer, NEW k \in 1..Size
  PROVE  Backward(h, k) = Forward(h, Size - k)
BY RingAssumption DEF Forward, Backward, Pointer

-----------------------------------------------------------------------------
(* Safety.  Held is what IInv claims of a state without a race; its last two *)
(* conjuncts say what RingSafety cannot: the bytes of an unfinished Write    *)
(* are in place behind the tail, and the bytes a Read took out are still in  *)
(* place before the head while they can be cancelled.                        *)

Held == RingSafety /\ PartialWriteInPlace /\ CancellableBytesIntact

\* IInv is the shape, which always holds, and Held, which holds without a race.
LEMMA IInvIsShapeAndHeld == IInv <=> Shape /\ (~raced => Held)
BY DEF IInv, Shape, Held

\* What every step of the proof needs of the state it starts from: the counts,
LEMMA Counts ==
  ASSUME Shape, Held
  PROVE  /\ m_Head \in Pointer /\ m_Tail \in Pointer
         /\ wlen \in 0..(Size - 1) /\ wdone \in 0..wlen /\ rlen \in 0..Size
         /\ Len(out) \in 0..Size /\ accepted \in Nat /\ consumed \in Int
         /\ Used = Distance(m_Head, m_Tail) /\ Used \in 0..(Size - 1)
         /\ Used = accepted - consumed
         /\ wlen <= Size - 1 - Used /\ rlen <= Used
<1>1. m_Head \in Pointer /\ m_Tail \in Pointer
  BY DEF Shape, TypeOK
<1>2. Used = Distance(m_Head, m_Tail)
  BY DEF Used, Distance
<1>3. Used \in 0..(Size - 1)
  BY <1>1, <1>2, DistanceValue
<1>4. /\ wlen \in 0..(Size - 1) /\ wdone \in 0..wlen /\ rlen \in 0..Size
      /\ Len(out) \in 0..Size /\ accepted \in Nat /\ consumed \in Int
  BY RingAssumption DEF Shape, TypeOK
<1>5. /\ Used = accepted - consumed
      /\ wlen <= Size - 1 - Used /\ rlen <= Used
  BY DEF Held, RingSafety, SnapshotsHold, UnreadBytesIntact
<1> QED BY <1>1, <1>2, <1>3, <1>4, <1>5

\* and the bytes.
LEMMA Bytes ==
  ASSUME Shape, Held
  PROVE  /\ mem \in [Offset -> Nat]
         /\ \A i \in 0..(Used - 1) : mem[Forward(m_Head, i)] = consumed + i + 1
         /\ \A i \in 0..(wdone - 1) : mem[Forward(m_Tail, i)] = accepted + i + 1
         /\ rlen = 0 => \A k \in 1..Len(out) :
              Used + wlen + k < Size => mem[Backward(m_Head, k)] = consumed - k + 1
<1>1. /\ \A i \in 0..(Used - 1) : mem[Forward(m_Head, i)] = consumed + i + 1
      /\ \A i \in 0..(wdone - 1) : mem[Forward(m_Tail, i)] = accepted + i + 1
  BY DEF Held, RingSafety, UnreadBytesIntact, PartialWriteInPlace
<1>2. ASSUME rlen = 0, NEW k \in 1..Len(out), Used + wlen + k < Size
      PROVE  mem[Backward(m_Head, k)] = consumed - k + 1
  <2>1. accepted + wlen - consumed + k < Size
    BY <1>2, Counts, RingAssumption
  <2> QED BY <1>2, <2>1 DEF Held, CancellableBytesIntact
<1>3. mem \in [Offset -> Nat]
  BY DEF Shape, TypeOK
<1> QED BY <1>1, <1>2, <1>3

\* The room a Write counts on is free.
LEMMA HeldWriteBegin ==
  ASSUME Shape, Held, NEW n \in 1..MaxWrite, WriteBegin(n)
  PROVE  Held'
<1>0. /\ Size \in Nat /\ Used \in Nat /\ wlen \in Nat /\ wdone \in Nat /\ rlen \in Nat
      /\ Len(out) \in 0..Size /\ accepted \in Nat /\ consumed \in Int
      /\ Used = accepted - consumed /\ Used < Size
  BY Counts, RingAssumption
<1>1. /\ Used' = Used /\ wdone = 0 /\ wdone' = 0 /\ wlen = 0
  BY Counts DEF WriteBegin, Used
<1>2. GetAvailableSpace(m_Head, m_Tail) = Size - 1 - Used
  <2>1. m_Tail < Size /\ ~(m_Tail = Size /\ m_Head = 0)
    BY Counts, RingAssumption DEF WriteBegin
  <2> QED BY <2>1, Counts, SnapshotIsExact
<1>3. wlen' \in Nat /\ wlen' <= Size - 1 - Used
  <2>1. Size - 1 - Used \in Nat
    BY Counts, RingAssumption
  <2> QED BY <1>2, <2>1 DEF WriteBegin, Least
<1>4. SnapshotsHold'
  BY <1>1, <1>3, Counts DEF SnapshotsHold, WriteBegin
<1>5. UnreadBytesIntact' /\ ReadsInOrder'
  BY <1>1 DEF Held, RingSafety, UnreadBytesIntact, ReadsInOrder, WriteBegin
<1>6. PartialWriteInPlace'
  BY <1>1 DEF PartialWriteInPlace
<1>7. CancellableBytesIntact'
  <2> SUFFICES ASSUME rlen = 0, NEW k \in 1..Len(out), accepted + wlen' - consumed + k < Size
               PROVE  mem[Backward(m_Head, k)] = consumed - k + 1
    BY DEF CancellableBytesIntact, WriteBegin
  <2>1. Used + wlen + k < Size
    <3>1. \A w \in Nat : accepted + w - consumed + k < Size => Used + k < Size
      BY ONLY <1>0, k \in 1..Len(out)
    <3>2. Used + k < Size
      BY <1>3, <3>1
    <3> QED BY ONLY <1>0, <1>1, <3>2, k \in 1..Len(out)
  <2> QED BY <2>1, Bytes
<1> QED BY <1>4, <1>5, <1>6, <1>7 DEF Held, RingSafety

\* A byte written lands behind the unread bytes and the bytes already written,
\* and short of the bytes that can be cancelled.
LEMMA HeldWriteByte ==
  ASSUME Shape, Held, WriteByte
  PROVE  Held'
<1>0. /\ Size \in Nat /\ Used \in Nat /\ wlen \in Nat /\ wdone \in Nat /\ rlen \in Nat
      /\ Len(out) \in 0..Size /\ accepted \in Nat /\ consumed \in Int
      /\ Used = accepted - consumed /\ Used < Size
  BY Counts, RingAssumption
<1> DEFINE at == Forward(m_Tail, wdone)
<1>1. /\ Used' = Used /\ wdone' = wdone + 1 /\ Used + wdone < Size - 1
      /\ wdone \in Offset /\ Used + wdone \in Offset
  BY Counts, RingAssumption DEF WriteByte, Used, Offset
<1>2. at = Forward(m_Head, Used + wdone)
  <2>1. Distance(m_Head, m_Tail) + wdone < Size
    BY <1>1, Counts, RingAssumption
  <2> QED BY <1>1, <2>1, Counts, ForwardFromTail
<1>3. at \in Offset /\ at \in DOMAIN mem
  BY <1>1, Counts, ForwardInRange DEF Shape, TypeOK
<1>4. ASSUME NEW i \in Offset, i # Used + wdone
      PROVE  mem'[Forward(m_Head, i)] = mem[Forward(m_Head, i)]
  <2>1. Forward(m_Head, i) # at
    BY <1>1, <1>2, <1>4, Counts, ForwardInjective
  <2>2. Forward(m_Head, i) \in Offset /\ mem \in [Offset -> Nat]
    BY Counts, ForwardInRange DEF Shape, TypeOK
  <2> QED BY <2>1, <2>2 DEF WriteByte
<1>5. mem'[at] = accepted + wdone + 1
  BY <1>3 DEF WriteByte
<1>6. SnapshotsHold'
  BY <1>1 DEF Held, RingSafety, SnapshotsHold, WriteByte
<1>7. UnreadBytesIntact'
  <2>1. ASSUME NEW i \in 0..(Used - 1)
        PROVE  mem'[Forward(m_Head, i)] = consumed + i + 1
    <3>1. i \in Offset /\ i # Used + wdone
      BY Counts, RingAssumption DEF Offset
    <3> QED BY <3>1, <1>4, Bytes
  <2> QED BY <1>1, <2>1, Counts DEF UnreadBytesIntact, WriteByte
<1>8. ReadsInOrder'
  BY DEF Held, RingSafety, ReadsInOrder, WriteByte
<1>9. PartialWriteInPlace'
  <2> SUFFICES ASSUME NEW i \in 0..wdone
               PROVE  mem'[Forward(m_Tail, i)] = accepted + i + 1
    BY <1>1, Counts DEF PartialWriteInPlace, WriteByte
  <2>1. CASE i = wdone
    BY <2>1, <1>5
  <2>2. CASE i < wdone
    <3>1. i \in Offset /\ Used + i \in Offset /\ Used + i # Used + wdone
          /\ Distance(m_Head, m_Tail) + i < Size
      BY SMTT(60), <1>1, <2>2, Counts, RingAssumption DEF Offset
    <3>2. Forward(m_Tail, i) = Forward(m_Head, Used + i)
      BY <3>1, Counts, ForwardFromTail
    <3>3. mem'[Forward(m_Tail, i)] = mem[Forward(m_Tail, i)]
      BY <3>1, <3>2, <1>4
    <3> QED BY <3>3, <2>2, Counts, Bytes
  <2> QED BY <2>1, <2>2, Counts
<1>10. CancellableBytesIntact'
  <2> SUFFICES ASSUME rlen = 0, NEW k \in 1..Len(out), accepted + wlen - consumed + k < Size
               PROVE  mem'[Backward(m_Head, k)] = consumed - k + 1
    BY DEF CancellableBytesIntact, WriteByte
  <2>1. Used + wlen + k < Size
    BY ONLY <1>0, accepted + wlen - consumed + k < Size, k \in 1..Len(out)
  <2>2. wdone < wlen
    BY DEF WriteByte
  <2>3. Size - k \in Offset /\ Size - k # Used + wdone /\ k \in 1..Size
    BY ONLY <1>0, <2>1, <2>2, k \in 1..Len(out) DEF Offset
  <2>4. Backward(m_Head, k) = Forward(m_Head, Size - k)
    BY <2>3, Counts, BackwardIsForward
  <2>5. mem'[Backward(m_Head, k)] = mem[Backward(m_Head, k)]
    BY <2>3, <2>4, <1>4
  <2> QED BY <2>1, <2>5, Bytes
<1> QED BY <1>6, <1>7, <1>8, <1>9, <1>10 DEF Held, RingSafety

\* Publishing the tail turns the written bytes into unread bytes.
LEMMA HeldWriteEnd ==
  ASSUME Shape, Held, WriteEnd
  PROVE  Held'
<1>0. /\ Size \in Nat /\ Used \in Nat /\ wlen \in Nat /\ wdone \in Nat /\ rlen \in Nat
      /\ Len(out) \in 0..Size /\ accepted \in Nat /\ consumed \in Int
      /\ Used = accepted - consumed /\ Used < Size
  BY Counts, RingAssumption
<1>1. m_Tail \in Offset /\ wlen \in 1..Size /\ wlen = wdone /\ wlen' = 0 /\ wdone' = 0
  BY Counts, RingAssumption DEF WriteEnd, Shape, Offset, Pointer
<1>2. Used' = Used + wlen
  <2>1. wlen <= Size - 1 - Distance(m_Head, m_Tail) /\ TailTwoStores \in BOOLEAN
    BY Counts, RingAssumption
  <2>2. Distance(m_Head, Advance(m_Tail, wlen, TailTwoStores)) = Distance(m_Head, m_Tail) + wlen
    BY <1>1, <2>1, Counts, TailMoves
  <2> QED BY <2>2, Counts DEF WriteEnd, Used, Distance
<1>3. SnapshotsHold'
  BY <1>1, <1>2, Counts, RingAssumption DEF SnapshotsHold, WriteEnd
<1>4. UnreadBytesIntact'
  <2>1. ASSUME NEW i \in 0..(Used + wlen - 1)
        PROVE  mem[Forward(m_Head, i)] = consumed + i + 1
    <3>1. CASE i < Used
      BY <3>1, Counts, Bytes
    <3>2. CASE i >= Used
      <4>1. PICK j \in 0..(wdone - 1) : i = Used + j
        <5>1. i - Used \in 0..(wdone - 1) /\ i = Used + (i - Used)
          BY ONLY <1>0, <1>1, <3>2, i \in 0..(Used + wlen - 1)
        <5> QED BY <5>1
      <4>2. Used + j < Size /\ j < Size
        BY <1>1, <4>1, Counts, RingAssumption
      <4>3. j \in Offset /\ Distance(m_Head, m_Tail) + j < Size
        BY <4>1, <4>2, Counts, RingAssumption DEF Offset
      <4>4. Forward(m_Tail, j) = Forward(m_Head, i)
        BY <4>1, <4>3, Counts, ForwardFromTail
      <4>5. mem[Forward(m_Tail, j)] = accepted + j + 1
        BY <4>1, Bytes
      <4> QED BY <4>1, <4>4, <4>5, Counts
    <3> QED BY <3>1, <3>2, Counts
  <2>2. Used' = accepted' - consumed'
    BY <1>1, <1>2, Counts DEF WriteEnd
  <2>3. mem' = mem /\ m_Head' = m_Head /\ consumed' = consumed
    BY DEF WriteEnd
  <2>4. ASSUME NEW i \in 0..(Used' - 1)
        PROVE  mem'[Forward(m_Head', i)] = consumed' + i + 1
    <3>1. i \in 0..(Used + wlen - 1)
      BY <1>2, Counts
    <3> QED BY <3>1, <2>1, <2>3
  <2> QED BY <2>2, <2>4 DEF UnreadBytesIntact
<1>5. ReadsInOrder'
  BY DEF Held, RingSafety, ReadsInOrder, WriteEnd
<1>6. PartialWriteInPlace'
  BY <1>1 DEF PartialWriteInPlace
<1>7. CancellableBytesIntact'
  <2> SUFFICES ASSUME rlen = 0, NEW k \in 1..Len(out), accepted' + wlen' - consumed + k < Size
               PROVE  mem[Backward(m_Head, k)] = consumed - k + 1
    BY DEF CancellableBytesIntact, WriteEnd
  <2>1. Used + wlen + k < Size
    BY <1>1, Counts, RingAssumption DEF WriteEnd
  <2> QED BY <2>1, Bytes
<1> QED BY <1>3, <1>4, <1>5, <1>6, <1>7 DEF Held, RingSafety

\* The second store of the tail moves no byte.
LEMMA HeldWriteWrap ==
  ASSUME Shape, Held, WriteWrap
  PROVE  Held'
<1>1. Used' = Used /\ wlen = 0 /\ wdone = 0
  <2>1. Forward(m_Tail, 0) = Forward(m_Tail', 0)
    BY RingAssumption DEF WriteWrap, Forward
  <2>2. Used' = Used
    BY <2>1 DEF WriteWrap, Used
  <2>3. wlen = 0
    BY Counts, RingAssumption DEF WriteWrap, Shape
  <2> QED BY <2>2, <2>3, Counts
<1>2. SnapshotsHold' /\ UnreadBytesIntact' /\ ReadsInOrder' /\ CancellableBytesIntact'
  BY <1>1 DEF Held, RingSafety, SnapshotsHold, UnreadBytesIntact, ReadsInOrder,
              CancellableBytesIntact, WriteWrap
<1>3. PartialWriteInPlace'
  BY <1>1 DEF PartialWriteInPlace, WriteWrap
<1> QED BY <1>2, <1>3 DEF Held, RingSafety

\* The bytes a Read counts on are there, if its snapshot is not the stale one.
LEMMA HeldReadBegin ==
  ASSUME Shape, Held, ReadBegin, ~raced'
  PROVE  Held'
<1>1. Used' = Used
  BY DEF ReadBegin, Used
<1>2. GetAvailableData(m_Head, m_Tail) = Used
  <2>1. ~(m_Tail = Size /\ m_Head = 0)
    BY DEF ReadBegin
  <2> QED BY <2>1, Counts, SnapshotIsExact
<1>3. rlen' <= Used
  BY <1>2, Counts, RingAssumption DEF ReadBegin, Least
<1>4. out' = <<>> /\ Len(out') = 0
  BY DEF ReadBegin
<1>5. SnapshotsHold'
  BY <1>1, <1>3, Counts DEF SnapshotsHold, ReadBegin
<1>6. UnreadBytesIntact' /\ PartialWriteInPlace'
  BY <1>1 DEF Held, RingSafety, UnreadBytesIntact, PartialWriteInPlace, ReadBegin
<1>7. ReadsInOrder' /\ CancellableBytesIntact'
  BY <1>4 DEF ReadsInOrder, CancellableBytesIntact
<1> QED BY <1>5, <1>6, <1>7 DEF Held, RingSafety

\* The byte copied out is the next one.
LEMMA HeldReadByte ==
  ASSUME Shape, Held, ReadByte
  PROVE  Held'
<1>1. Used' = Used /\ rlen' = rlen /\ rlen # 0 /\ Len(out) \in 0..(Used - 1)
  BY Counts DEF ReadByte, Used
<1>2. mem[Forward(m_Head, Len(out))] = consumed + Len(out) + 1
  BY <1>1, Bytes
<1>3. out \in Seq(Nat) /\ out' = Append(out, consumed + Len(out) + 1)
  BY <1>2 DEF ReadByte, Shape, TypeOK
<1>4. \A i \in 1..Len(out) : out[i] = consumed + i
  BY <1>1 DEF Held, RingSafety, ReadsInOrder
<1>5. \A i \in 1..Len(out') : out'[i] = consumed + i
  <2>1. Len(out') = Len(out) + 1 /\ consumed + Len(out) + 1 = consumed + (Len(out) + 1)
    BY <1>3, Counts
  <2>2. ASSUME NEW i \in 1..(Len(out) + 1)
        PROVE  out'[i] = IF i <= Len(out) THEN out[i] ELSE consumed + Len(out) + 1
    BY <1>3, <2>2
  <2>3. ASSUME NEW i \in 1..(Len(out) + 1)
        PROVE  out'[i] = consumed + i
    <3>1. CASE i \in 1..Len(out)
      BY <1>4, <2>2, <3>1, Counts
    <3>2. CASE i = Len(out) + 1
      BY <2>1, <2>2, <3>2, Counts
    <3> QED BY <3>1, <3>2, Counts
  <2> QED BY <2>1, <2>3
<1>6. ReadsInOrder'
  BY <1>1, <1>5 DEF ReadsInOrder, ReadByte
<1>7. SnapshotsHold' /\ UnreadBytesIntact' /\ PartialWriteInPlace'
  BY <1>1 DEF Held, RingSafety, SnapshotsHold, UnreadBytesIntact, PartialWriteInPlace, ReadByte
<1>8. CancellableBytesIntact'
  BY <1>1 DEF CancellableBytesIntact
<1> QED BY <1>6, <1>7, <1>8 DEF Held, RingSafety

\* Publishing the head leaves the other unread bytes unread and makes the bytes
\* read cancellable.
LEMMA HeldReadEnd ==
  ASSUME Shape, Held, ReadEnd
  PROVE  Held'
<1>0. /\ Size \in Nat /\ Used \in Nat /\ wlen \in Nat /\ wdone \in Nat /\ rlen \in Nat
      /\ Len(out) \in 0..Size /\ accepted \in Nat /\ consumed \in Int
      /\ Used = accepted - consumed /\ Used < Size
  BY Counts, RingAssumption
<1>1. /\ m_Head \in Offset /\ rlen \in 1..Size /\ rlen <= Used /\ rlen = Len(out)
      /\ HeadTwoStores \in BOOLEAN /\ rlen' = 0 /\ out' = out /\ consumed' = consumed + rlen
  BY Counts, RingAssumption DEF ReadEnd, Shape, Offset, Pointer
<1>2. Used' = Used - rlen
  <2>1. Distance(Advance(m_Head, rlen, HeadTwoStores), m_Tail) = Distance(m_Head, m_Tail) - rlen
    BY <1>1, Counts, HeadMoves
  <2> QED BY <2>1, Counts DEF ReadEnd, Used, Distance
<1>3. SnapshotsHold'
  BY <1>1, <1>2, Counts, RingAssumption DEF SnapshotsHold, ReadEnd
<1>4. UnreadBytesIntact'
  <2>1. Used' = accepted' - consumed'
    BY <1>1, <1>2, Counts DEF ReadEnd
  <2>2. ASSUME NEW i \in 0..(Used' - 1)
        PROVE  mem'[Forward(m_Head', i)] = consumed' + i + 1
    <3>0. i \in 0..(Used - rlen - 1)
      BY <1>2, Counts
    <3>1. i \in Offset /\ rlen + i <= Size /\ rlen + i \in 0..(Used - 1)
      BY ONLY <1>0, <1>1, <3>0 DEF Offset
    <3>2. Forward(m_Head', i) = Forward(m_Head, rlen + i)
      BY <1>1, <3>1, ForwardFromAdvanced DEF ReadEnd
    <3>3. mem[Forward(m_Head, rlen + i)] = consumed + (rlen + i) + 1
      BY <3>1, Bytes
    <3> QED BY <1>1, <3>1, <3>2, <3>3, Counts DEF ReadEnd
  <2> QED BY <2>1, <2>2 DEF UnreadBytesIntact
<1>5. ReadsInOrder'
  <2>1. \A i \in 1..Len(out) : out[i] = consumed + i
    BY <1>1 DEF Held, RingSafety, ReadsInOrder
  <2>2. consumed' - Len(out') = consumed
    BY <1>1, Counts
  <2> QED BY <1>1, <2>1, <2>2 DEF ReadsInOrder
<1>6. PartialWriteInPlace'
  BY DEF Held, PartialWriteInPlace, ReadEnd
<1>7. CancellableBytesIntact'
  <2> SUFFICES ASSUME NEW k \in 1..Len(out)
               PROVE  mem[Backward(m_Head', k)] = consumed' - k + 1
    BY <1>1 DEF CancellableBytesIntact, ReadEnd
  <2>1. k \in 1..rlen /\ rlen - k \in 0..(Used - 1)
    BY <1>1, Counts
  <2>2. Backward(m_Head', k) = Forward(m_Head, rlen - k)
    BY <1>1, <2>1, ForwardFromAdvanced DEF ReadEnd
  <2>3. mem[Forward(m_Head, rlen - k)] = consumed + (rlen - k) + 1
    BY <2>1, Bytes
  <2> QED BY <1>1, <2>1, <2>2, <2>3, Counts
<1> QED BY <1>3, <1>4, <1>5, <1>6, <1>7 DEF Held, RingSafety

\* The second store of the head moves no byte either.
LEMMA HeldReadWrap ==
  ASSUME Shape, Held, ReadWrap
  PROVE  Held'
<1>1. /\ Distance(0, m_Tail) = Distance(Size, m_Tail)
      /\ \A i \in Offset : Forward(0, i) = Forward(Size, i)
      /\ \A k \in 1..Size : Backward(0, k) = Backward(Size, k)
  <2>1. 0 \in Pointer /\ Size \in Pointer /\ m_Tail \in Pointer
    BY Counts, RingAssumption DEF Pointer
  <2>2. Distance(0, m_Tail) = Distance(Size, m_Tail)
    <3>1. /\ m_Tail < Size => Distance(0, m_Tail) = IF m_Tail >= 0 THEN m_Tail - 0 ELSE Size - 0 + m_Tail
          /\ m_Tail = Size => Distance(0, m_Tail) = 0
      BY <2>1, DistanceValue
    <3>2. /\ m_Tail < Size => Distance(Size, m_Tail) = IF m_Tail >= Size THEN m_Tail - Size ELSE Size - Size + m_Tail
          /\ m_Tail = Size => Distance(Size, m_Tail) = IF Size = 0 THEN 0 ELSE Size - Size
      BY <2>1, DistanceValue
    <3> QED BY <3>1, <3>2, <2>1, RingAssumption DEF Pointer
  <2> QED BY <2>2, RingAssumption DEF Forward, Backward, Offset
<1>2. m_Head = Size /\ m_Head' = 0 /\ rlen = 0
  BY Counts, RingAssumption DEF ReadWrap, Shape
<1>3. Used' = Used
  BY <1>1, <1>2, Counts DEF ReadWrap, Used, Distance
<1>4. SnapshotsHold' /\ ReadsInOrder' /\ PartialWriteInPlace'
  BY <1>3 DEF Held, RingSafety, SnapshotsHold, ReadsInOrder, PartialWriteInPlace, ReadWrap
<1>5. UnreadBytesIntact'
  <2>1. ASSUME NEW i \in 0..(Used - 1)
        PROVE  mem[Forward(0, i)] = consumed + i + 1
    <3>1. i \in Offset
      BY Counts, RingAssumption DEF Offset
    <3> QED BY <1>1, <1>2, <3>1, Bytes
  <2> QED BY <1>2, <1>3, <2>1, Counts DEF UnreadBytesIntact, ReadWrap
<1>6. CancellableBytesIntact'
  <2> SUFFICES ASSUME NEW k \in 1..Len(out), accepted + wlen - consumed + k < Size
               PROVE  mem[Backward(0, k)] = consumed - k + 1
    BY <1>2 DEF CancellableBytesIntact, ReadWrap
  <2>1. Used + wlen + k < Size /\ k \in 1..Size
    BY Counts, RingAssumption
  <2> QED BY <1>1, <1>2, <2>1, Bytes
<1> QED BY <1>4, <1>5, <1>6 DEF Held, RingSafety

\* A cancel without overrun makes bytes unread again that are still in place.
LEMMA HeldCancelReadBytes ==
  ASSUME Shape, Held, NEW n \in 1..ReadSize, CancelReadBytes(n), ~raced'
  PROVE  Held'
<1>1. /\ rlen = 0 /\ rlen' = 0 /\ n \in 1..Len(out) /\ Used + wlen + n < Size
      /\ n \in 1..(Size - 1) /\ m_Head \in Offset /\ consumed' = consumed - n
      /\ n <= Size - 1 - Used
  <2>1. ~(accepted + wlen - consumed + n >= Size)
    BY DEF CancelReadBytes
  <2>2. rlen = 0 /\ rlen' = rlen /\ n <= Len(out) /\ m_Head < Size /\ consumed' = consumed - n
    BY DEF CancelReadBytes
  <2>3. Used + wlen + n < Size
    BY <2>1, Counts, RingAssumption
  <2>4. m_Head \in Offset
    BY <2>2, Counts, RingAssumption DEF Offset, Pointer
  <2> QED BY <2>2, <2>3, <2>4, Counts, RingAssumption
<1>0. /\ Size \in Nat /\ Used \in Nat /\ wlen \in Nat /\ Len(out) \in 0..Size
      /\ accepted \in Nat /\ consumed \in Int /\ Used = accepted - consumed /\ n \in 1..Len(out)
  BY <1>1, Counts, RingAssumption
<1>2. Used' = Used + n
  <2>1. n \in 1..Size /\ n <= Size - 1 - Distance(m_Head, m_Tail)
    BY <1>1, Counts, RingAssumption
  <2>2. Distance(Backward(m_Head, n), m_Tail) = Distance(m_Head, m_Tail) + n
    BY <1>1, <2>1, Counts, HeadMovesBack
  <2> QED BY <2>2, Counts DEF CancelReadBytes, Used, Distance
<1>3. out' \in Seq(Nat) /\ Len(out') = Len(out) - n /\ \A i \in 1..Len(out') : out'[i] = out[i]
  <2>1. out \in Seq(Nat)
    BY DEF Shape, TypeOK
  <2>2. out' = SubSeq(out, 1, Len(out) - n) /\ Len(out) - n \in 0..Len(out)
    BY <1>1, Counts DEF CancelReadBytes
  <2> QED BY <2>1, <2>2
<1>4. SnapshotsHold'
  <2>1. wlen' = wlen
    BY DEF CancelReadBytes
  <2>2. wlen <= Size - 1 - (Used + n) /\ 0 <= Used + n
    BY ONLY <1>0, <1>1
  <2> QED BY <1>1, <1>2, <2>1, <2>2 DEF SnapshotsHold
<1>5. UnreadBytesIntact'
  <2>1. Used' = accepted' - consumed'
    BY <1>1, <1>2, Counts DEF CancelReadBytes
  <2>2. ASSUME NEW i \in 0..(Used' - 1)
        PROVE  mem'[Forward(m_Head', i)] = consumed' + i + 1
    <3>0. i \in 0..(Used + n - 1)
      BY <1>2, Counts
    <3>1. CASE i < n
      <4>1. i \in 0..(n - 1) /\ n - i \in 1..Len(out) /\ Used + wlen + (n - i) < Size
        <5>1. i \in 0..(n - 1) /\ n - i \in 1..n
          BY <1>1, <3>0, <3>1
        <5>2. Used + wlen + (n - i) < Size /\ n - i \in 1..Len(out)
          BY ONLY <1>0, <1>1, <5>1
        <5> QED BY <5>1, <5>2
      <4>2. Forward(m_Head', i) = Backward(m_Head, n - i)
        BY <1>1, <4>1, ForwardFromBackward DEF CancelReadBytes
      <4>3. mem[Backward(m_Head, n - i)] = consumed - (n - i) + 1
        BY <1>1, <4>1, Bytes
      <4> QED BY <1>1, <4>1, <4>2, <4>3, Counts DEF CancelReadBytes
    <3>2. CASE i >= n
      <4>1. i \in n..(Size - 1) /\ i - n \in 0..(Used - 1)
        <5>1. i - n \in 0..(Used - 1)
          BY ONLY <1>0, <3>0, <3>2
        <5>2. i \in n..(Size - 1)
          BY ONLY <1>0, <1>1, <3>0, <3>2
        <5> QED BY <5>1, <5>2
      <4>2. Forward(m_Head', i) = Forward(m_Head, i - n)
        BY <1>1, <4>1, ForwardFromBackward DEF CancelReadBytes
      <4>3. mem[Forward(m_Head, i - n)] = consumed + (i - n) + 1
        BY <4>1, Bytes
      <4> QED BY <1>1, <4>1, <4>2, <4>3, Counts DEF CancelReadBytes
    <3> QED BY <3>0, <3>1, <3>2
  <2> QED BY <2>1, <2>2 DEF UnreadBytesIntact
<1>6. ReadsInOrder'
  <2>1. \A i \in 1..Len(out) : out[i] = consumed - Len(out) + i
    BY <1>1 DEF Held, RingSafety, ReadsInOrder
  <2>2. consumed' - Len(out') = consumed - Len(out)
    BY <1>1, <1>3, Counts
  <2>3. \A i \in 1..Len(out') : out'[i] = consumed - Len(out) + i
    BY <1>1, <1>3, <2>1, Counts
  <2> QED BY <1>1, <2>2, <2>3 DEF ReadsInOrder
<1>7. PartialWriteInPlace'
  BY DEF Held, PartialWriteInPlace, CancelReadBytes
<1>8. CancellableBytesIntact'
  <2> SUFFICES ASSUME NEW k \in 1..Len(out'), accepted + wlen - consumed' + k < Size
               PROVE  mem[Backward(m_Head', k)] = consumed' - k + 1
    BY <1>1 DEF CancellableBytesIntact, CancelReadBytes
  <2>1. /\ k \in 1..Size /\ n + k \in 1..Len(out) /\ Used + wlen + (n + k) < Size /\ n + k <= Size
    <3>1. k \in 1..(Len(out) - n)
      BY <1>3
    <3>2. accepted + wlen - (consumed - n) + k < Size
      BY <1>1
    <3>3. n + k \in 1..Len(out)
      BY <1>1, <3>1, Counts
    <3>4. Used + wlen + (n + k) < Size
      BY ONLY <1>0, <3>1, <3>2
    <3>5. k \in 1..Size /\ n + k <= Size
      BY ONLY <1>0, <3>1, <3>3
    <3> QED BY <3>3, <3>4, <3>5
  <2>2. Backward(m_Head', k) = Backward(m_Head, n + k)
    BY <1>1, <2>1, ForwardFromBackward DEF CancelReadBytes
  <2>3. mem[Backward(m_Head, n + k)] = consumed - (n + k) + 1
    BY <1>1, <2>1, Bytes
  <2> QED BY <1>1, <2>1, <2>2, <2>3, Counts
<1> QED BY <1>4, <1>5, <1>6, <1>7, <1>8 DEF Held, RingSafety

-----------------------------------------------------------------------------
(* The theorems. *)

\* An empty ring holds no byte that could be wrong.
LEMMA HeldInit == Init => Held
<1> SUFFICES ASSUME Init PROVE Held
  OBVIOUS
<1>1. Forward(0, 0) = 0 /\ GetAvailableData(0, 0) = 0
  BY RingAssumption DEF Forward, GetAvailableData, GetAvailableSpace
<1>2. Used = 0 /\ Len(out) = 0 /\ rlen = 0 /\ wlen = 0 /\ wdone = 0 /\ accepted = 0 /\ consumed = 0
  BY <1>1 DEF Init, Used
<1> QED BY <1>2, RingAssumption
        DEF Held, RingSafety, SnapshotsHold, UnreadBytesIntact, ReadsInOrder,
            PartialWriteInPlace, CancellableBytesIntact

\* A race is never forgotten.
LEMMA RacedForGood == ASSUME [CancelNext]_vars, raced PROVE raced'
<1>1. CASE ReadBegin
  BY <1>1 DEF ReadBegin
<1>2. ASSUME NEW n \in 1..ReadSize, CancelReadBytes(n) PROVE raced'
  BY <1>2 DEF CancelReadBytes
<1> QED BY <1>1, <1>2
        DEF CancelNext, Next, Producer, Consumer, vars, WriteBegin, WriteByte, WriteEnd,
            WriteWrap, ReadByte, ReadEnd, ReadWrap

\* A step that is not a race keeps the bytes right.
LEMMA HeldStep ==
  ASSUME Shape, Held, [CancelNext]_vars, ~raced'
  PROVE  Held'
<1>1. CASE UNCHANGED vars
  <2>1. Used' = Used
    BY <1>1 DEF vars, Used
  <2> QED BY <1>1, <2>1
          DEF vars, Held, RingSafety, SnapshotsHold, UnreadBytesIntact, ReadsInOrder,
              PartialWriteInPlace, CancellableBytesIntact
<1>2. CASE \E n \in 1..MaxWrite : WriteBegin(n)
  BY <1>2, HeldWriteBegin
<1>3. CASE \E n \in 1..ReadSize : CancelReadBytes(n)
  BY <1>3, HeldCancelReadBytes
<1> QED BY <1>1, <1>2, <1>3, HeldWriteByte, HeldWriteEnd, HeldWriteWrap, HeldReadBegin,
           HeldReadByte, HeldReadEnd, HeldReadWrap
        DEF CancelNext, Next, Producer, Consumer

\* IInv is inductive, CancelReadBytes included.
LEMMA IInvStep == IInv /\ [CancelNext]_vars => IInv'
<1> SUFFICES ASSUME IInv, [CancelNext]_vars PROVE IInv'
  OBVIOUS
<1>1. Shape /\ Shape' /\ (~raced => Held)
  BY IInvIsShapeAndHeld, ShapeStep
<1>2. ~raced' => Held'
  BY <1>1, RacedForGood, HeldStep
<1>3. IInv' <=> Shape' /\ (~raced' => Held')
  BY DEF IInv, Shape, Held
<1> QED BY <1>1, <1>2, <1>3

\* IInv holds of the ring Initialize makes.
LEMMA IInvInit == Init => IInv
BY ShapeInit, HeldInit, IInvIsShapeAndHeld

\* In every build and with CancelReadBytes: the snapshots hold, the unread bytes
\* are those written and not read, and reads are in order, until a race.
THEOREM CancelSafeUnlessRaced == CancelSpec => []SafeUnlessRaced
<1>1. IInv => SafeUnlessRaced
  BY DEF IInv, SafeUnlessRaced
<1> QED BY <1>1, IInvInit, IInvStep, PTL DEF CancelSpec

\* The inductive invariant holds in every state, raced or not.
THEOREM CancelInductive == CancelSpec => []IInv
BY IInvInit, IInvStep, PTL DEF CancelSpec

-----------------------------------------------------------------------------
(* Without CancelReadBytes, and in a build that publishes the tail in one    *)
(* store, there is no race: one writer and one reader need no lock.          *)

Quiet == IInv /\ ~raced

\* An empty ring is quiet.
LEMMA QuietInit == Init => Quiet
BY IInvInit DEF Init, Quiet

\* Neither of the two threads can make a quiet ring race.
LEMMA QuietStep == ASSUME ~TailTwoStores PROVE Quiet /\ [Next]_vars => Quiet'
<1> SUFFICES ASSUME Quiet, [Next]_vars PROVE Quiet'
  OBVIOUS
<1>1. IInv'
  BY IInvStep DEF CancelNext, Quiet
<1>2. m_Tail # Size
  BY RingAssumption DEF Quiet, IInv, TypeOK, Pointer
<1>3. ~raced'
  BY <1>2 DEF Quiet, Next, Producer, Consumer, vars, WriteBegin, WriteByte, WriteEnd, WriteWrap,
              ReadBegin, ReadByte, ReadEnd, ReadWrap
<1> QED BY <1>1, <1>3 DEF Quiet

\* A ring of which no read is ever cancelled, m_TcpToComBuf, is safe in every
\* reachable state.
THEOREM SafeWithoutCancel == ASSUME ~TailTwoStores PROVE Spec => []RingSafety
<1>1. Quiet => RingSafety
  BY DEF Quiet, IInv
<1> QED BY <1>1, QuietInit, QuietStep, PTL DEF Spec

\* What a Write or a Read of m_TcpToComBuf saw of the pointers stays good until
\* it publishes its own.
THEOREM SnapshotsHoldWithoutCancel == ASSUME ~TailTwoStores PROVE Spec => []SnapshotsHold
<1>1. RingSafety => SnapshotsHold
  BY DEF RingSafety
<1> QED BY <1>1, SafeWithoutCancel, PTL

\* No Write of m_TcpToComBuf touches a byte that is not read yet, and none is
\* missing.
THEOREM UnreadBytesIntactWithoutCancel ==
  ASSUME ~TailTwoStores PROVE Spec => []UnreadBytesIntact
<1>1. RingSafety => UnreadBytesIntact
  BY DEF RingSafety
<1> QED BY <1>1, SafeWithoutCancel, PTL

\* The reads of m_TcpToComBuf return the bytes in the order of the writes.
THEOREM ReadsInOrderWithoutCancel == ASSUME ~TailTwoStores PROVE Spec => []ReadsInOrder
<1>1. RingSafety => ReadsInOrder
  BY DEF RingSafety
<1> QED BY <1>1, SafeWithoutCancel, PTL

-----------------------------------------------------------------------------
(* Refinement.  Until a race every state of the ring stands for a FIFO whose *)
(* queue and write under way are runs of successive numbers.                 *)

Run(c, n) == [i \in 1..n |-> c + i]

\* A run is a sequence, and is empty only if it has no length.
LEMMA RunIsSequence ==
  ASSUME NEW c \in Int, NEW n \in Nat
  PROVE  /\ Run(c, n) \in Seq(Int) /\ Len(Run(c, n)) = n
         /\ \A i \in 1..n : Run(c, n)[i] = c + i
         /\ n = 0 => Run(c, n) = <<>>
         /\ n > 0 => Run(c, n) # <<>>
BY DEF Run

\* A sequence of successive numbers is a run.
LEMMA SequenceIsRun ==
  ASSUME NEW c \in Int, NEW s \in Seq(Int), \A i \in 1..Len(s) : s[i] = c + i
  PROVE  s = Run(c, Len(s))
BY DEF Run

\* A run continued is a longer run.
LEMMA RunConcat ==
  ASSUME NEW c \in Int, NEW m \in Nat, NEW n \in Nat
  PROVE  Run(c, m) \o Run(c + m, n) = Run(c, m + n)
<1> DEFINE a == Run(c, m)
           b == Run(c + m, n)
           s == a \o b
<1>1. /\ a \in Seq(Int) /\ Len(a) = m /\ \A i \in 1..m : a[i] = c + i
      /\ b \in Seq(Int) /\ Len(b) = n /\ \A i \in 1..n : b[i] = c + m + i
  BY RunIsSequence
<1> HIDE DEF a, b
<1>2. /\ s \in Seq(Int) /\ Len(s) = m + n
      /\ \A i \in 1..m : s[i] = a[i]
      /\ \A i \in 1..n : s[m + i] = b[i]
  BY <1>1
<1> HIDE DEF s
<1>3. ASSUME NEW i \in 1..(m + n) PROVE s[i] = c + i
  <2>1. CASE i <= m
    BY <1>1, <1>2, <2>1
  <2>2. CASE i > m
    <3>1. i - m \in 1..n /\ m + (i - m) = i
      BY <2>2
    <3>2. s[m + (i - m)] = b[i - m] /\ b[i - m] = c + m + (i - m)
      BY ONLY <1>1, <1>2, <3>1
    <3> QED BY <3>1, <3>2
  <2> QED BY <2>1, <2>2
<1>4. s = Run(c, m + n)
  BY <1>2, <1>3, SequenceIsRun
<1> QED BY <1>4 DEF s, a, b

\* A part of a run is a run.
LEMMA RunPart ==
  ASSUME NEW c \in Int, NEW m \in Nat, NEW a \in 1..(m + 1), NEW b \in (a - 1)..m,
         NEW d \in Int, NEW n \in Nat, d = c + a - 1, n = b - a + 1
  PROVE  SubSeq(Run(c, m), a, b) = Run(d, n)
<1> DEFINE r == Run(c, m)
           s == SubSeq(r, a, b)
<1>1. r \in Seq(Int) /\ Len(r) = m /\ \A i \in 1..m : r[i] = c + i
  BY RunIsSequence
<1> HIDE DEF r
<1>2. /\ s \in Seq(Int) /\ Len(s) = n
      /\ \A i \in 1..n : s[i] = r[a + i - 1]
  <2>1. \A i \in a..b : i \in 1..Len(r)
    BY <1>1
  <2> QED BY <1>1, <2>1
<1> HIDE DEF s
<1>3. ASSUME NEW i \in 1..n PROVE s[i] = d + i
  <2>1. a + i - 1 \in 1..m
    OBVIOUS
  <2> QED BY <1>1, <1>2, <2>1
<1>4. s = Run(d, n)
  BY <1>2, <1>3, SequenceIsRun
<1> QED BY <1>4 DEF s, r

\* What is left of a run once its first k numbers are gone is a run.
LEMMA RunTail ==
  ASSUME NEW c \in Int, NEW m \in Nat, NEW k \in 0..m
  PROVE  SubSeq(Run(c, m), k + 1, m) = Run(c + k, m - k)
<1> DEFINE a == k + 1
           d == c + k
           n == m - k
<1>1. /\ c \in Int /\ m \in Nat /\ a \in 1..(m + 1) /\ m \in (a - 1)..m
      /\ d \in Int /\ n \in Nat /\ d = c + a - 1 /\ n = m - a + 1
  OBVIOUS
<1>2. a = k + 1 /\ d = c + k /\ n = m - k
  OBVIOUS
<1> HIDE DEF a, d, n
<1>3. SubSeq(Run(c, m), a, m) = Run(d, n)
  BY ONLY <1>1, RunPart, ZenonT(90)
<1> QED BY <1>2, <1>3, ZenonT(30)

\* The queue the ring stands for.
LEMMA QueueIsRun ==
  ASSUME Shape, Held
  PROVE  Unread = Run(consumed, accepted - consumed)
<1>1. Used \in Nat /\ Used = accepted - consumed /\ consumed \in Int
  BY Counts
<1>2. ASSUME NEW i \in 1..Used PROVE mem[Forward(m_Head, i - 1)] = consumed + i
  <2>1. i - 1 \in 0..(Used - 1) /\ consumed + (i - 1) + 1 = consumed + i
    BY <1>1
  <2> QED BY <2>1 DEF Held, RingSafety, UnreadBytesIntact
<1> QED BY <1>1, <1>2 DEF Unread, Run

\* The bytes that the last read returned and the reader kept.
LEMMA KeptIsRun ==
  ASSUME Shape, Held
  PROVE  out = Run(IF rlen = 0 THEN consumed - Len(out) ELSE consumed, Len(out))
<1> DEFINE c == IF rlen = 0 THEN consumed - Len(out) ELSE consumed
<1>1. c \in Int /\ out \in Seq(Int)
  BY Counts DEF Shape, TypeOK
<1>2. \A i \in 1..Len(out) : out[i] = c + i
  BY DEF Held, RingSafety, ReadsInOrder
<1> HIDE DEF c
<1>3. out = Run(c, Len(out))
  BY <1>1, <1>2, SequenceIsRun
<1> QED BY <1>3 DEF c

\* How the ring appears as a FIFO, before and after a step.
LEMMA RingAppears ==
  ASSUME Shape, Held, Shape', Held'
  PROVE  /\ Unread = Run(consumed, Used) /\ Unread' = Run(consumed', Used')
         /\ Used = accepted - consumed /\ Used' = accepted' - consumed'
         /\ Used \in Nat /\ Used' \in Nat
         /\ accepted \in Nat /\ accepted' \in Nat /\ consumed \in Int /\ consumed' \in Int
         /\ wlen \in Nat /\ wlen' \in Nat /\ rlen \in Nat /\ rlen' \in Nat
<1>1. Unread = Run(consumed, Used) /\ Used = accepted - consumed
  BY QueueIsRun, Counts
<1>2. Used' = accepted' - consumed'
  BY DEF Held, RingSafety, UnreadBytesIntact
<1>3. /\ accepted' \in Nat /\ consumed' \in Int /\ wlen' \in 0..(Size - 1)
      /\ rlen' \in 0..Size /\ m_Head' \in Pointer /\ m_Tail' \in Pointer
  BY DEF Shape, TypeOK
<1>4. Used' \in 0..(Size - 1)
  BY <1>3, DistanceValue DEF Used, Distance
<1>5. ASSUME NEW u, u = Used', NEW i \in 1..u PROVE mem'[Forward(m_Head', i - 1)] = consumed' + i
  <2>1. u \in Nat /\ consumed' \in Int
    BY <1>3, <1>4, <1>5, RingAssumption
  <2>2. i - 1 \in 0..(u - 1) 
    BY <2>1
  <2>3. consumed' + (i - 1) + 1 = consumed' + i
    BY <2>1
  <2>4. \A j \in 0..(u - 1) : mem'[Forward(m_Head', j)] = consumed' + j + 1
    BY <1>5 DEF Held, RingSafety, UnreadBytesIntact
  <2> QED BY <2>2, <2>3, <2>4
<1>6. Unread' = Run(consumed', Used')
  BY <1>5 DEF Unread, Run
<1>7. Used' \in Nat /\ wlen' \in Nat /\ rlen' \in Nat
  BY <1>3, <1>4, RingAssumption
<1>8. Used \in Nat /\ accepted \in Nat /\ consumed \in Int /\ wlen \in Nat /\ rlen \in Nat
  BY Counts, RingAssumption
<1> QED BY <1>1, <1>2, <1>3, <1>6, <1>7, <1>8

\* The first snapshot of a Write is an offer to the FIFO.
LEMMA WriteBeginOffers ==
  ASSUME Shape, Held, Shape', Held', NEW n \in 1..MaxWrite, WriteBegin(n)
  PROVE  Fifo!Offer(n)
<1> USE RingAppears
<1>1. /\ wlen = 0 /\ m_Tail < Size /\ m_Tail' = m_Tail /\ m_Head' = m_Head
      /\ accepted' = accepted /\ consumed' = consumed /\ rlen' = rlen /\ out' = out
      /\ wlen' = Least(n, GetAvailableSpace(m_Head, m_Tail))
  BY DEF WriteBegin
<1>2. GetAvailableSpace(m_Head, m_Tail) = Size - 1 - Used
  <2>1. ~(m_Tail = Size /\ m_Head = 0) /\ m_Tail \in Pointer /\ m_Head \in Pointer
        /\ Used = Distance(m_Head, m_Tail)
    BY <1>1, Counts, RingAssumption DEF Pointer
  <2> QED BY ONLY <1>1, <2>1, SnapshotIsExact
<1>3. Unread' = Unread /\ Len(Unread) = Used
  BY <1>1, RunIsSequence
<1>4. wlen' = Fifo!Least(n, Size - 1 - Len(Unread))
  BY <1>1, <1>2, <1>3 DEF Least, Fifo!Least
<1>5. [i \in 1..wlen |-> accepted + i] = <<>>
  BY <1>1, RunIsSequence DEF Run
<1> QED BY <1>1, <1>3, <1>4, <1>5 DEF Fifo!Offer

\* Publishing the tail commits the write.
LEMMA WriteEndCommits ==
  ASSUME Shape, Held, Shape', Held', WriteEnd
  PROVE  Fifo!Commit
<1> USE RingAppears
<1>1. /\ wlen > 0 /\ wlen' = 0 /\ accepted' = accepted + wlen
      /\ consumed' = consumed /\ rlen' = rlen /\ out' = out
  BY DEF WriteEnd
<1>2. /\ Run(accepted, wlen) # <<>> /\ Len(Run(accepted, wlen)) = wlen
      /\ Run(accepted', wlen') = <<>>
  BY <1>1, RunIsSequence
<1>3. Unread' = Unread \o Run(accepted, wlen)
  <2>1. Run(consumed, Used) \o Run(consumed + Used, wlen) = Run(consumed, Used + wlen)
    BY RunConcat
  <2>2. Used' = Used + wlen /\ accepted = consumed + Used
    BY <1>1
  <2> QED BY <1>1, <2>1, <2>2
<1>4. /\ [i \in 1..wlen |-> accepted + i] = Run(accepted, wlen)
      /\ [i \in 1..wlen |-> accepted + i]' = Run(accepted', wlen')
  BY DEF Run
<1> QED BY <1>1, <1>2, <1>3, <1>4 DEF Fifo!Commit

\* The first snapshot of a Read takes from the FIFO, unless it sees m_Tail = m_End.
LEMMA ReadBeginTakes ==
  ASSUME Shape, Held, Shape', Held', ReadBegin, ~raced'
  PROVE  Fifo!Take
<1> USE RingAppears
<1>1. /\ rlen = 0 /\ accepted' = accepted /\ consumed' = consumed /\ wlen' = wlen
      /\ out' = <<>> /\ rlen' = Least(ReadSize, GetAvailableData(m_Head, m_Tail))
  BY DEF ReadBegin
<1>2. ~(m_Tail = Size /\ m_Head = 0)
  BY DEF ReadBegin
<1>3. GetAvailableData(m_Head, m_Tail) = Used
  BY <1>2, Counts, SnapshotIsExact
<1>4. Unread' = Unread /\ Len(Unread) = Used
  BY <1>1, RunIsSequence
<1>5. rlen' = Fifo!Least(ReadSize, Len(Unread))
  BY <1>1, <1>3, <1>4 DEF Least, Fifo!Least
<1> QED BY <1>1, <1>4, <1>5 DEF Fifo!Take

\* Publishing the head delivers what the Read has copied.
LEMMA ReadEndDelivers ==
  ASSUME Shape, Held, Shape', Held', ReadEnd
  PROVE  Fifo!Deliver
<1> USE RingAppears
<1>1. /\ rlen > 0 /\ rlen' = 0 /\ Len(out) = rlen /\ out' = out
      /\ accepted' = accepted /\ consumed' = consumed + rlen /\ wlen' = wlen
  BY DEF ReadEnd
<1>2. rlen <= Used /\ Len(Unread) = Used
  BY Counts, RunIsSequence
<1>3. out = Run(consumed, rlen)
  BY <1>1, KeptIsRun
<1>4. SubSeq(Unread, 1, rlen) = Run(consumed, rlen)
  <2>1. /\ 1 \in 1..(Used + 1) /\ rlen \in (1 - 1)..Used
        /\ consumed = consumed + 1 - 1 /\ rlen = rlen - 1 + 1
        /\ consumed \in Int /\ Used \in Nat /\ rlen \in Nat
    BY <1>2
  <2>2. SubSeq(Run(consumed, Used), 1, rlen) = Run(consumed, rlen)
    BY ONLY <2>1, RunPart
  <2> QED BY <2>2
<1>5. SubSeq(Unread, rlen + 1, Len(Unread)) = Unread'
  <2>1. rlen \in 0..Used /\ consumed \in Int /\ Used \in Nat
    BY SMTT(60), <1>1, <1>2
  <2>2. consumed' = consumed + rlen /\ Used' = Used - rlen
    BY SMTT(60), <1>1, <1>2
  <2>3. SubSeq(Run(consumed, Used), rlen + 1, Used) = Run(consumed + rlen, Used - rlen)
    BY <2>1, RunTail
  <2>4. Unread' = Run(consumed', Used')
    OBVIOUS
  <2> QED BY <1>2, <2>2, <2>3, <2>4
<1> QED BY <1>1, <1>3, <1>4, <1>5 DEF Fifo!Deliver

\* A cancel without a race puts bytes back.
LEMMA CancelPutsBack ==
  ASSUME Shape, Held, Shape', Held', NEW n \in 1..ReadSize, CancelReadBytes(n), ~raced'
  PROVE  Fifo!PutBack(n)
<1> USE RingAppears
<1>1. /\ rlen = 0 /\ rlen' = 0 /\ n <= Len(out) /\ out' = SubSeq(out, 1, Len(out) - n)
      /\ accepted' = accepted /\ consumed' = consumed - n /\ wlen' = wlen
      /\ accepted + wlen - consumed + n < Size
  <2>1. ~(accepted + wlen - consumed + n >= Size)
    BY DEF CancelReadBytes
  <2>2. n \in Int /\ Size \in Int
    BY RingAssumption
  <2> QED BY <2>1, <2>2 DEF CancelReadBytes
<1>2. Len(Unread) = Used /\ Len(Run(accepted, wlen)) = wlen /\ Size \in Nat /\ ReadSize \in Nat
  BY RunIsSequence, RingAssumption
<1>3. Len(Unread) + Len(Run(accepted, wlen)) + n <= Size - 1
  BY SMTT(60), <1>1, <1>2
<1>4. SubSeq(out, Len(out) - n + 1, Len(out)) = Run(consumed - n, n)
  <2> DEFINE l == Len(out)
  <2>1. l \in Nat
    BY Counts
  <2>2. out = Run(consumed - l, l)
    BY <1>1, KeptIsRun
  <2>3. l - n + 1 \in 1..(l + 1) /\ l \in ((l - n + 1) - 1)..l
    BY <1>1, <2>1
  <2> HIDE DEF l
  <2>4. /\ consumed - n = (consumed - l) + (l - n + 1) - 1 /\ n = l - (l - n + 1) + 1
        /\ consumed - l \in Int /\ consumed - n \in Int /\ n \in Nat
    BY <1>2, <2>1
  <2>5. SubSeq(Run(consumed - l, l), l - n + 1, l) = Run(consumed - n, n)
    BY ONLY <2>1, <2>3, <2>4, RunPart
  <2>6. SubSeq(out, l - n + 1, l) = Run(consumed - n, n)
    BY <2>2, <2>5
  <2> QED BY <2>6 DEF l
<1>5. Unread' = Run(consumed - n, n) \o Unread
  <2> DEFINE c == consumed - n
  <2>1. /\ c \in Int /\ n \in Nat /\ consumed = c + n /\ Used' = n + Used
    BY <1>1
  <2> HIDE DEF c
  <2>2. Run(c, n) \o Run(c + n, Used) = Run(c, n + Used)
    BY <2>1, RunConcat
  <2>3. Unread' = Run(c, n) \o Unread
    BY <1>1, <2>1, <2>2 DEF c
  <2> QED BY <2>3 DEF c
<1>6. /\ [i \in 1..wlen |-> accepted + i] = Run(accepted, wlen)
      /\ [i \in 1..wlen |-> accepted + i]' = Run(accepted, wlen)
  BY <1>1 DEF Run
<1> QED BY <1>1, <1>3, <1>4, <1>5, <1>6 DEF Fifo!PutBack

\* A step that neither begins nor ends a call is one the FIFO does not see.
LEMMA OtherStepsAreHidden ==
  ASSUME Shape, Held, Shape', Held',
         WriteByte \/ WriteWrap \/ ReadByte \/ ReadWrap \/ UNCHANGED vars
  PROVE  UNCHANGED Fifo!vars
<1> USE RingAppears
<1>1. /\ accepted' = accepted /\ consumed' = consumed /\ wlen' = wlen /\ rlen' = rlen
      /\ out' = out \/ rlen > 0
  BY DEF WriteByte, WriteWrap, ReadByte, ReadWrap, vars
<1>2. Unread' = Unread
  BY <1>1
<1> QED BY <1>1, <1>2 DEF Fifo!vars

\* Every step of the two threads is one of the FIFO or one it does not see.
LEMMA FifoStep ==
  ASSUME Shape, Held, Shape', Held', [Next]_vars, ~raced'
  PROVE  Fifo!Next \/ UNCHANGED Fifo!vars
<1>1. CASE \E n \in 1..MaxWrite : WriteBegin(n)
  BY <1>1, WriteBeginOffers DEF Fifo!Next
<1>2. CASE WriteEnd
  BY <1>2, WriteEndCommits DEF Fifo!Next
<1>3. CASE ReadBegin
  BY <1>3, ReadBeginTakes DEF Fifo!Next
<1>4. CASE ReadEnd
  BY <1>4, ReadEndDelivers DEF Fifo!Next
<1>5. CASE WriteByte \/ WriteWrap \/ ReadByte \/ ReadWrap \/ UNCHANGED vars
  BY <1>5, OtherStepsAreHidden
<1> QED BY <1>1, <1>2, <1>3, <1>4, <1>5 DEF Next, Producer, Consumer

\* An empty ring is an empty FIFO.
LEMMA FifoInit == Init => Fifo!Init
<1> SUFFICES ASSUME Init PROVE Fifo!Init
  OBVIOUS
<1>1. Shape /\ Held
  BY ShapeInit, HeldInit
<1>2. Unread = <<>>
  BY <1>1, QueueIsRun, RunIsSequence DEF Init
<1>3. [i \in 1..wlen |-> accepted + i] = <<>>
  BY RunIsSequence DEF Init, Run
<1> QED BY <1>2, <1>3 DEF Init, Fifo!Init

\* m_TcpToComBuf in a build that stores m_Tail once is a lossy FIFO, whatever
\* its size: the reads and writes of the two threads are as good as single steps.
THEOREM RingIsFifo == ASSUME ~TailTwoStores PROVE Spec => ImplementsFifo
<1>1. Quiet /\ [Next]_vars => [Fifo!Next]_(Fifo!vars)
  <2> SUFFICES ASSUME Quiet, [Next]_vars PROVE [Fifo!Next]_(Fifo!vars)
    OBVIOUS
  <2>1. Quiet'
    BY QuietStep
  <2>2. Shape /\ Held /\ Shape' /\ Held' /\ ~raced'
    BY <2>1, IInvIsShapeAndHeld DEF Quiet, IInv, Shape, Held
  <2> QED BY <2>2, FifoStep
<1> QED BY <1>1, QuietInit, QuietStep, FifoInit, PTL DEF Spec, ImplementsFifo, Fifo!Spec

\* m_ComToTcpBuf in every build is a FIFO with put-back, until a race.
THEOREM RingIsFifoUnlessRaced == CancelSpec => ImplementsFifoUnlessRaced
<1>1. IInv /\ [CancelNext]_vars => [~raced' => (Fifo!PutBackNext \/ UNCHANGED Fifo!vars)]_vars
  <2> SUFFICES ASSUME IInv, [CancelNext]_vars, ~raced'
               PROVE  Fifo!PutBackNext \/ UNCHANGED Fifo!vars
    BY Zenon
  <2>1. ~raced
    BY RacedForGood
  <2>2. IInv'
    BY IInvStep
  <2>3. Shape /\ Held /\ Shape' /\ Held'
    BY <2>1, <2>2, IInvIsShapeAndHeld DEF IInv, Shape, Held
  <2>4. CASE [Next]_vars
    BY <2>3, <2>4, FifoStep DEF Fifo!PutBackNext
  <2>5. CASE \E n \in 1..ReadSize : CancelReadBytes(n)
    BY <2>3, <2>5, CancelPutsBack DEF Fifo!PutBackNext
  <2> QED BY <2>4, <2>5 DEF CancelNext
<1> QED BY <1>1, IInvInit, IInvStep, FifoInit, PTL DEF CancelSpec, ImplementsFifoUnlessRaced
=============================================================================
