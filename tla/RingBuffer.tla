----------------------------- MODULE RingBuffer -----------------------------
(***************************************************************************)
(* CRingBuffer (Source/ringbuffer.h, Source/ringbuffer.cpp) as the threads *)
(* of CThreadConfig use it: one thread calls Write, one thread calls Read, *)
(* GetAvailableData and CancelReadBytes, and no lock is taken.             *)
(*                                                                         *)
(* Pointers are offsets from m_Base, so m_Base is 0 and m_End is Size.     *)
(* Each call is split where the other thread can see the difference: the   *)
(* snapshot of m_Head and m_Tail, the copy of each byte, the stores that   *)
(* publish the pointer.  "m_Tail += n; if (m_Tail == m_End) m_Tail =       *)
(* m_Base;" on a plain member is one store or two, as the compiler likes,  *)
(* and with two the other thread can see m_Tail = m_End: a constant says   *)
(* which build is modelled.  m_InUse is left out: only ReInitialize and    *)
(* Purge act on it and nothing in the program calls them.                  *)
(*                                                                         *)
(* A byte is its number in the order of acceptance: 1, 2, 3, ...  0 is the *)
(* content of memory that was never written.                               *)
(***************************************************************************)
EXTENDS Integers, Sequences

CONSTANTS Size,       \* m_Size, DATA_BUFFER_SIZE in the program
          ReadSize,   \* DataSize of every Read, TCP_BUF_SIZE in the program
          HeadTwoStores,  \* the build stores m_Head before it compares it with m_End
          TailTwoStores,  \* the build stores m_Tail before it compares it with m_End
          MaxWrite,   \* bound: largest DataSize of a Write
          MaxBytes    \* bound: bytes accepted in a behaviour, and bytes consumed
                      \* before a last Read: only a race consumes more than that

ASSUME RingAssumption == /\ Size \in Nat \ {0}
                         /\ ReadSize \in Nat \ {0}
                         /\ HeadTwoStores \in BOOLEAN
                         /\ TailTwoStores \in BOOLEAN
                         /\ MaxWrite \in Nat
                         /\ MaxBytes \in Nat

VARIABLES mem,        \* the bytes at m_Base, by offset
          m_Head,     \* offset of the oldest unread byte
          m_Tail,     \* offset of the next byte to write
          wlen,       \* bytesToCopy of the Write under way, 0 when there is none
          wdone,      \* how many of them are copied
          rlen,       \* DataSize of the Read under way, 0 when there is none
          out,        \* the reader's buffer: the bytes copied and not cancelled
          accepted,   \* history: bytes the writes have published
          consumed,   \* history: bytes the reads have taken and kept
          raced       \* history: a CancelReadBytes went back over bytes that
                      \* the producer had written or was writing, or a Read saw
                      \* m_Tail between its two stores with m_Head at m_Base

vars == <<mem, m_Head, m_Tail, wlen, wdone, rlen, out, accepted, consumed, raced>>

Offset == 0..(Size - 1)

\* A pointer equals m_End only between the two stores of a build that has them.
Pointer == 0..Size

-----------------------------------------------------------------------------
(* Pointer arithmetic. *)

Least(a, b) == IF a < b THEN a ELSE b

\* Mutant: no byte is left unused, so a full buffer looks empty.
BadGetAvailableSpace(h, t) == IF t >= h THEN Size - (t - h) ELSE h - t

GetAvailableSpace(h, t) ==
  LET tailPlusOne == IF t + 1 = Size THEN 0 ELSE t + 1
  IN  IF tailPlusOne = h THEN 0
      ELSE IF t = h THEN Size - 1
      ELSE IF t > h THEN Size - (t - h) - 1
      ELSE (h - t) - 1

GetAvailableData(h, t) == Size - GetAvailableSpace(h, t) - 1

\* The offset of the n-th byte after pointer p.
Forward(p, n) == IF p + n >= Size THEN p + n - Size ELSE p + n

\* Mutant: the copy wraps around the end, the pointer does not.
BadAdvance(p, n, twoStores) == p + n

\* What a call stores in its pointer to move it n bytes on.
Advance(p, n, twoStores) ==
  IF p + n = Size /\ twoStores THEN Size ELSE Forward(p, n)

\* Mutant: CancelReadBytes wraps around one byte too late.
BadBackward(p, n) == IF p + 1 < n THEN Size - (n - p) ELSE IF p < n THEN 0 ELSE p - n

\* A pointer moved n bytes back, as CancelReadBytes does.
Backward(p, n) == IF p < n THEN Size - (n - p) ELSE p - n

-----------------------------------------------------------------------------
Init ==
  /\ mem = [p \in Offset |-> 0]
  /\ m_Head = 0
  /\ m_Tail = 0
  /\ wlen = 0 /\ wdone = 0
  /\ rlen = 0 /\ out = <<>>
  /\ accepted = 0 /\ consumed = 0
  /\ raced = FALSE

-----------------------------------------------------------------------------
(* The producer: Write. *)

\* Write takes its snapshot and decides how many of its n bytes it copies;
\* with no space it drops them all and returns.
WriteBegin(n) ==
  /\ wlen = 0
  /\ m_Tail < Size
  /\ accepted + n <= MaxBytes
  /\ wlen' = Least(n, GetAvailableSpace(m_Head, m_Tail))
  /\ UNCHANGED <<mem, m_Head, m_Tail, wdone, rlen, out, accepted, consumed, raced>>

WriteByte ==
  /\ wdone < wlen
  /\ mem' = [mem EXCEPT ![Forward(m_Tail, wdone)] = accepted + wdone + 1]
  /\ wdone' = wdone + 1
  /\ UNCHANGED <<m_Head, m_Tail, wlen, rlen, out, accepted, consumed, raced>>

\* Mutant: the tail is published before the last byte is copied.
BadWriteEnd ==
  /\ wlen > 0
  /\ wdone + 1 >= wlen
  /\ m_Tail' = Advance(m_Tail, wlen, TailTwoStores)
  /\ accepted' = accepted + wlen
  /\ wlen' = 0
  /\ wdone' = 0
  /\ UNCHANGED <<mem, m_Head, rlen, out, consumed, raced>>

WriteEnd ==
  /\ wlen > 0
  /\ wdone = wlen
  /\ m_Tail' = Advance(m_Tail, wlen, TailTwoStores)
  /\ accepted' = accepted + wlen
  /\ wlen' = 0
  /\ wdone' = 0
  /\ UNCHANGED <<mem, m_Head, rlen, out, consumed, raced>>

\* The second store of a Write that has exactly reached the end.
WriteWrap ==
  /\ m_Tail = Size
  /\ m_Tail' = 0
  /\ UNCHANGED <<mem, m_Head, wlen, wdone, rlen, out, accepted, consumed, raced>>

-----------------------------------------------------------------------------
(* The consumer: Read and CancelReadBytes. *)

\* Mutant: the head is published before the bytes are copied out.
BadReadBegin ==
  LET n == Least(ReadSize, GetAvailableData(m_Head, m_Tail))
  IN  /\ rlen = 0
      /\ m_Head < Size
      /\ rlen' = n
      /\ out' = <<>>
      /\ m_Head' = Advance(m_Head, n, HeadTwoStores)
      /\ UNCHANGED <<mem, m_Tail, wlen, wdone, accepted, consumed, raced>>

\* Read takes its snapshot and decides how many bytes it copies; with no data
\* it returns none.
ReadBegin ==
  /\ rlen = 0
  /\ m_Head < Size
  /\ consumed <= MaxBytes
  /\ rlen' = Least(ReadSize, GetAvailableData(m_Head, m_Tail))
  /\ out' = <<>>
  /\ raced' = (raced \/ (m_Tail = Size /\ m_Head = 0))
  /\ UNCHANGED <<mem, m_Head, m_Tail, wlen, wdone, accepted, consumed>>

ReadByte ==
  /\ Len(out) < rlen
  /\ out' = Append(out, mem[Forward(m_Head, Len(out))])
  /\ UNCHANGED <<mem, m_Head, m_Tail, wlen, wdone, rlen, accepted, consumed, raced>>

ReadEnd ==
  /\ rlen > 0
  /\ Len(out) = rlen
  /\ m_Head' = Advance(m_Head, rlen, HeadTwoStores)
  /\ consumed' = consumed + rlen
  /\ rlen' = 0
  /\ UNCHANGED <<mem, m_Tail, wlen, wdone, out, accepted, raced>>

\* The second store of a Read that has exactly reached the end.
ReadWrap ==
  /\ m_Head = Size
  /\ m_Head' = 0
  /\ UNCHANGED <<mem, m_Tail, wlen, wdone, rlen, out, accepted, consumed, raced>>

\* The reader gives back the last n bytes of its last Read: m_Head moves back,
\* whatever the producer has done meanwhile.
CancelReadBytes(n) ==
  /\ rlen = 0
  /\ m_Head < Size
  /\ n <= Len(out)
  /\ n <= Size
  /\ m_Head' = Backward(m_Head, n)
  /\ out' = SubSeq(out, 1, Len(out) - n)
  /\ consumed' = consumed - n
  /\ raced' = (raced \/ accepted + wlen - consumed + n >= Size)
  /\ UNCHANGED <<mem, m_Tail, wlen, wdone, rlen, accepted>>

-----------------------------------------------------------------------------
Producer == \/ \E n \in 1..MaxWrite : WriteBegin(n)
            \/ WriteByte
            \/ WriteEnd
            \/ WriteWrap

Consumer == ReadBegin \/ ReadByte \/ ReadEnd \/ ReadWrap

Next == Producer \/ Consumer

CancelNext == Next \/ \E n \in 1..ReadSize : CancelReadBytes(n)

\* m_TcpToComBuf: its consumer, writeTcpToCom, never cancels a read.
Spec == Init /\ [][Next]_vars

\* m_ComToTcpBuf: writeComToTcp cancels what send did not take.
CancelSpec == Init /\ [][CancelNext]_vars

-----------------------------------------------------------------------------
(* Properties. *)

\* Every variable has its type.  In a build of one store m_Head and m_Tail stay
\* below m_End, which is what Write, Read and CancelReadBytes ASSERT at the end.
TypeOK ==
  /\ mem \in [Offset -> Nat]
  /\ m_Head \in Pointer /\ (~HeadTwoStores => m_Head < Size)
  /\ m_Tail \in Pointer /\ (~TailTwoStores => m_Tail < Size)
  /\ wlen \in 0..(Size - 1)
  /\ wdone \in 0..wlen
  /\ rlen \in 0..Size
  /\ out \in Seq(Nat)
  /\ accepted \in Nat
  /\ consumed \in Int
  /\ raced \in BOOLEAN

\* How many bytes are between m_Head and m_Tail; m_End is the same place as m_Base.
Used == GetAvailableData(m_Head, Forward(m_Tail, 0))

\* The snapshot a Write or a Read acts on stays good until it publishes: the
\* room the producer counted on is still free and the bytes the consumer
\* counted on are still there.  GetAvailableSpace's comment claims both.
SnapshotsHold ==
  /\ wlen <= Size - 1 - Used
  /\ rlen <= Used

\* The unread bytes are those accepted and not consumed, in order, and no write
\* under way has touched one of them.
UnreadBytesIntact ==
  /\ Used = accepted - consumed
  /\ \A i \in 0..(Used - 1) : mem[Forward(m_Head, i)] = consumed + i + 1

\* What a Read copies is the next bytes in order: none is skipped, repeated,
\* swapped or torn by a concurrent Write.
ReadsInOrder ==
  LET first == IF rlen = 0 THEN consumed - Len(out) ELSE consumed
  IN  \A i \in 1..Len(out) : out[i] = first + i

RingSafety == SnapshotsHold /\ UnreadBytesIntact /\ ReadsInOrder

\* In every build, and with CancelReadBytes, the same holds until one of the two
\* races of the buffer happens: a cancelled byte's room has been taken again
\* ("Not protected from overwriting"), or a Read has seen m_Tail = m_End.
SafeUnlessRaced == ~raced => RingSafety

\* The bytes of the Write under way are in place as far as it has got.
PartialWriteInPlace == \A i \in 0..(wdone - 1) : mem[Forward(m_Tail, i)] = accepted + i + 1

\* A byte that CancelReadBytes may give back is still in the buffer, unless the
\* producer has taken its room.
CancellableBytesIntact ==
  rlen = 0 =>
    \A k \in 1..Len(out) :
      accepted + wlen - consumed + k < Size => mem[Backward(m_Head, k)] = consumed - k + 1

\* The inductive strengthening of SafeUnlessRaced.
IInv ==
  /\ TypeOK
  /\ Len(out) <= Size
  /\ wlen > 0 => m_Tail < Size
  /\ rlen > 0 => m_Head < Size
  /\ rlen > 0 => Len(out) <= rlen
  /\ ~raced => RingSafety /\ PartialWriteInPlace /\ CancellableBytesIntact

-----------------------------------------------------------------------------
(* Refinement: the bytes from m_Head to m_Tail are a lossy FIFO. *)

Unread == [i \in 1..Used |-> mem[Forward(m_Head, i - 1)]]

Fifo == INSTANCE LossyFifo
          WITH Capacity <- Size - 1,
               queue <- Unread,
               writing <- [i \in 1..wlen |-> accepted + i],
               taking <- rlen,
               out <- IF rlen = 0 THEN out ELSE <<>>

\* Byte by byte and pointer by pointer, the ring with one writer and one reader
\* behaves as the FIFO whose writes and reads are single steps.
ImplementsFifo == Fifo!Spec

\* A cancelled read puts its bytes back at the front of the FIFO, until a race.
ImplementsFifoUnlessRaced ==
  /\ Fifo!Init
  /\ [][~raced' => (Fifo!PutBackNext \/ UNCHANGED Fifo!vars)]_vars
=============================================================================
