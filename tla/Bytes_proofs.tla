---------------------------- MODULE Bytes_proofs ----------------------------
(***************************************************************************)
(* Proofs about the steps that the client and the server build share, for  *)
(* every size of the buffers, every number of bytes and every set of       *)
(* faults.  ClientBridge_proofs and ServerBridge_proofs add the steps of   *)
(* their own and state the theorems.                                       *)
(***************************************************************************)
EXTENDS Bridge, SequenceTheorems, TLAPS

-----------------------------------------------------------------------------
(* Sequences of bytes. *)

\* The bytes of A are below those of B.
Before(A, B, noise) == \A x \in A, y \in B : x \in noise \/ y \in noise \/ x < y

\* A sequence is its first n elements and the rest.
LEMMA Split ==
  ASSUME NEW q \in Seq(Nat), NEW n \in 0..Len(q)
  PROVE  /\ First(q, n) \in Seq(Nat) /\ Rest(q, n) \in Seq(Nat)
         /\ First(q, n) \o Rest(q, n) = q
         /\ Len(First(q, n)) = n /\ Len(Rest(q, n)) = Len(q) - n
<1>1. First(q, n) \in Seq(Nat) /\ Rest(q, n) \in Seq(Nat)
  BY DEF First, Rest
<1>2. Len(First(q, n)) = n /\ Len(Rest(q, n)) = Len(q) - n
  BY DEF First, Rest
<1>3. First(q, n) \o Rest(q, n) = q
  <2>1. SubSeq(q, 1, n) \o SubSeq(q, n + 1, Len(q)) = SubSeq(q, 1, Len(q))
    <3>1. /\ Len(q) \in Nat /\ 1 \in 1..(Len(q) + 1) /\ n \in 1 - 1..Len(q) 
          /\ Len(q) \in n..Len(q)
      OBVIOUS
    <3> QED BY <3>1, ConcatAdjacentSubSeq
  <2> QED BY <2>1, SubSeqFull DEF First, Rest
<1> QED BY <1>1, <1>2, <1>3

\* The bytes of a concatenation are those of its two parts.
LEMMA RangeConcat ==
  ASSUME NEW s \in Seq(Nat), NEW t \in Seq(Nat)
  PROVE  /\ s \o t \in Seq(Nat) /\ Range(s \o t) = Range(s) \cup Range(t)
BY RangeConcatenation

\* A concatenation is in order if its parts are and the first comes before the
\* second.
LEMMA InOrderConcat ==
  ASSUME NEW s \in Seq(Nat), NEW t \in Seq(Nat), NEW noise
  PROVE  InOrder(s \o t, noise) <=>
           InOrder(s, noise) /\ InOrder(t, noise) /\ Before(Range(s), Range(t), noise)
<1> DEFINE st == s \o t
<1>1. /\ Len(s) \in Nat /\ Len(t) \in Nat /\ Len(st) = Len(s) + Len(t)
      /\ \A i \in 1..Len(s) : st[i] = s[i]
      /\ \A i \in 1..Len(t) : st[Len(s) + i] = t[i]
  OBVIOUS
<1>2. /\ \A i \in 1..Len(s) : s[i] \in Range(s)
      /\ \A i \in 1..Len(t) : t[i] \in Range(t)
      /\ \A x \in Range(s) : \E i \in 1..Len(s) : s[i] = x
      /\ \A x \in Range(t) : \E i \in 1..Len(t) : t[i] = x
  BY DEF Range
<1> HIDE DEF st
<1>3. ASSUME InOrder(st, noise) PROVE InOrder(s, noise) 
  BY <1>1, <1>3 DEF InOrder
<1>4. ASSUME InOrder(st, noise) PROVE InOrder(t, noise)
  <2> SUFFICES ASSUME NEW i \in 1..Len(t), NEW j \in 1..Len(t), i < j
               PROVE  t[i] \in noise \/ t[j] \in noise \/ t[i] < t[j]
    BY DEF InOrder
  <2>1. Len(s) + i \in 1..Len(st) /\ Len(s) + j \in 1..Len(st) /\ Len(s) + i < Len(s) + j
    BY <1>1
  <2> QED BY <1>1, <1>4, <2>1 DEF InOrder
<1>5. ASSUME InOrder(st, noise) PROVE Before(Range(s), Range(t), noise)
  <2> SUFFICES ASSUME NEW i \in 1..Len(s), NEW j \in 1..Len(t)
               PROVE  s[i] \in noise \/ t[j] \in noise \/ s[i] < t[j]
    BY <1>2 DEF Before
  <2>1. i \in 1..Len(st) /\ Len(s) + j \in 1..Len(st) /\ i < Len(s) + j
    BY <1>1
  <2> QED BY <1>1, <1>5, <2>1 DEF InOrder
<1>6. ASSUME InOrder(s, noise), InOrder(t, noise), Before(Range(s), Range(t), noise)
      PROVE  InOrder(st, noise)
  <2> SUFFICES ASSUME NEW i \in 1..Len(st), NEW j \in 1..Len(st), i < j
               PROVE  st[i] \in noise \/ st[j] \in noise \/ st[i] < st[j]
    BY DEF InOrder
  <2>1. CASE j <= Len(s)
    BY SMTT(60), <1>1, <1>6, <2>1 DEF InOrder
  <2>2. CASE i <= Len(s) /\ j > Len(s)
    <3>1. j - Len(s) \in 1..Len(t) /\ j = Len(s) + (j - Len(s)) /\ i \in 1..Len(s)
      BY <1>1, <2>2
    <3>2. st[j] = t[j - Len(s)]
      BY <1>1, <3>1
    <3> QED BY <1>1, <1>2, <1>6, <3>1, <3>2 DEF Before
  <2>3. CASE i > Len(s)
    <3>1. /\ j - Len(s) \in 1..Len(t) /\ j = Len(s) + (j - Len(s)) 
          /\ i - Len(s) \in 1..Len(t) /\ i = Len(s) + (i - Len(s)) /\ i - Len(s) < j - Len(s)
      BY <1>1, <2>3
    <3>2. st[j] = t[j - Len(s)] /\ st[i] = t[i - Len(s)]
      BY <1>1, <3>1
    <3> QED BY <1>6, <3>1, <3>2 DEF InOrder
  <2> QED BY <1>1, <2>1, <2>2, <2>3
<1> QED BY <1>3, <1>4, <1>5, <1>6 DEF st

\* Bytes that leave the middle of a flow for the lost ones leave the rest in order
\* and accounted for.
LEMMA FlowDrop ==
  ASSUME NEW a \in Seq(Nat), NEW b \in Seq(Nat), NEW c \in Seq(Nat),
         NEW lost, NEW sent \in Nat, NEW noise,
         InOrder(a \o b \o c, noise), Accounted(a \o b \o c, lost, sent, noise)
  PROVE  InOrder(a \o c, noise) /\ Accounted(a \o c, lost \cup Range(b), sent, noise)
<1>0. a \o b \in Seq(Nat)
  OBVIOUS
<1>1. /\ InOrder(a, noise) /\ InOrder(b, noise) /\ InOrder(c, noise)
      /\ Before(Range(a), Range(b), noise) /\ Before(Range(a) \cup Range(b), Range(c), noise)
  <2>1. InOrder(a \o b, noise) /\ InOrder(c, noise) /\ Before(Range(a \o b), Range(c), noise)
    BY <1>0, InOrderConcat
  <2>2. InOrder(a, noise) /\ InOrder(b, noise) /\ Before(Range(a), Range(b), noise)
    BY <2>1, InOrderConcat
  <2>3. Range(a \o b) = Range(a) \cup Range(b)
    BY RangeConcat
  <2> QED BY <2>1, <2>2, <2>3
<1>2. InOrder(a \o c, noise)
  BY <1>1, InOrderConcat DEF Before
<1>3. (Range(a) \cup Range(b)\cup Range(c) \cup lost) \ noise = 1..sent /\ (Range(a) \cup
     Range(b)\cup Range(c)) \cap lost \subseteq noise
  BY <1>0, RangeConcat DEF Accounted
<1>4. Range(a) \subseteq Nat /\ Range(b) \subseteq Nat /\ Range(c) \subseteq Nat 
  BY RangeOfSeq
<1>5. Range(a) \cap Range(b) \subseteq noise /\ Range(b) \cap Range(c) \subseteq noise
  BY <1>1, <1>4 DEF Before
<1>6. Range(a \o c) = Range(a) \cup Range(c)
  BY RangeConcat
<1> QED BY <1>2, <1>3, <1>5, <1>6 DEF Accounted

\* Noise in the middle of a flow disturbs nothing.
LEMMA FlowNoise ==
  ASSUME NEW a \in Seq(Nat), NEW b \in Seq(Nat), NEW c \in Seq(Nat),
         NEW lost, NEW sent \in Nat, NEW noise, Range(b) \subseteq noise,
         InOrder(a \o c, noise), Accounted(a \o c, lost, sent, noise)
  PROVE  InOrder(a \o b \o c, noise) /\ Accounted(a \o b \o c, lost, sent, noise)
<1>0. a \o b \in Seq(Nat)
  OBVIOUS
<1>1. InOrder(a, noise) /\ InOrder(c, noise) /\ Before(Range(a), Range(c), noise)
  BY InOrderConcat
<1>2. InOrder(b, noise) /\ Before(Range(a), Range(b), noise) /\ Before(Range(a) \cup
     Range(b), Range(c), noise)
  <2>1. InOrder(b, noise)
    BY DEF InOrder, Range
  <2> QED BY <1>1, <2>1 DEF Before
<1>3. InOrder(a \o b \o c, noise)
  BY <1>0, <1>1, <1>2, InOrderConcat, RangeConcat
<1>4. Range(a \o c) = Range(a) \cup Range(c) /\ Range(a \o b \o c) = Range(a) \cup
     Range(b) \cup Range(c)
  BY <1>0, RangeConcat
<1> QED BY <1>3, <1>4 DEF Accounted

\* The byte sent next goes to the end of a flow.
LEMMA FlowAppend ==
  ASSUME NEW s \in Seq(Nat), NEW lost, NEW sent \in Nat, NEW noise, noise \subseteq {0},
         InOrder(s, noise), Accounted(s, lost, sent, noise)
  PROVE  InOrder(s \o <<sent + 1>>, noise) /\ Accounted(s \o <<sent + 1>>, lost, sent +
       1, noise)
<1>1. <<sent + 1>> \in Seq(Nat) /\ Range(<<sent + 1>>) = {sent + 1} /\ InOrder(<<sent +
     1>>, noise)
  BY DEF Range, InOrder
<1>2. Before(Range(s), {sent + 1}, noise)
  BY DEF Before, Accounted
<1>3. InOrder(s \o <<sent + 1>>, noise)
  BY <1>1, <1>2, InOrderConcat
<1>4. Range(s \o <<sent + 1>>) = Range(s) \cup {sent + 1}
  BY <1>1, RangeConcat
<1>5. 1..(sent + 1) = (1..sent) \cup {sent + 1} /\ sent + 1 \notin noise /\ sent + 1
     \notin 1..sent
  OBVIOUS
<1>6. sent + 1 \notin lost
  BY <1>5 DEF Accounted
<1> QED BY <1>3, <1>4, <1>5, <1>6 DEF Accounted

-----------------------------------------------------------------------------
(* The proofs about the threads keep the definitions of Bytes and Cat closed: *)
(* the provers then use the laws below and nothing else about sequences.      *)

Bytes == Seq(Nat)
Cat(s, t) == s \o t
Flow(s, lost, sent, noise) == InOrder(s, noise) /\ Accounted(s, lost, sent, noise)

\* Sequences of bytes are a monoid under concatenation.
LEMMA Laws ==
  /\ <<>> \in Bytes
  /\ \A s, t \in Bytes : Cat(s, t) \in Bytes
  /\ \A s, t, u \in Bytes : Cat(Cat(s, t), u) = Cat(s, Cat(t, u))
  /\ \A s \in Bytes : Cat(s, <<>>) = s /\ Cat(<<>>, s) = s
BY DEF Cat, Bytes

\* Seeing the last three, or four, buffers as one.
LEMMA Grouping ==
  ASSUME NEW a \in Bytes, NEW b \in Bytes, NEW c \in Bytes, NEW d \in Bytes
  PROVE  /\ Cat(Cat(b, c), d) \in Bytes
         /\ Cat(Cat(Cat(a, b), c), d) = Cat(a, Cat(Cat(b, c), d))
         /\ Cat(Cat(Cat(Cat(a, <<>>), b), c), d) = Cat(a, Cat(Cat(b, c), d))
<1>1. Cat(b, c) \in Bytes /\ Cat(Cat(b, c), d) \in Bytes /\ Cat(a, <<>>) = a
  BY Laws
<1>2. Cat(Cat(Cat(a, b), c), d) = Cat(a, Cat(Cat(b, c), d))
  BY <1>1, Laws
<1> QED BY <1>1, <1>2

\* The same for four.
LEMMA LastFour ==
  ASSUME NEW a \in Bytes, NEW b \in Bytes, NEW c \in Bytes, NEW d \in Bytes, NEW e \in Bytes
  PROVE  /\ Cat(Cat(Cat(b, c), d), e) \in Bytes
         /\ Cat(Cat(Cat(Cat(a, b), c), d), e) = Cat(a, Cat(Cat(Cat(b, c), d), e))
         /\ Cat(Cat(Cat(Cat(Cat(a, <<>>), b), c), d), e) = Cat(a, Cat(Cat(Cat(b, c), d), e))
<1> DEFINE bcd == Cat(Cat(b, c), d)
<1>1. bcd \in Bytes /\ Cat(Cat(Cat(a, b), c), d) = Cat(a, bcd) /\ Cat(Cat(Cat(Cat(a,
     <<>>), b), c), d) = Cat(a, bcd)
  BY Grouping
<1> HIDE DEF bcd
<1>2. Cat(bcd, e) \in Bytes /\ Cat(Cat(a, bcd), e) = Cat(a, Cat(bcd, e))
  BY <1>1, Laws
<1> QED BY <1>1, <1>2 DEF bcd

\* The empty buffer is within every bound.
LEMMA Empty ==
  /\ <<>> \in Bytes /\ Range(<<>>) = {}
  /\ Len(<<>>) < BufferSize /\ Len(<<>>) <= TcpBufSize /\ Len(<<>>) <= SendWindow
BY BridgeAssumption DEF Range, Bytes

\* The bounds are positive numbers.
LEMMA Positive ==
  /\ BufferSize \in Nat /\ TcpBufSize \in Nat /\ SendWindow \in Nat
  /\ 0 < BufferSize /\ 0 < TcpBufSize /\ 0 < SendWindow
BY BridgeAssumption

\* Only the empty buffer has length 0.
LEMMA Lengths ==
  ASSUME NEW q \in Bytes
  PROVE  Len(q) \in Nat /\ (Len(q) = 0 <=> q = <<>>)
BY DEF Bytes

\* What is smaller than something within the bounds is within them.
LEMMA Smaller ==
  ASSUME NEW a \in Nat, NEW b \in Nat, b <= a
  PROVE  /\ a < BufferSize => b < BufferSize
         /\ a <= TcpBufSize => b <= TcpBufSize
BY Positive

\* The bytes of a concatenation.
LEMMA RangeCat ==
  ASSUME NEW s \in Bytes, NEW t \in Bytes
  PROVE  Range(Cat(s, t)) = Range(s) \cup Range(t) /\ Range(s) \subseteq Nat
BY RangeConcat, RangeOfSeq DEF Bytes, Cat

\* The bytes of four buffers.
LEMMA RangeCat4 ==
  ASSUME NEW a \in Bytes, NEW b \in Bytes, NEW c \in Bytes, NEW d \in Bytes
  PROVE  /\ Cat(Cat(Cat(a, b), c), d) \in Bytes
         /\ Range(Cat(Cat(Cat(a, b), c), d)) = Range(a) \cup Range(b) \cup Range(c) \cup
              Range(d)
<1>1. Cat(a, b) \in Bytes /\ Range(Cat(a, b)) = Range(a) \cup Range(b)
  BY RangeCat, Laws
<1>2. Cat(Cat(a, b), c) \in Bytes /\ Range(Cat(Cat(a, b), c)) = Range(a) \cup Range(b)
     \cup Range(c)
  BY <1>1, RangeCat, Laws
<1> QED BY <1>1, <1>2, RangeCat, Laws

\* Taking the first n bytes off a buffer.
LEMMA Cutting ==
  ASSUME NEW q \in Bytes, NEW n \in 0..Len(q)
  PROVE  /\ First(q, n) \in Bytes /\ Rest(q, n) \in Bytes
         /\ Cat(First(q, n), Rest(q, n)) = q
         /\ Len(First(q, n)) = n
         /\ Len(Rest(q, n)) \in Nat /\ Len(Rest(q, n)) <= Len(q)
         /\ n = Len(q) => Rest(q, n) = <<>>
<1>1. /\ First(q, n) \in Bytes /\ Rest(q, n) \in Bytes
      /\ Cat(First(q, n), Rest(q, n)) = q
      /\ Len(First(q, n)) = n /\ Len(Rest(q, n)) = Len(q) - n
  BY Split DEF Bytes, Cat
<1>2. Len(Rest(q, n)) \in Nat /\ Len(Rest(q, n)) <= Len(q)
  BY <1>1, Lengths
<1>3. n = Len(q) => Rest(q, n) = <<>>
  BY <1>1, Lengths
<1> QED BY <1>1, <1>2, <1>3

\* Putting a new byte, the number after n, at the end of a buffer.
LEMMA Appending ==
  ASSUME NEW q \in Bytes, NEW n \in Nat
  PROVE  n + 1 \in Nat /\ Append(q, n + 1) \in Bytes /\ Append(q, n + 1) = Cat(q, <<n + 1>>)
BY DEF Bytes, Cat

\* Moving a byte from the head of one buffer to the end of another.
LEMMA Shifting ==
  ASSUME NEW s \in Bytes, NEW q \in Bytes, q # <<>>
  PROVE  /\ Append(s, Head(q)) \in Bytes /\ Tail(q) \in Bytes /\ Len(Tail(q)) = Len(q) - 1
         /\ Cat(Append(s, Head(q)), Tail(q)) = Cat(s, q)
<1> USE DEF Bytes
<1>1. /\ Head(q) \in Nat /\ Tail(q) \in Bytes /\ Len(Tail(q)) = Len(q) - 1
      /\ q = Cat(<<Head(q)>>, Tail(q))
  BY DEF Cat
<1>2. <<Head(q)>> \in Bytes /\ Append(s, Head(q)) = Cat(s, <<Head(q)>>)
  BY <1>1 DEF Cat
<1>3. Append(s, Head(q)) \in Bytes
  BY <1>1
<1> DEFINE head == <<Head(q)>>
           tail == Tail(q)
           longer == Append(s, Head(q))
<1>4. head \in Bytes /\ tail \in Bytes /\ longer = Cat(s, head) /\ Cat(head, tail) = q
  BY <1>1, <1>2
<1> HIDE DEF Bytes, head, tail, longer
<1>5. Cat(longer, tail) = Cat(s, q)
  BY <1>4, Laws
<1> QED BY <1>1, <1>3, <1>5 DEF longer, tail

\* The length of a concatenation.
LEMMA Joining ==
  ASSUME NEW s \in Bytes, NEW t \in Bytes
  PROVE  Cat(s, t) \in Bytes /\ Len(Cat(s, t)) = Len(s) + Len(t)
BY DEF Bytes, Cat

\* What a Read of a ring, or recv, takes and what it leaves.
LEMMA Taking ==
  ASSUME NEW q \in Bytes
  PROVE  LET t == First(q, Least(TcpBufSize, Len(q)))
         IN  /\ t \in Bytes /\ Len(t) <= TcpBufSize /\ Len(t) <= Len(q)
             /\ Rest(q, Len(t)) \in Bytes /\ Len(Rest(q, Len(t))) <= Len(q)
             /\ Cat(t, Rest(q, Len(t))) = q
             /\ t = <<>> => q = <<>>
             /\ q = <<>> => Rest(q, Len(t)) = <<>>
<1> DEFINE n == Least(TcpBufSize, Len(q))
<1>1. n \in 0..Len(q) /\ n <= TcpBufSize /\ (n = 0 => Len(q) = 0)
  BY Positive, Lengths DEF Least
<1> HIDE DEF n
<1>2. /\ First(q, n) \in Bytes /\ Len(First(q, n)) = n
      /\ Rest(q, n) \in Bytes /\ Len(Rest(q, n)) \in Nat /\ Len(Rest(q, n)) <= Len(q)
      /\ Cat(First(q, n), Rest(q, n)) = q
  BY <1>1, Cutting
<1>3. First(q, n) = <<>> => q = <<>>
  BY <1>1, <1>2, Lengths
<1>4. q = <<>> => Rest(q, n) = <<>>
  BY <1>1, <1>2, Lengths
<1> QED BY <1>1, <1>2, <1>3, <1>4 DEF n

\* What Write copies into a ring with room left fits, and the rest is lost.
LEMMA Fitting ==
  ASSUME NEW q \in Bytes, NEW data \in Bytes, Len(q) < BufferSize
  PROVE  LET n == Fits(q, data)
         IN  /\ First(data, n) \in Bytes /\ Rest(data, n) \in Bytes
             /\ Cat(First(data, n), Rest(data, n)) = data
             /\ Len(First(data, n)) < BufferSize /\ Len(q) + Len(First(data, n)) < BufferSize
             /\ Written(q, data) = Cat(q, First(data, n))
             /\ Written(q, data) \in Bytes /\ Len(Written(q, data)) < BufferSize
<1> DEFINE n == Fits(q, data)
<1>1. n \in 0..Len(data) /\ Len(q) + n < BufferSize
  BY Positive, Lengths DEF Fits, Least
<1>2. Written(q, data) = Cat(q, First(data, n))
  BY DEF Written, Cat
<1> HIDE DEF n
<1>3. /\ First(data, n) \in Bytes /\ Rest(data, n) \in Bytes
      /\ Len(First(data, n)) = n
      /\ Cat(First(data, n), Rest(data, n)) = data
  BY <1>1, Cutting
<1>4. Written(q, data) \in Bytes /\ Len(Written(q, data)) = Len(q) + n
  BY <1>2, <1>3, Joining
<1>5. n < BufferSize
  BY <1>1, Positive, Lengths
<1> QED BY <1>1, <1>2, <1>3, <1>4, <1>5 DEF n

\* A pointer that passes the other one leaves the last of the bytes.
LEMMA Wrapping ==
  ASSUME NEW q \in Bytes, Len(q) < BufferSize + BufferSize
  PROVE  /\ Wrapped(q) \in Bytes /\ Len(Wrapped(q)) < BufferSize
         /\ \E over \in Bytes : Cat(over, Wrapped(q)) = q
<1>1. CASE Len(q) < BufferSize
  <2>1. Wrapped(q) = q /\ Cat(<<>>, q) = q
    BY <1>1, Laws DEF Wrapped
  <2> QED BY <1>1, <2>1, Empty
<1>2. CASE ~(Len(q) < BufferSize)
  <2>1. BufferSize \in 0..Len(q) /\ Wrapped(q) = Rest(q, BufferSize)
    BY <1>2, Positive, Lengths DEF Wrapped
  <2>2. /\ First(q, BufferSize) \in Bytes
        /\ Rest(q, BufferSize) \in Bytes
        /\ Cat(First(q, BufferSize), Rest(q, BufferSize)) = q
        /\ Len(First(q, BufferSize)) = BufferSize
    BY <2>1, Cutting
  <2>3. Len(Rest(q, BufferSize)) < BufferSize
    <3>1. Len(q) = BufferSize + Len(Rest(q, BufferSize))
      BY <2>2, Joining
    <3> QED BY <2>2, <3>1, Positive, Lengths
  <2> QED BY <2>1, <2>2, <2>3
<1> QED BY <1>1, <1>2

\* CancelReadBytes leaves the last of the bytes it puts back and those there were.
LEMMA Cancelling ==
  ASSUME NEW q \in Bytes, NEW data \in Bytes, Len(q) < BufferSize, Len(data) < BufferSize
  PROVE  /\ Cancelled(q, data) \in Bytes /\ Len(Cancelled(q, data)) < BufferSize
         /\ Overrun(q, data) = Range(Cat(data, q)) \ Range(Cancelled(q, data))
         /\ \E over \in Bytes : Cat(over, Cancelled(q, data)) = Cat(data, q)
<1> DEFINE all == Cat(data, q)
<1>1. all \in Bytes /\ Len(all) < BufferSize + BufferSize
  BY Joining, Lengths, Positive
<1>2. /\ Cancelled(q, data) = Wrapped(all)
      /\ Overrun(q, data) = Range(all) \ Range(Cancelled(q, data))
  BY DEF Cancelled, Overrun, Cat
<1> HIDE DEF all
<1>3. /\ Wrapped(all) \in Bytes /\ Len(Wrapped(all)) < BufferSize
      /\ \E over \in Bytes : Cat(over, Wrapped(all)) = all
  BY <1>1, Wrapping
<1> QED BY <1>2, <1>3 DEF all

\* Copying data to the cells behind the tail replaces bytes of the ring by bytes of
\* data, and none where there is room for both.
LEMMA Overwriting ==
  ASSUME NEW q \in Bytes, NEW data \in Bytes, Len(q) < BufferSize
  PROVE  /\ Overwritten(q, data) \in Bytes
         /\ Len(Overwritten(q, data)) = Len(q)
         /\ Range(Overwritten(q, data)) \subseteq Range(q) \cup Range(data)
         /\ Len(q) + Len(data) < BufferSize => Overwritten(q, data) = q
<1> DEFINE k(i) == i + BufferSize - Len(q)
<1>1. /\ Len(q) \in Nat /\ Len(data) \in Nat
      /\ \A i \in 1..Len(q) : q[i] \in Nat /\ q[i] \in Range(q)
      /\ \A i \in 1..Len(data) : data[i] \in Nat /\ data[i] \in Range(data)
  BY DEF Bytes, Range
<1>2. \A i \in 1..Len(q) : k(i) \in Nat /\ k(i) >= 1
  BY <1>1, Positive
<1>3. \A i \in 1..Len(q) : k(i) <= Len(data) => k(i) \in 1..Len(data)
  BY <1>1, <1>2
<1> HIDE DEF k
<1>4. Overwritten(q, data) = [i \in 1..Len(q) |-> IF k(i) <= Len(data) THEN data[k(i)] ELSE q[i]]
  BY DEF Overwritten, k
<1>5. \A i \in 1..Len(q) : /\ Overwritten(q, data)[i] \in Nat
                          /\ Overwritten(q, data)[i] \in Range(q) \cup Range(data)
  BY <1>1, <1>3, <1>4
<1>6. /\ DOMAIN Overwritten(q, data) = 1..Len(q)
      /\ Overwritten(q, data) \in [1..Len(q) -> Nat]
  BY <1>4, <1>5
<1>7. Overwritten(q, data) \in Bytes /\ Len(Overwritten(q, data)) = Len(q)
  <2>1. ASSUME NEW n \in Nat, NEW s \in [1..n -> Nat] PROVE s \in Bytes /\ Len(s) = n
    BY DEF Bytes
  <2> QED BY <1>1, <1>6, <2>1
<1>8. Range(Overwritten(q, data)) \subseteq Range(q) \cup Range(data)
  BY <1>5, <1>6 DEF Range
<1>9. ASSUME Len(q) + Len(data) < BufferSize PROVE Overwritten(q, data) = q
  <2>1. \A i \in 1..Len(q) : ~(k(i) <= Len(data))
    BY <1>1, <1>9, Positive DEF k
  <2>2. \A i \in 1..Len(q) : Overwritten(q, data)[i] = q[i]
    BY <1>4, <2>1
  <2>3. q \in Seq(Nat) /\ Overwritten(q, data) \in Seq(Nat)
    BY <1>7 DEF Bytes
  <2> QED BY <1>7, <2>2, <2>3
<1> QED BY <1>7, <1>8, <1>9

\* A flow that loses its bytes b.
LEMMA Losing ==
  ASSUME NEW a \in Bytes, NEW b \in Bytes, NEW c \in Bytes,
         NEW lost, NEW sent \in Nat, NEW noise,
         Flow(Cat(Cat(a, b), c), lost, sent, noise)
  PROVE  Flow(Cat(a, c), lost \cup Range(b), sent, noise)
BY FlowDrop DEF Bytes, Cat, Flow

\* A flow that takes up noise.
LEMMA Noising ==
  ASSUME NEW a \in Bytes, NEW b \in Bytes, NEW c \in Bytes,
         NEW lost, NEW sent \in Nat, NEW noise, Range(b) \subseteq noise,
         Flow(Cat(a, c), lost, sent, noise)
  PROVE  Flow(Cat(Cat(a, b), c), lost, sent, noise)
BY FlowNoise DEF Bytes, Cat, Flow

\* A flow that takes up the byte sent next.
LEMMA Gaining ==
  ASSUME NEW s \in Bytes, NEW lost, NEW sent \in Nat, NEW noise, noise \subseteq {0},
         Flow(s, lost, sent, noise)
  PROVE  Flow(Cat(s, <<sent + 1>>), lost, sent + 1, noise)
BY FlowAppend DEF Bytes, Cat, Flow

\* In a flow without noise no byte is in two places.
LEMMA Distinct ==
  ASSUME NEW s \in Bytes, NEW t \in Bytes, InOrder(Cat(s, t), {})
  PROVE  Range(s) \cap Range(t) = {}
<1>1. Before(Range(s), Range(t), {})
  BY InOrderConcat DEF Bytes, Cat
<1>2. Range(s) \subseteq Nat
  BY RangeCat
<1> QED BY <1>1, <1>2 DEF Before
=============================================================================
