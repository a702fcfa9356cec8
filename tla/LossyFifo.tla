----------------------------- MODULE LossyFifo -----------------------------
(***************************************************************************)
(* What CRingBuffer promises its two threads: a first-in first-out queue   *)
(* of bytes of a fixed capacity.  A write that does not fit puts in as     *)
(* many bytes as there is room for and drops the rest; a read takes out    *)
(* the oldest bytes; the reader may put back the last bytes it took.       *)
(*                                                                         *)
(* A write decides how much it takes (Offer) before the bytes can be read  *)
(* (Commit), and a read decides how much it takes (Take) before their room *)
(* can be used again (Deliver): the other thread runs in between.          *)
(* Bytes are numbered 1, 2, 3, ... in the order they were accepted.        *)
(***************************************************************************)
EXTENDS Integers, Sequences

CONSTANTS Capacity,   \* bytes the queue can hold
          MaxWrite,   \* largest write
          ReadSize    \* size of the reader's buffer

VARIABLES queue,      \* bytes in the queue, oldest first
          writing,    \* bytes of the write under way, not yet readable
          taking,     \* how many bytes the read under way will take
          out,        \* bytes the last read returned and the reader kept
          accepted    \* how many bytes have been committed in all

vars == <<queue, writing, taking, out, accepted>>

Least(a, b) == IF a < b THEN a ELSE b

Init == /\ queue = <<>>
        /\ writing = <<>>
        /\ taking = 0
        /\ out = <<>>
        /\ accepted = 0

Offer(n) ==
  /\ writing = <<>>
  /\ writing' = [i \in 1..Least(n, Capacity - Len(queue)) |-> accepted + i]
  /\ UNCHANGED <<queue, taking, out, accepted>>

Commit ==
  /\ writing # <<>>
  /\ queue' = queue \o writing
  /\ accepted' = accepted + Len(writing)
  /\ writing' = <<>>
  /\ UNCHANGED <<taking, out>>

Take ==
  /\ taking = 0
  /\ taking' = Least(ReadSize, Len(queue))
  /\ out' = <<>>
  /\ UNCHANGED <<queue, writing, accepted>>

Deliver ==
  /\ taking > 0
  /\ out' = SubSeq(queue, 1, taking)
  /\ queue' = SubSeq(queue, taking + 1, Len(queue))
  /\ taking' = 0
  /\ UNCHANGED <<writing, accepted>>

\* The reader puts back the last n bytes it took; there must be room for
\* them beside the bytes queued and the bytes being written.
PutBack(n) ==
  /\ taking = 0
  /\ n <= Len(out)
  /\ Len(queue) + Len(writing) + n <= Capacity
  /\ queue' = SubSeq(out, Len(out) - n + 1, Len(out)) \o queue
  /\ out' = SubSeq(out, 1, Len(out) - n)
  /\ UNCHANGED <<writing, taking, accepted>>

Next == \/ \E n \in 1..MaxWrite : Offer(n)
        \/ Commit
        \/ Take
        \/ Deliver

PutBackNext == Next \/ \E n \in 1..ReadSize : PutBack(n)

Spec == Init /\ [][Next]_vars

PutBackSpec == Init /\ [][PutBackNext]_vars
=============================================================================
