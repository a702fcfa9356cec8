------------------------ MODULE DialogData_proofs ------------------------
(***************************************************************************)
(* What the operators of MainDialog return: the capacity of a vector, the  *)
(* ports sorted by name, the settings in a file, a vector without a row.   *)
(* A fact about all numbers is proved by induction with the set of those   *)
(* it holds of.                                                            *)
(***************************************************************************)
EXTENDS MainDialog, ThreadConfig_proofs, SequenceTheorems, WellFoundedInduction

\* A set of numbers that is not empty has a least element.
LEMMA LeastElement ==
  ASSUME NEW S \in SUBSET Nat, S # {}
  PROVE  \E n \in S : \A m \in S : n <= m
<1>1. PICK n \in S : \A m \in S : <<m, n>> \notin OpToRel(<, Nat)
  BY NatLessThanWellFounded, WFMin
<1>2. \A m \in S : ~(m < n)
  BY <1>1 DEF OpToRel
<1> QED BY <1>2

\* Induction, with a set in place of a formula.
LEMMA Induction ==
  ASSUME NEW S \in SUBSET Nat, 0 \in S, \A n \in S : n + 1 \in S
  PROVE  S = Nat
<1> SUFFICES ASSUME Nat \ S # {} PROVE FALSE
  OBVIOUS
<1>1. PICK n \in Nat \ S : \A m \in Nat \ S : n <= m
  BY LeastElement
<1>2. n - 1 \in S
  BY <1>1
<1> QED BY <1>1, <1>2

\* The capacity that has room for n elements, and functions that begin as CapacityOf
\* does.
NextCapacity(v, n) == IF v >= n THEN v ELSE Grown(v)
Begins(g, n) == \A i \in 0 .. n : g[i] = IF i = 0 THEN 0 ELSE NextCapacity(g[i - 1], i)

\* Two functions that begin so agree.
LEMMA CapacityUnique ==
  ASSUME NEW m \in Nat, NEW f, NEW g, Begins(f, m), Begins(g, m)
  PROVE  \A i \in 0 .. m : f[i] = g[i]
<1> DEFINE S == {i \in Nat : i <= m => f[i] = g[i]}
<1>1. 0 \in S
  BY DEF Begins
<1>2. ASSUME NEW n \in S PROVE n + 1 \in S
  <2> SUFFICES ASSUME n + 1 <= m PROVE f[n + 1] = g[n + 1]
    OBVIOUS
  <2>1. f[n] = g[n] /\ n + 1 \in 0 .. m /\ n + 1 # 0 /\ (n + 1) - 1 = n
    OBVIOUS
  <2> QED BY <2>1 DEF Begins
<1>3. S = Nat
  BY <1>1, <1>2, Induction
<1> QED BY <1>3

\* For every n there is a function that begins so.
LEMMA CapacityExists == \A n \in Nat : \E g \in [0 .. n -> Nat] : Begins(g, n)
<1> DEFINE S == {n \in Nat : \E g \in [0 .. n -> Nat] : Begins(g, n)}
<1>1. 0 \in S
  <2>1. [i \in 0 .. 0 |-> 0] \in [0 .. 0 -> Nat] /\ Begins([i \in 0 .. 0 |-> 0], 0)
    BY DEF Begins
  <2> QED BY <2>1
<1>2. ASSUME NEW n \in S PROVE n + 1 \in S
  <2>1. PICK g \in [0 .. n -> Nat] : Begins(g, n)
    OBVIOUS
  <2> DEFINE v == NextCapacity(g[n], n + 1)
             h == [i \in 0 .. (n + 1) |-> IF i = n + 1 THEN v ELSE g[i]]
  <2>2. g[n] \in Nat /\ v \in Nat
    BY DEF NextCapacity, Grown
  <2>3. h \in [0 .. (n + 1) -> Nat]
    BY <2>2
  <2>4. ASSUME NEW i \in 0 .. (n + 1)
        PROVE  h[i] = IF i = 0 THEN 0 ELSE NextCapacity(h[i - 1], i)
    <3>1. CASE i = n + 1
      <4>1. h[i] = v /\ i - 1 = n /\ h[i - 1] = g[n] /\ i # 0
        BY <3>1
      <4> QED BY <3>1, <4>1
    <3>2. CASE i = 0
      BY <2>1, <3>2 DEF Begins
    <3>3. CASE i # n + 1 /\ i # 0
      <4>1. i \in 0 .. n /\ i - 1 \in 0 .. n /\ i - 1 # n + 1
        BY <3>3
      <4> QED BY <2>1, <3>3, <4>1 DEF Begins
    <3> QED BY <3>1, <3>2, <3>3
  <2>5. Begins(h, n + 1)
    BY <2>4 DEF Begins
  <2> QED BY <2>3, <2>5
<1>3. S = Nat
  BY <1>1, <1>2, Induction
<1> QED BY <1>3

\* So the recursion that defines CapacityOf has a solution, and CapacityOf is it.
LEMMA CapacityDefined ==
  CapacityOf = [n \in Nat |-> IF n = 0 THEN 0 ELSE NextCapacity(CapacityOf[n - 1], n)]
<1> DEFINE G(n) == CHOOSE g \in [0 .. n -> Nat] : Begins(g, n)
           f == [n \in Nat |-> G(n)[n]]
<1>1. ASSUME NEW n \in Nat PROVE G(n) \in [0 .. n -> Nat] /\ Begins(G(n), n)
  BY CapacityExists
<1>2. ASSUME NEW n \in Nat PROVE f[n] = IF n = 0 THEN 0 ELSE NextCapacity(f[n - 1], n)
  <2>1. CASE n = 0
    <3>1. 0 \in 0 .. 0
      OBVIOUS
    <3> QED BY <1>1, <2>1, <3>1 DEF Begins
  <2>2. CASE n # 0
    <3>1. n - 1 \in Nat /\ n - 1 \in 0 .. (n - 1) /\ n - 1 \in 0 .. n /\ n \in 0 .. n
      BY <2>2
    <3>2. Begins(G(n), n - 1) /\ Begins(G(n - 1), n - 1)
      <4>1. Begins(G(n), n) /\ Begins(G(n - 1), n - 1)
        BY <1>1, <3>1
      <4>2. \A i \in 0 .. (n - 1) : i \in 0 .. n
        BY <3>1
      <4> HIDE DEF G
      <4> QED BY <4>1, <4>2 DEF Begins
    <3>3. G(n)[n - 1] = G(n - 1)[n - 1]
      <4> HIDE DEF G
      <4> QED BY <3>1, <3>2, CapacityUnique
    <3>4. G(n)[n] = NextCapacity(G(n)[n - 1], n)
      <4>1. Begins(G(n), n)
        BY <1>1
      <4> HIDE DEF G
      <4> QED BY <2>2, <3>1, <4>1 DEF Begins
    <3>5. f[n] = G(n)[n] /\ f[n - 1] = G(n - 1)[n - 1]
      BY <3>1
    <3> HIDE DEF f, G
    <3> QED BY <2>2, <3>3, <3>4, <3>5
  <2> QED BY <2>1, <2>2
<1>3. f = [n \in Nat |-> IF n = 0 THEN 0 ELSE NextCapacity(f[n - 1], n)]
  <2>1. f = [n \in Nat |-> f[n]]
    OBVIOUS
  <2> HIDE DEF f
  <2> QED BY <1>2, <2>1
<1>4. \E c : c = [n \in Nat |-> IF n = 0 THEN 0 ELSE NextCapacity(c[n - 1], n)]
  <2> HIDE DEF f
  <2> QED BY <1>3
<1> QED BY <1>4 DEF CapacityOf, NextCapacity

\* The capacity after n push_backs suffices for n.
LEMMA CapacitySuffices == \A n \in Nat : CapacityOf[n] \in Nat /\ CapacityOf[n] >= n
<1> DEFINE S == {n \in Nat : CapacityOf[n] \in Nat /\ CapacityOf[n] >= n}
<1>0. \A n \in Nat : CapacityOf[n] = IF n = 0 THEN 0 ELSE NextCapacity(CapacityOf[n - 1], n)
  BY CapacityDefined
<1>1. 0 \in S
  BY <1>0
<1>2. ASSUME NEW n \in S PROVE n + 1 \in S
  <2>1. CapacityOf[n + 1] = NextCapacity(CapacityOf[n], n + 1)
    BY <1>0
  <2> QED BY <2>1 DEF NextCapacity, Grown
<1>3. S = Nat
  BY <1>1, <1>2, Induction
<1> QED BY <1>3

\* The object that new takes is one of those that are free.
LEMMA MinIsElement ==
  ASSUME NEW S \in SUBSET Nat, S # {}
  PROVE  Min(S) \in S
BY LeastElement DEF Min

\* The first of some ports by name is one of them: names are totally ordered.
LEMMA FirstOfIsElement ==
  ASSUME NEW S \in SUBSET Ports, S # {}
  PROVE  FirstOf(S) \in S
<1>0. S \subseteq Nat /\ \A p \in S : SortKey(p) \in Nat
  BY ConfigAssumption DEF SortKey
<1> DEFINE keys == {SortKey(p) : p \in S}
<1>1. PICK k \in keys : \A n \in keys : k <= n
  <2>1. keys \in SUBSET Nat /\ keys # {}
    BY <1>0
  <2> QED BY <2>1, LeastElement
<1> DEFINE best == {p \in S : SortKey(p) = k}
<1>2. PICK p \in best : \A q \in best : p <= q
  <2>1. best \in SUBSET Nat /\ best # {}
    BY <1>0
  <2> QED BY <2>1, LeastElement
<1>3. \A q \in S \ {p} : Before(p, q)
  <2> SUFFICES ASSUME NEW q \in S \ {p} PROVE Before(p, q)
    OBVIOUS
  <2>1. /\ k \in Nat /\ SortKey(p) = k /\ SortKey(q) \in Nat /\ k <= SortKey(q)
        /\ p \in Nat /\ q \in Nat
    BY <1>0, <1>1
  <2>2. SortKey(q) = k => p <= q
    BY <1>2
  <2> QED BY <2>1, <2>2 DEF Before
<1>4. p \in S
  OBVIOUS
<1> QED BY <1>3, <1>4 DEF FirstOf

\* What the Edit dialog shows is a port of the system, or none.
LEMMA FindStringType == \A p : FindString(p) \in Ports \cup {0}
<1> SUFFICES ASSUME NEW p PROVE FindString(p) \in Ports \cup {0}
  OBVIOUS
<1> DEFINE found == {q \in Ports : BeginsWith(q, p)}
           after == found \ {FirstOf(Ports)}
           tried == IF after = {} THEN found ELSE after
<1>1. FindString(p) = IF p = 0 \/ found = {} THEN 0 ELSE FirstOf(tried)
  BY DEF FindString
<1>2. found # {} => tried \in SUBSET Ports /\ tried # {}
  OBVIOUS
<1> HIDE DEF found, tried
<1> QED BY <1>1, <1>2, FirstOfIsElement

\* readCfg reads lines up to the first that is not valid.
LEMMA ReadCfgValue ==
  ASSUME NEW L, NEW lines \in Seq(L)
  PROVE  \E n \in 0 .. Len(lines) :
           /\ ReadCfg(lines) = [i \in 1 .. n |-> SettingOf(lines[i])]
           /\ \A i \in 1 .. n : Valid(lines[i])
           /\ (\A i \in DOMAIN lines : Valid(lines[i])) => n = Len(lines)
<1> DEFINE bad == {i \in 1 .. Len(lines) : ~Valid(lines[i])}
           first == IF bad # {} THEN Min(bad) ELSE 0
           n == IF first = 0 THEN Len(lines) ELSE first - 1
<1>1. ReadCfg(lines) = [i \in 1 .. n |-> SettingOf(lines[i])]
  BY DEF ReadCfg, SelectInSeq
<1>2. bad \in SUBSET Nat /\ Len(lines) \in Nat
  OBVIOUS
<1>3. CASE bad = {}
  <2>1. n = Len(lines) /\ \A i \in 1 .. n : Valid(lines[i])
    BY <1>3
  <2> QED BY <1>1, <1>2, <2>1
<1>4. CASE bad # {}
  <2>1. PICK m \in bad : \A k \in bad : m <= k
    BY <1>2, <1>4, LeastElement
  <2>2. Min(bad) \in bad /\ \A k \in bad : Min(bad) <= k
    BY <2>1 DEF Min
  <2>3. first = Min(bad) /\ first # 0 /\ n = Min(bad) - 1 /\ n \in 0 .. Len(lines)
    BY <1>2, <1>4, <2>2
  <2>4. \A i \in 1 .. n : Valid(lines[i])
    BY <1>2, <2>2, <2>3
  <2>5. ~(\A i \in DOMAIN lines : Valid(lines[i]))
    BY <2>2
  <2> QED BY <1>1, <2>3, <2>4, <2>5
<1> QED BY <1>3, <1>4

\* erase moves what follows by one.
LEMMA RemoveAtValue ==
  ASSUME NEW S, NEW s \in Seq(S), NEW r \in 1 .. Len(s)
  PROVE  /\ RemoveAt(s, r) \in Seq(S)
         /\ Len(RemoveAt(s, r)) = Len(s) - 1
         /\ \A i \in 1 .. (r - 1) : RemoveAt(s, r)[i] = s[i]
         /\ \A i \in r .. (Len(s) - 1) : RemoveAt(s, r)[i] = s[i + 1]
<1> DEFINE a == SubSeq(s, 1, r - 1)
           b == SubSeq(s, r + 1, Len(s))
<1>0. Len(s) \in Nat /\ r \in Nat
  OBVIOUS
<1>1. a \in Seq(S) /\ Len(a) = r - 1 /\ \A i \in 1 .. (r - 1) : a[i] = s[i]
  OBVIOUS
<1>2. b \in Seq(S) /\ Len(b) = Len(s) - r /\ \A i \in 1 .. (Len(s) - r) : b[i] = s[r + i]
  OBVIOUS
<1>3. RemoveAt(s, r) = a \o b
  BY DEF RemoveAt
<1> HIDE DEF a, b
<1>4. /\ a \o b \in Seq(S)
      /\ Len(a \o b) = Len(s) - 1
      /\ \A i \in 1 .. Len(a \o b) : (a \o b)[i] = IF i <= Len(a) THEN a[i] ELSE b[i - Len(a)]
  <2>1. (r - 1) + (Len(s) - r) = Len(s) - 1
    BY <1>0
  <2>2. /\ a \o b \in Seq(S) /\ Len(a \o b) = Len(a) + Len(b)
        /\ \A i \in 1 .. Len(a) + Len(b) :
             (a \o b)[i] = IF i <= Len(a) THEN a[i] ELSE b[i - Len(a)]
    BY <1>1, <1>2, ConcatProperties
  <2>3. Len(a \o b) = Len(s) - 1
    BY <1>1, <1>2, <2>1, <2>2
  <2> QED BY <2>2, <2>3
<1>5. ASSUME NEW i \in 1 .. (r - 1) PROVE (a \o b)[i] = s[i]
  BY <1>0, <1>1, <1>4
<1>6. ASSUME NEW i \in r .. (Len(s) - 1) PROVE (a \o b)[i] = s[i + 1]
  <2>1. i - (r - 1) \in 1 .. (Len(s) - r) /\ r + (i - (r - 1)) = i + 1
    BY <1>0
  <2>2. (a \o b)[i] = b[i - (r - 1)]
    BY <1>0, <1>1, <1>4
  <2> QED BY <1>2, <2>1, <2>2
<1> QED BY <1>3, <1>4, <1>5, <1>6
=============================================================================
