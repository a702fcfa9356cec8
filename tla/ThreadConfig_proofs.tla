------------------------ MODULE ThreadConfig_proofs ------------------------
(***************************************************************************)
(* Proofs about ThreadConfig: for any number of objects and ports, threads *)
(* use handles that are open and what is freed is released.                *)
(***************************************************************************)
EXTENDS ThreadConfig, FiniteSetTheorems, TLAPS

-----------------------------------------------------------------------------
(* The three orders. *)

Resources == Handles \ Threads

\* The handles by name, and those that are not threads.
LEMMA HandleSets ==
  /\ Handles = {"events", "m_SockClientHandle", "m_overlappedRd", "m_overlappedWr",
                "m_hComPort", "m_ComPortRdHandle", "m_ComPortWrHandle"}
  /\ Resources = {"events", "m_overlappedRd", "m_overlappedWr", "m_hComPort"}
<1>1. /\ DOMAIN Created = 1..7
      /\ Created[1] = "events" /\ Created[2] = "m_SockClientHandle"
      /\ Created[3] = "m_overlappedRd" /\ Created[4] = "m_overlappedWr"
      /\ Created[5] = "m_hComPort" /\ Created[6] = "m_ComPortRdHandle"
      /\ Created[7] = "m_ComPortWrHandle"
  BY DEF Created
<1>2. \A i \in 1..7 : i = 1 \/ i = 2 \/ i = 3 \/ i = 4 \/ i = 5 \/ i = 6 \/ i = 7
  OBVIOUS
<1>3. Handles = {Created[i] : i \in 1..7}
  BY <1>1 DEF Handles, Range
<1>4. Handles = {"events", "m_SockClientHandle", "m_overlappedRd", "m_overlappedWr",
                "m_hComPort", "m_ComPortRdHandle", "m_ComPortWrHandle"}
  BY <1>1, <1>2, <1>3
<1> QED BY <1>4 DEF Resources, Threads

\* The constructor makes every handle once, the port fifth, and for each thread what it
\* uses first.
LEMMA CreatedOrder ==
  /\ Len(Created) = 7
  /\ \A i \in 1..7 : Created[i] \in Handles
  /\ \A i, j \in 1..7 : Created[i] = Created[j] => i = j
  /\ \A i \in 1..7 : Created[i] = "m_hComPort" <=> i = 5
  /\ \A h \in Handles : \E i \in 1..7 : h = Created[i]
  /\ \A t \in Threads : \A h \in Uses[t] : \A i, j \in 1..7 :
       Created[j] = t /\ Created[i] = h => i < j
BY HandleSets DEF Created, Threads, Uses

\* A constructor that fails undoes every handle once.
LEMMA UndoneOrder ==
  /\ Len(Undone) = 7
  /\ \A i \in 1..7 : Undone[i] \in Handles
  /\ \A i, j \in 1..7 : Undone[i] = Undone[j] => i = j
  /\ \A i \in 1..7 : Undone[i] = "m_hComPort" <=> i = 2
  /\ \A h \in Handles : \E i \in 1..7 : h = Undone[i]
BY HandleSets DEF Undone

\* The destructor closes every handle once, the three threads first.
LEMMA DestroyedOrder ==
  /\ Len(Destroyed) = 7
  /\ \A i \in 1..7 : Destroyed[i] \in Handles
  /\ \A i, j \in 1..7 : Destroyed[i] = Destroyed[j] => i = j
  /\ \A i \in 1..7 : Destroyed[i] = "m_hComPort" <=> i = 5
  /\ \A i \in 1..7 : Destroyed[i] \in Threads <=> i <= 3
  /\ \A h \in Handles : \E i \in 1..7 : h = Destroyed[i]
BY HandleSets DEF Destroyed, Threads

\* Threads have handles too, and use none of each other's.
LEMMA UsesResources ==
  /\ Threads \subseteq Handles
  /\ \A t \in Threads : Uses[t] \subseteq Resources
  /\ "m_hComPort" \in Resources /\ "m_hComPort" \notin Threads /\ "events" \in Handles
BY HandleSets DEF Uses, Threads

\* An object has three threads.
LEMMA ThreadCount == Cardinality(Threads) = 3
<1> DEFINE A == {"m_SockClientHandle"}
           B == A \cup {"m_ComPortRdHandle"}
           C == B \cup {"m_ComPortWrHandle"}
<1>1. IsFiniteSet(A) /\ Cardinality(A) = 1
  BY FS_Singleton
<1>2. IsFiniteSet(B) /\ Cardinality(B) = 2
  <2>1. "m_ComPortRdHandle" \notin A
    OBVIOUS
  <2> QED BY <1>1, <2>1, FS_AddElement
<1>3. Cardinality(C) = 3
  <2>1. "m_ComPortWrHandle" \notin B
    OBVIOUS
  <2> QED BY <1>2, <2>1, FS_AddElement
<1>4. Threads = C
  BY DEF Threads
<1> QED BY <1>3, <1>4

-----------------------------------------------------------------------------
(* The invariant. *)

\* The object of the call is allocated.
Placed == call # "none" => this \in exists /\ line >= 1

\* An object that is not in a call has all it needs.
Whole ==
  \A c \in exists : (call = "none" \/ this # c) => \A h \in Resources : member[c][h] = "open"

\* The constructor has made what comes before its line and nothing else.
Making ==
  call = "construct" =>
    /\ \A i \in 1 .. (line - 1) : member[this][Created[i]] = "open"
    /\ \A i \in line .. Len(Created) : Created[i] \notin running[this]
    /\ line <= 5 => com[this] = 0

\* It has undone what comes before its line.
Undoing ==
  call = "undo" =>
    /\ \A i \in 1 .. (line - 1) : /\ member[this][Undone[i]] # "open"
                                  /\ Undone[i] \in running[this] => terminated
    /\ line > 2 => com[this] = 0

\* The destructor has waited for, or closed, what comes before its line.
Destroying ==
  call = "destroy" =>
    /\ \A i \in 1 .. Len(Destroyed) : Destroyed[i] \in Resources =>
         member[this][Destroyed[i]] = IF i < line THEN "null" ELSE "open"
    /\ \A i \in 1 .. (line - 1) : Destroyed[i] \in running[this] => terminated
    /\ line > 5 => com[this] = 0

\* A thread that has outlived its object was terminated.
Outlived == \A c \in Configs \ exists : running[c] # {} => terminated

Objects == Placed /\ Whole /\ Making /\ Undoing /\ Destroying /\ Outlived

ConfigInv == ConfigTypeOK /\ AllReleased /\ Objects

-----------------------------------------------------------------------------

\* The invariant holds before the first object.
LEMMA ConfigInvInit == ConfigInit => ConfigInv
<1> SUFFICES ASSUME ConfigInit PROVE ConfigInv
  OBVIOUS
<1>1. terminated \in BOOLEAN /\ hung \in BOOLEAN /\ wild \in BOOLEAN
  BY Zenon DEF ConfigInit
<1>2. ConfigTypeOK
  BY <1>1, CreatedOrder DEF ConfigInit, ConfigTypeOK
<1>3. AllReleased
  BY DEF ConfigInit, AllReleased
<1>4. Objects
  BY DEF ConfigInit, Objects, Placed, Whole, Making, Undoing, Destroying, Outlived
<1> QED BY <1>2, <1>3, <1>4 DEF ConfigInv

\* The variables of ThreadConfig keep their types.
LEMMA ConfigTypeStep ==
  ASSUME ConfigTypeOK, Placed, ConfigNext
  PROVE  ConfigTypeOK'
<1> USE CreatedOrder, UndoneOrder, DestroyedOrder, UsesResources DEF ConfigTypeOK, Placed
<1>1. ASSUME NEW c \in Configs, Construct(c) PROVE ConfigTypeOK'
  BY <1>1 DEF Construct
<1>2. ASSUME NEW p \in Ports, Create(p) PROVE ConfigTypeOK'
  <2> DEFINE h == Created[line]
  <2>1. h \in Handles /\ this \in Configs
    BY <1>2 DEF Create
  <2>2. member' \in [Configs -> [Handles -> {"unset", "null", "open"}]]
    BY <1>2, <2>1 DEF Create
  <2>3. com' \in [Configs -> Ports \cup {0}] /\ running' \in [Configs -> SUBSET Threads]
    BY <1>2, <2>1 DEF Create
  <2> QED BY <1>2, <2>2, <2>3 DEF Create
<1>3. ASSUME NEW p \in Ports, CreateFails(p) PROVE ConfigTypeOK'
  <2> DEFINE h == Created[line]
  <2>1. h \in Handles /\ this \in Configs
    BY <1>3 DEF CreateFails
  <2>2. PICK v \in {"unset", "null", "open"} : member' = [member EXCEPT ![this][h] = v]
    <3>1. CASE h = "events"
      BY <1>3, <3>1 DEF CreateFails
    <3>2. CASE h # "events"
      BY <1>3, <3>2 DEF CreateFails
    <3> QED BY <3>1, <3>2
  <2>4. member' \in [Configs -> [Handles -> {"unset", "null", "open"}]]
    BY <2>1, <2>2
  <2>3. com' \in [Configs -> Ports \cup {0}]
    BY <1>3, <2>1 DEF CreateFails
  <2> QED BY <1>3, <2>3, <2>4 DEF CreateFails
<1>4. CASE Constructed
  BY <1>4 DEF Constructed
<1>5. CASE Undo
  <2> DEFINE h == Undone[line]
  <2>1. h \in Handles /\ this \in Configs
    BY <1>5 DEF Undo
  <2>2. /\ member' \in [Configs -> [Handles -> {"unset", "null", "open"}]]
        /\ com' \in [Configs -> Ports \cup {0}]
    BY <1>5, <2>1 DEF Undo, CloseHandle
  <2>3. running' \in [Configs -> SUBSET Threads]
    BY <1>5, <2>1 DEF Undo
  <2>4. terminated' \in BOOLEAN
    BY <1>5, Zenon DEF Undo
  <2>5. wild' \in BOOLEAN
    BY <1>5 DEF Undo
  <2> QED BY <1>5, <2>2, <2>3, <2>4, <2>5 DEF Undo
<1>6. CASE Free
  <2>1. wild' \in BOOLEAN
    BY <1>6, Zenon DEF Free
  <2> QED BY <1>6, <2>1 DEF Free
<1>7. ASSUME NEW c \in Configs, Destroy(c) PROVE ConfigTypeOK'
  BY <1>7 DEF Destroy
<1>8. CASE DestroyStep
  <2> DEFINE h == Destroyed[line]
  <2>1. h \in Handles /\ this \in Configs
    BY <1>8 DEF DestroyStep
  <2>2. CASE h \in Threads
    <3>1. WaitToCloseThread(h)
      BY <1>8, <2>2 DEF DestroyStep
    <3>2. member' \in [Configs -> [Handles -> {"unset", "null", "open"}]] /\ com' = com
      BY <2>1, <3>1 DEF WaitToCloseThread
    <3>3. running' \in {running, [running EXCEPT ![this] = @ \ {h}]}
      BY <3>1 DEF WaitToCloseThread
    <3>4. running' \in [Configs -> SUBSET Threads]
      BY <2>1, <3>3
    <3>5. terminated' \in BOOLEAN
      BY <3>1 DEF WaitToCloseThread
    <3> QED BY <1>8, <3>2, <3>4, <3>5 DEF DestroyStep
  <2>3. CASE h \notin Threads
    <3>1. CloseHandle(h) /\ UNCHANGED <<running, terminated>>
      BY <1>8, <2>3 DEF DestroyStep
    <3>2. /\ member' \in [Configs -> [Handles -> {"unset", "null", "open"}]]
          /\ com' \in [Configs -> Ports \cup {0}]
      BY <2>1, <3>1 DEF CloseHandle
    <3> QED BY <1>8, <3>1, <3>2 DEF DestroyStep
  <2> QED BY <2>2, <2>3
<1>9. ASSUME NEW c \in Configs, NEW t \in Threads, Returns(c, t) PROVE ConfigTypeOK'
  BY <1>9 DEF Returns
<1>10. CASE Corrupt
  BY <1>10 DEF Corrupt
<1>11. CASE Hang
  <2>1. hung' \in BOOLEAN
    BY <1>11, Zenon DEF Hang
  <2> QED BY <1>11, <2>1 DEF Hang
<1> QED BY <1>1, <1>2, <1>3, <1>4, <1>5, <1>6, <1>7, <1>8, <1>9, <1>10, <1>11
        DEF ConfigNext, CallerStep, ConstructorStep, Thrown, Deleted

-----------------------------------------------------------------------------
(* The steps. *)

\* new: an object whose members are all unset, and no thread to use them.
LEMMA ConstructKeeps ==
  ASSUME ConfigInv, ~wild, NEW c \in Configs, Construct(c)
  PROVE  (AllReleased /\ Objects)'
<1>1. c \notin exists /\ c \in exists' /\ exists' = exists \cup {c} /\ this' = c
      /\ line' = 1 /\ call' = "construct" /\ call = "none" /\ com' = com /\ running' = running
  BY DEF Construct
<1>2. \A d \in Configs \ {c} : member'[d] = member[d]
  BY DEF Construct, ConfigInv, ConfigTypeOK
<1>3. AllReleased' /\ Outlived'
  BY <1>1, <1>2 DEF ConfigInv, AllReleased, Objects, Outlived, Construct
<1>4. Whole'
  BY <1>1, <1>2 DEF ConfigInv, ConfigTypeOK, Objects, Whole
<1>5. Making'
  <2>1. running[c] = {} /\ com[c] = 0
    BY <1>1 DEF ConfigInv, AllReleased
  <2> QED BY <1>1, <2>1 DEF Making
<1>6. Placed' /\ Undoing' /\ Destroying'
  BY <1>1 DEF Placed, Undoing, Destroying
<1> QED BY <1>3, <1>4, <1>5, <1>6 DEF Objects

\* A step of the constructor that succeeds: a thread finds all it uses made.
LEMMA CreateKeeps ==
  ASSUME ConfigInv, NEW p \in Ports, Create(p)
  PROVE  (AllReleased /\ Objects)'
<1> DEFINE h == Created[line]
<1>1. /\ this \in exists /\ this \in Configs /\ line \in 1..7 /\ h \in Handles
      /\ exists' = exists /\ this' = this /\ call = "construct" /\ call' = call
      /\ line' = line + 1 /\ UNCHANGED <<terminated, wild>>
  BY CreatedOrder DEF Create, ConfigInv, ConfigTypeOK, Objects, Placed
<1>2. /\ \A d \in Configs \ {this} : /\ member'[d] = member[d] /\ com'[d] = com[d]
                                     /\ running'[d] = running[d]
      /\ \A g \in Handles : member'[this][g] = IF g = h THEN "open" ELSE member[this][g]
      /\ com'[this] = IF line = 5 THEN p ELSE com[this]
      /\ running'[this] \subseteq running[this] \cup {h}
  BY <1>1, CreatedOrder DEF Create, ConfigInv, ConfigTypeOK
<1>3. AllReleased' /\ Outlived'
  BY <1>1, <1>2 DEF ConfigInv, AllReleased, Objects, Outlived
<1>4. Whole'
  BY <1>1, <1>2 DEF ConfigInv, ConfigTypeOK, Objects, Whole
<1>5. Making'
  <2>1. Making /\ Len(Created) = 7
    BY CreatedOrder DEF ConfigInv, Objects
  <2>2. \A i \in 1..line : member'[this][Created[i]] = "open"
    BY <1>1, <1>2, <2>1, CreatedOrder DEF Making
  <2>3. \A i \in (line + 1)..7 : Created[i] \notin running'[this]
    BY <1>1, <1>2, <2>1, CreatedOrder DEF Making
  <2>4. line + 1 <= 5 => com'[this] = 0
    BY <1>1, <1>2, <2>1 DEF Making
  <2> QED BY <1>1, <2>1, <2>2, <2>3, <2>4 DEF Making
<1>6. Placed' /\ Undoing' /\ Destroying'
  BY <1>1 DEF Placed, Undoing, Destroying
<1> QED BY <1>3, <1>4, <1>5, <1>6 DEF Objects

\* A step of it that fails leaves everything to undo.
LEMMA CreateFailsKeeps ==
  ASSUME ConfigInv, NEW p \in Ports, CreateFails(p)
  PROVE  (AllReleased /\ Objects)'
<1>1. /\ this \in exists /\ this \in Configs /\ exists' = exists /\ this' = this
      /\ call = "construct" /\ call' = "undo" /\ line' = 1
      /\ UNCHANGED <<running, terminated, wild>>
  BY DEF CreateFails, ConfigInv, ConfigTypeOK, Objects, Placed
<1>2. \A d \in Configs \ {this} : member'[d] = member[d] /\ com'[d] = com[d]
  BY <1>1 DEF CreateFails, ConfigInv, ConfigTypeOK
<1>3. AllReleased' /\ Outlived'
  BY <1>1, <1>2 DEF ConfigInv, AllReleased, Objects, Outlived
<1>4. Whole'
  BY <1>1, <1>2 DEF ConfigInv, ConfigTypeOK, Objects, Whole
<1>5. Placed' /\ Making' /\ Undoing' /\ Destroying'
  BY <1>1 DEF Placed, Making, Undoing, Destroying
<1> QED BY <1>3, <1>4, <1>5 DEF Objects

\* A constructor that returns leaves an object that is whole.
LEMMA ConstructedKeeps ==
  ASSUME ConfigInv, Constructed
  PROVE  (AllReleased /\ Objects)'
<1>1. /\ this \in exists /\ exists' = exists /\ call = "construct" /\ call' = "none" /\ line > 7
      /\ UNCHANGED <<member, com, running, terminated, wild>>
  BY CreatedOrder DEF Constructed, ConfigInv, Objects, Placed
<1>2. \A h \in Handles : member[this][h] = "open"
  <2>1. \A i \in 1..7 : member[this][Created[i]] = "open"
    BY <1>1 DEF ConfigInv, ConfigTypeOK, Objects, Making
  <2> QED BY <2>1, CreatedOrder
<1>3. Whole'
  BY <1>1, <1>2 DEF ConfigInv, Objects, Whole, Resources
<1>4. AllReleased' /\ Outlived'
  BY <1>1 DEF ConfigInv, AllReleased, Objects, Outlived
<1>5. Placed' /\ Making' /\ Undoing' /\ Destroying'
  BY <1>1 DEF Placed, Making, Undoing, Destroying
<1> QED BY <1>3, <1>4, <1>5 DEF Objects

\* The undoing passes over no handle and terminates each thread it meets.
LEMMA UndoKeeps ==
  ASSUME ConfigInv, ~wild, Undo
  PROVE  (AllReleased /\ Objects)'
<1> DEFINE h == Undone[line]
<1>1. /\ this \in exists /\ this \in Configs /\ line \in 1..7 /\ h \in Handles
      /\ exists' = exists /\ this' = this /\ call = "undo" /\ call' = call
      /\ line' = line + 1 /\ terminated' = (terminated \/ h \in running[this])
  BY UndoneOrder DEF Undo, ConfigInv, ConfigTypeOK, Objects, Placed
<1>2. /\ \A d \in Configs \ {this} : /\ member'[d] = member[d] /\ com'[d] = com[d]
                                     /\ running'[d] = running[d]
      /\ \A g \in Handles : member'[this][g] = IF g = h THEN "null" ELSE member[this][g]
      /\ com'[this] = IF line = 2 THEN 0 ELSE com[this]
      /\ running'[this] \subseteq running[this]
  BY <1>1, UndoneOrder DEF Undo, CloseHandle, ConfigInv, ConfigTypeOK
<1>3. AllReleased' /\ Outlived'
  BY <1>1, <1>2 DEF ConfigInv, AllReleased, Objects, Outlived
<1>4. Whole'
  BY <1>1, <1>2 DEF ConfigInv, ConfigTypeOK, Objects, Whole
<1>5. Undoing'
  <2>1. Undoing
    BY DEF ConfigInv, Objects
  <2>2. ASSUME NEW i \in 1..line
        PROVE  /\ member'[this][Undone[i]] # "open"
               /\ Undone[i] \in running'[this] => terminated'
    <3>1. CASE i = line
      BY <1>1, <1>2, <3>1
    <3>2. CASE i # line
      <4>1. i \in 1 .. (line - 1) /\ Undone[i] # h /\ Undone[i] \in Handles
        BY <1>1, <3>2, UndoneOrder
      <4>2. member[this][Undone[i]] # "open" /\ (Undone[i] \in running[this] => terminated)
        BY <1>1, <2>1, <4>1 DEF Undoing
      <4>3. terminated => terminated'
        BY <1>1, Zenon
      <4> QED BY <1>2, <4>1, <4>2, <4>3
    <3> QED BY <3>1, <3>2
  <2>3. line + 1 > 2 => com'[this] = 0
    BY <1>1, <1>2, <2>1 DEF Undoing
  <2> QED BY <1>1, <2>2, <2>3 DEF Undoing
<1>6. Placed' /\ Making' /\ Destroying'
  BY <1>1 DEF Placed, Making, Destroying
<1> QED BY <1>3, <1>4, <1>5, <1>6 DEF Objects

\* What is freed has no event and no port open, and no thread that was not terminated.
LEMMA FreeKeeps ==
  ASSUME ConfigInv, ~wild, call # "none", this \in Configs, Free,
         \A h \in Resources : member[this][h] # "open",
         com[this] = 0, running[this] # {} => terminated
  PROVE  (AllReleased /\ Objects)'
<1>1. /\ exists' = exists \ {this} /\ call' = "none"
      /\ wild' = (wild \/ running[this] # {}) /\ UNCHANGED <<member, com, running, terminated>>
  BY DEF Free
<1>2. AllReleased' /\ Outlived'
  BY <1>1 DEF ConfigInv, AllReleased, Objects, Outlived, Resources
<1>3. Whole'
  BY <1>1 DEF ConfigInv, Objects, Whole
<1>4. Placed' /\ Making' /\ Undoing' /\ Destroying'
  BY <1>1 DEF Placed, Making, Undoing, Destroying
<1> QED BY <1>2, <1>3, <1>4 DEF Objects

\* All is undone when the exception leaves the constructor.
LEMMA ThrownKeeps ==
  ASSUME ConfigInv, ~wild, Thrown
  PROVE  (AllReleased /\ Objects)'
<1>1. call = "undo" /\ line > 7 /\ Free /\ this \in Configs
  BY UndoneOrder DEF Thrown, ConfigInv, ConfigTypeOK, Objects, Placed
<1>2. (\A i \in 1..7 : member[this][Undone[i]] # "open") /\ com[this] = 0
  BY <1>1 DEF ConfigInv, ConfigTypeOK, Objects, Undoing
<1>3. \A h \in Resources : member[this][h] # "open"
  BY <1>2, UndoneOrder DEF Resources
<1>4. running[this] # {} => terminated
  <2>1. \A i \in 1..7 : Undone[i] \in running[this] => terminated
    BY <1>1 DEF ConfigInv, ConfigTypeOK, Objects, Undoing
  <2>2. running[this] \subseteq Handles
    BY <1>1, UsesResources DEF ConfigInv, ConfigTypeOK
  <2> QED BY <2>1, <2>2, UndoneOrder
<1> QED BY <1>1, <1>2, <1>3, <1>4, FreeKeeps

\* The destructor begins with an object that is whole.
LEMMA DestroyKeeps ==
  ASSUME ConfigInv, NEW c \in Configs, Destroy(c)
  PROVE  (AllReleased /\ Objects)'
<1>1. /\ c \in exists /\ exists' = exists /\ this' = c /\ line' = 1 /\ call = "none"
      /\ call' = "destroy" /\ UNCHANGED <<member, com, running, wild>>
  BY DEF Destroy
<1>2. \A d \in exists : \A h \in Resources : member[d][h] = "open"
  BY <1>1 DEF ConfigInv, Objects, Whole
<1>3. Destroying'
  BY <1>1, <1>2, DestroyedOrder DEF Destroying
<1>4. AllReleased' /\ Outlived' /\ Whole'
  BY <1>1, <1>2 DEF ConfigInv, AllReleased, Objects, Outlived, Whole, Destroy
<1>5. Placed' /\ Making' /\ Undoing'
  BY <1>1 DEF Placed, Making, Undoing
<1> QED BY <1>3, <1>4, <1>5 DEF Objects

\* It closes nothing a thread uses that was not terminated.
LEMMA DestroyStepKeeps ==
  ASSUME ConfigInv, DestroyStep
  PROVE  (AllReleased /\ Objects)'
<1> DEFINE h == Destroyed[line]
<1>1. /\ this \in exists /\ this \in Configs /\ line \in 1..7 /\ h \in Handles
      /\ exists' = exists /\ this' = this /\ call = "destroy" /\ call' = call
      /\ line' = line + 1 /\ wild' = wild
  BY DestroyedOrder DEF DestroyStep, ConfigInv, ConfigTypeOK, Objects, Placed
<1>2. /\ \A d \in Configs \ {this} : /\ member'[d] = member[d] /\ com'[d] = com[d]
                                     /\ running'[d] = running[d]
      /\ \A g \in Handles : member'[this][g] = IF g = h THEN "null" ELSE member[this][g]
      /\ com'[this] = IF line = 5 THEN 0 ELSE com[this]
      /\ running'[this] \subseteq running[this]
      /\ terminated => terminated'
      /\ h \in running'[this] => terminated'
  <2>1. CASE h \in Threads
    <3>1. WaitToCloseThread(h) /\ line # 5
      BY <1>1, <2>1, DestroyedOrder DEF DestroyStep
    <3>2. \/ h \notin running[this] /\ UNCHANGED <<running, terminated>>
          \/ terminated' /\ running' \in {running, [running EXCEPT ![this] = @ \ {h}]}
      BY <3>1, Zenon DEF WaitToCloseThread
    <3>3. member' = [member EXCEPT ![this][h] = "null"] /\ com' = com
      BY <3>1 DEF WaitToCloseThread
    <3> QED BY <1>1, <3>1, <3>2, <3>3 DEF ConfigInv, ConfigTypeOK
  <2>2. CASE h \notin Threads
    BY <1>1, <2>2, DestroyedOrder DEF DestroyStep, CloseHandle, ConfigInv, ConfigTypeOK
  <2> QED BY <2>1, <2>2
<1>3. AllReleased' /\ Outlived'
  BY <1>1, <1>2 DEF ConfigInv, AllReleased, Objects, Outlived
<1>4. Whole'
  BY <1>1, <1>2 DEF ConfigInv, ConfigTypeOK, Objects, Whole
<1>5. Destroying'
  <2>1. Destroying /\ Len(Destroyed) = 7
    BY DestroyedOrder DEF ConfigInv, Objects
  <2>2. ASSUME NEW i \in 1..7, Destroyed[i] \in Resources
        PROVE  member'[this][Destroyed[i]] = IF i < line + 1 THEN "null" ELSE "open"
    <3>1. CASE i = line
      BY <1>1, <1>2, <3>1
    <3>2. CASE i # line
      BY <1>1, <1>2, <2>1, <2>2, <3>2, DestroyedOrder DEF Destroying
    <3> QED BY <3>1, <3>2
  <2>3. ASSUME NEW i \in 1..line PROVE Destroyed[i] \in running'[this] => terminated'
    <3>1. CASE i = line
      BY <1>2, <3>1
    <3>2. CASE i # line
      BY <1>1, <1>2, <2>1, <3>2 DEF Destroying
    <3> QED BY <3>1, <3>2
  <2>4. line + 1 > 5 => com'[this] = 0
    BY <1>1, <1>2, <2>1 DEF Destroying
  <2> QED BY <1>1, <2>1, <2>2, <2>3, <2>4 DEF Destroying
<1>6. Placed' /\ Making' /\ Undoing'
  BY <1>1 DEF Placed, Making, Undoing
<1> QED BY <1>3, <1>4, <1>5, <1>6 DEF Objects

\* All is closed when the destructor returns.
LEMMA DeletedKeeps ==
  ASSUME ConfigInv, ~wild, Deleted
  PROVE  (AllReleased /\ Objects)'
<1>1. call = "destroy" /\ line > 7 /\ line \in Nat /\ Free /\ this \in Configs
  BY DestroyedOrder DEF Deleted, ConfigInv, ConfigTypeOK, Objects, Placed
<1>2. com[this] = 0
  BY <1>1 DEF ConfigInv, ConfigTypeOK, Objects, Destroying
<1>3. \A h \in Resources : member[this][h] # "open"
  <2>1. ASSUME NEW i \in 1..7, Destroyed[i] \in Resources
        PROVE  member[this][Destroyed[i]] = "null"
    BY <1>1, <2>1, DestroyedOrder DEF ConfigInv, Objects, Destroying
  <2> QED BY <2>1, DestroyedOrder DEF Resources
<1>4. running[this] # {} => terminated
  <2>1. \A i \in 1..7 : Destroyed[i] \in running[this] => terminated
    BY <1>1 DEF ConfigInv, ConfigTypeOK, Objects, Destroying
  <2>2. running[this] \subseteq Handles
    BY <1>1, UsesResources DEF ConfigInv, ConfigTypeOK
  <2> QED BY <2>1, <2>2, DestroyedOrder
<1> QED BY <1>1, <1>2, <1>3, <1>4, FreeKeeps

\* A thread that returns takes nothing away from another.
LEMMA ReturnsKeeps ==
  ASSUME ConfigInv, NEW c \in Configs, NEW t \in Threads, Returns(c, t)
  PROVE  (AllReleased /\ Objects)'
<1>1. /\ UNCHANGED <<call, this, line, exists, member, com, terminated, wild>>
      /\ \A d \in Configs : running'[d] \subseteq running[d]
  BY DEF Returns, ConfigInv, ConfigTypeOK
<1>2. AllReleased' /\ Outlived'
  BY <1>1 DEF ConfigInv, AllReleased, Objects, Outlived
<1>3. this \in Configs \/ call = "none"
  BY DEF ConfigInv, ConfigTypeOK, Objects, Placed
<1>4. Making' /\ Undoing' /\ Destroying'
  BY <1>1, <1>3 DEF ConfigInv, Objects, Making, Undoing, Destroying
<1>5. Placed' /\ Whole'
  BY <1>1 DEF ConfigInv, Objects, Placed, Whole
<1> QED BY <1>2, <1>4, <1>5 DEF Objects

\* Undefined behaviour leaves, as far as the model goes, the objects alone.
LEMMA CorruptKeeps ==
  ASSUME ConfigInv, Corrupt
  PROVE  (AllReleased /\ Objects)'
BY DEF ConfigInv, AllReleased, Objects, Placed, Whole, Making, Undoing, Destroying,
       Outlived, Corrupt

\* A caller that hangs leaves everything as it is.
LEMMA HangKeeps ==
  ASSUME ConfigInv, Hang
  PROVE  (AllReleased /\ Objects)'
BY DEF ConfigInv, AllReleased, Objects, Placed, Whole, Making, Undoing, Destroying,
       Outlived, Hang

\* Every step keeps the invariant.
LEMMA ConfigInvStep ==
  ASSUME ConfigInv, [ConfigNext]_configVars
  PROVE  ConfigInv'
<1>1. CASE UNCHANGED configVars
  BY <1>1 DEF configVars, ConfigInv, ConfigTypeOK, AllReleased, Objects, Placed, Whole,
              Making, Undoing, Destroying, Outlived
<1>2. CASE ConfigNext
  <2>1. ConfigTypeOK'
    BY <1>2, ConfigTypeStep DEF ConfigInv, Objects
  <2>2. (AllReleased /\ Objects)'
    BY <1>2, ConstructKeeps, CreateKeeps, CreateFailsKeeps, ConstructedKeeps, UndoKeeps,
       ThrownKeeps, DestroyKeeps, DestroyStepKeeps, DeletedKeeps, ReturnsKeeps, CorruptKeeps,
       HangKeeps
       DEF ConfigNext, CallerStep, ConstructorStep
  <2> QED BY <2>1, <2>2 DEF ConfigInv
<1> QED BY <1>1, <1>2

-----------------------------------------------------------------------------
(* The theorems. *)

\* In a call of the destructor the threads use open handles until all were waited for.
LEMMA ConfigInvUses == ConfigInv => UsesOpenHandles
<1> SUFFICES ASSUME ConfigInv, NEW c \in exists, NEW t \in running[c],
                    ~(call = "undo" /\ this = c),
                    ~(Closing(c) /\ line > Cardinality(Threads) /\ terminated),
                    NEW h \in Uses[t]
             PROVE  member[c][h] = "open"
  BY DEF UsesOpenHandles
<1>1. c \in Configs /\ t \in Threads /\ h \in Resources /\ h \in Handles
  BY UsesResources DEF ConfigInv, ConfigTypeOK, Resources
<1>2. CASE call = "none" \/ this # c
  BY <1>1, <1>2 DEF ConfigInv, Objects, Whole
<1>3. CASE call = "construct" /\ this = c
  <2>1. PICK j \in 1..7 : t = Created[j]
    BY <1>1, UsesResources, CreatedOrder
  <2>2. PICK i \in 1..7 : h = Created[i]
    BY <1>1, CreatedOrder
  <2>3. i < j
    BY <1>1, <2>1, <2>2, CreatedOrder
  <2>4. j < line
    BY <1>3, <2>1, CreatedOrder DEF ConfigInv, ConfigTypeOK, Objects, Making
  <2> QED BY <1>3, <2>2, <2>3, <2>4 DEF ConfigInv, ConfigTypeOK, Objects, Making
<1>4. CASE call = "destroy" /\ this = c
  <2>1. PICK i \in 1..7 : h = Destroyed[i]
    BY <1>1, DestroyedOrder
  <2>2. i > 3
    BY <1>1, <2>1, DestroyedOrder DEF Resources
  <2>3. PICK j \in 1..7 : t = Destroyed[j] /\ j <= 3
    BY <1>1, DestroyedOrder, UsesResources
  <2>4. line \in Nat /\ ~(line > 3 /\ terminated)
    BY <1>4, ThreadCount DEF Closing, ConfigInv, ConfigTypeOK
  <2>5. line <= 3
    BY <1>4, <2>3, <2>4 DEF ConfigInv, Objects, Destroying
  <2> QED BY <1>1, <1>4, <2>1, <2>2, <2>4, <2>5, DestroyedOrder DEF ConfigInv, Objects,
             Destroying
<1> QED BY <1>2, <1>3, <1>4 DEF ConfigInv, ConfigTypeOK

\* ConfigInv is an invariant of whatever caller makes and deletes objects.
THEOREM ConfigInvariant == ConfigSpec => []ConfigInv
BY ConfigInvInit, ConfigInvStep, PTL DEF ConfigSpec

\* The variables keep their types.
THEOREM ConfigTypes == ConfigSpec => []ConfigTypeOK
<1>1. ConfigInv => ConfigTypeOK
  BY DEF ConfigInv
<1> QED BY <1>1, ConfigInvariant, PTL

\* No thread ever waits on, reads or writes a handle that is not open, except where a
\* constructor has failed or TerminateThread had no effect.
THEOREM ConfigUsesOpenHandles == ConfigSpec => []UsesOpenHandles
BY ConfigInvUses, ConfigInvariant, PTL

\* What a constructor or a destructor has freed has left no event and no port open, and no
\* thread unless that is the end of it all.
THEOREM ConfigAllReleased == ConfigSpec => []AllReleased
<1>1. ConfigInv => AllReleased
  BY DEF ConfigInv
<1> QED BY <1>1, ConfigInvariant, PTL
=============================================================================
