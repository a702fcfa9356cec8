---------------------------- MODULE ThreadConfig ----------------------------
(***************************************************************************)
(* The life of the CThreadConfig objects: the constructor, which undoes    *)
(* what it has done when a step fails, the destructor, which waits for the *)
(* three threads and terminates those that do not end, and the threads,    *)
(* seen from outside (Source/CThreadConfig.cpp).                           *)
(*                                                                         *)
(* Windows is modelled from how this code uses it.  The six events, made   *)
(* first and closed together, count as one member.                         *)
(***************************************************************************)
EXTENDS Integers, Sequences, FiniteSets, Functions

CONSTANTS Configs,   \* places for objects: what bounds their number
          Ports      \* COM ports, by number

ASSUME ConfigAssumption == Configs \subseteq Nat \ {0} /\ Ports \subseteq Nat \ {0}

VARIABLES
  call,      \* "none" or where the dialog's thread is: "construct", "undo", "destroy"
  this,      \* the object of the call
  line,      \* how far the call has come
  exists,    \* the objects whose memory is allocated
  member,    \* per object and handle: "unset" memory, "null" or "open"
  com,       \* per object: the COM port whose handle it has open, or 0
  running,   \* per object: the threads that run, named by their handles
  terminated,  \* history: TerminateThread has been called
  hung,      \* the dialog's thread waits for ever for a lock of a terminated thread
  wild       \* undefined behaviour has happened, and nothing is known any more

configVars == <<call, this, line, exists, member, com, running, terminated, hung, wild>>

Threads == {"m_SockClientHandle", "m_ComPortRdHandle", "m_ComPortWrHandle"}

\* The order in which the constructor makes its handles,
Created == <<"events", "m_SockClientHandle", "m_overlappedRd", "m_overlappedWr",
             "m_hComPort", "m_ComPortRdHandle", "m_ComPortWrHandle">>

\* in which it undoes that,
Undone == <<"events", "m_hComPort", "m_overlappedRd", "m_overlappedWr",
            "m_SockClientHandle", "m_ComPortRdHandle", "m_ComPortWrHandle">>

\* Mutant: the events are closed before the threads have ended.
BadDestroyed == <<"events", "m_SockClientHandle", "m_ComPortRdHandle", "m_ComPortWrHandle",
                  "m_hComPort", "m_overlappedRd", "m_overlappedWr">>

\* and that of the destructor.
Destroyed == <<"m_SockClientHandle", "m_ComPortRdHandle", "m_ComPortWrHandle", "events",
               "m_hComPort", "m_overlappedRd", "m_overlappedWr">>

Handles == Range(Created)

\* What each thread passes to Windows.
Uses == [m_SockClientHandle |-> {"events"},
         m_ComPortRdHandle  |-> {"events", "m_overlappedRd", "m_hComPort"},
         m_ComPortWrHandle  |-> {"events", "m_overlappedWr", "m_hComPort"}]

ConfigInit ==
  /\ call = "none" /\ this = 0 /\ line = 0
  /\ exists = {}
  /\ member = [c \in Configs |-> [h \in Handles |-> "null"]]
  /\ com = [c \in Configs |-> 0]
  /\ running = [c \in Configs |-> {}]
  /\ terminated = FALSE
  /\ hung = FALSE
  /\ wild = FALSE

-----------------------------------------------------------------------------
(* The constructor. *)

\* The memory comes from new and is not initialized.
Construct(c) ==
  /\ call = "none"
  /\ c \notin exists
  /\ call' = "construct" /\ this' = c /\ line' = 1
  /\ exists' = exists \cup {c}
  /\ member' = [member EXCEPT ![c] = [h \in Handles |-> "unset"]]
  /\ UNCHANGED <<com, running, terminated, hung, wild>>

\* createEvent, CreateThread, createOverlappedEvent, comPortOpen(p).
Create(p) ==
  /\ call = "construct" /\ line <= Len(Created)
  /\ LET h == Created[line]
     IN  /\ member' = [member EXCEPT ![this][h] = "open"]
         /\ com' = IF h = "m_hComPort" THEN [com EXCEPT ![this] = p] ELSE com
         /\ running' = IF h \in Threads THEN [running EXCEPT ![this] = @ \cup {h}] ELSE running
  /\ line' = line + 1
  /\ UNCHANGED <<call, this, exists, terminated, hung, wild>>

\* A step fails and the rest is skipped.  Events after the one that failed are not
\* set.  A port whose state cannot be set stays open until it is undone.  The
\* INVALID_HANDLE_VALUE of a port that cannot be opened counts as "null": to close
\* it does nothing.
CreateFails(p) ==
  /\ call = "construct" /\ line <= Len(Created)
  /\ LET h == Created[line]
     IN  \/ /\ member' = [member EXCEPT ![this][h] = IF h = "events" THEN "unset" ELSE "null"]
            /\ com' = com
         \/ /\ h = "m_hComPort"
            /\ member' = [member EXCEPT ![this][h] = "open"]
            /\ com' = [com EXCEPT ![this] = p]
  /\ call' = "undo" /\ line' = 1
  /\ UNCHANGED <<this, exists, running, terminated, hung, wild>>

\* The constructor returns.
Constructed ==
  /\ call = "construct" /\ line > Len(Created)
  /\ call' = "none" /\ this' = 0 /\ line' = 0
  /\ UNCHANGED <<exists, member, com, running, terminated, hung, wild>>

\* closeHandle(h): CloseHandle unless it is NULL.
CloseHandle(h) ==
  /\ member' = [member EXCEPT ![this][h] = "null"]
  /\ com' = IF h = "m_hComPort" THEN [com EXCEPT ![this] = 0] ELSE com

\* Mutant: the constructor forgets the COM port when it undoes its work.
BadUndo ==
  /\ call = "undo" /\ line <= Len(Undone)
  /\ LET h == Undone[line]
     IN  /\ IF h = "m_hComPort" THEN UNCHANGED <<member, com>> ELSE CloseHandle(h)
         /\ running' = [running EXCEPT ![this] = @ \ {h}]
         /\ terminated' = (terminated \/ h \in running[this])
  /\ line' = line + 1
  /\ UNCHANGED <<call, this, exists, hung, wild>>

\* closeHandle and terminateThread.  TerminateThread returns before the thread has
\* ended, if it ends at all.  A member never set may be the handle of anything.
\* The log entry that follows may never be written: see Hang.
Undo ==
  /\ call = "undo" /\ line <= Len(Undone)
  /\ LET h == Undone[line]
     IN  /\ CloseHandle(h)
         /\ \/ running' = [running EXCEPT ![this] = @ \ {h}]
            \/ h \in running[this] /\ UNCHANGED running
         /\ terminated' = (terminated \/ h \in running[this])
         /\ \/ UNCHANGED wild
            \/ member[this][h] = "unset" /\ wild' = TRUE
  /\ line' = line + 1
  /\ UNCHANGED <<call, this, exists, hung>>

\* The memory is freed.  A thread that still runs will use it all the same.
Free ==
  /\ call' = "none" /\ this' = 0 /\ line' = 0
  /\ exists' = exists \ {this}
  /\ wild' = (wild \/ running[this] # {})
  /\ UNCHANGED <<member, com, running, terminated, hung>>

\* The exception leaves the constructor, and new frees the memory.
Thrown == call = "undo" /\ line > Len(Undone) /\ Free

-----------------------------------------------------------------------------
(* The destructor. *)

\* SetEvent(m_CloseEvent).
Destroy(c) ==
  /\ call = "none"
  /\ c \in exists
  /\ call' = "destroy" /\ this' = c /\ line' = 1
  /\ UNCHANGED <<exists, member, com, running, terminated, hung, wild>>

\* The object's m_CloseEvent is set.
Closing(c) == call = "destroy" /\ this = c

\* Mutant: the destructor waits for a thread INFINITE.
BadWaitToCloseThread(h) ==
  /\ h \notin running[this]
  /\ member' = [member EXCEPT ![this][h] = "null"]
  /\ UNCHANGED <<running, terminated, com>>

\* Mutant: the destructor gives up on a thread that is late.
BadWaitGivesUp(h) ==
  /\ member' = [member EXCEPT ![this][h] = "null"]
  /\ UNCHANGED <<running, terminated, com>>

\* waitToCloseThread(h): the thread has ended, or ten seconds are over and it is
\* terminated, unless that does not succeed in ten seconds either.  The handle
\* is forgotten, not closed; what it is then is of no account.  Nor may the error
\* message that follows ever be written: see Hang.
WaitToCloseThread(h) ==
  /\ member' = [member EXCEPT ![this][h] = "null"]
  /\ UNCHANGED com
  /\ \/ h \notin running[this] /\ UNCHANGED <<running, terminated>>
     \/ /\ h \in running[this]
        /\ running' \in {running, [running EXCEPT ![this] = @ \ {h}]}
        /\ terminated' = TRUE

DestroyStep ==
  /\ call = "destroy" /\ line <= Len(Destroyed)
  /\ LET h == Destroyed[line]
     IN  IF h \in Threads
         THEN WaitToCloseThread(h)
         ELSE CloseHandle(h) /\ UNCHANGED <<running, terminated>>
  /\ line' = line + 1
  /\ UNCHANGED <<call, this, exists, hung, wild>>

\* The destructor returns, and delete frees the memory.
Deleted == call = "destroy" /\ line > Len(Destroyed) /\ Free

-----------------------------------------------------------------------------
(* The threads. *)

\* The COM threads end when m_CloseEvent is set, the socket thread when it likes.
\* (That comDataReadProc also ends if SetCommMask fails makes no difference here.)
Returns(c, t) ==
  /\ c \in exists
  /\ t \in running[c]
  /\ t = "m_SockClientHandle" \/ Closing(c)
  /\ running' = [running EXCEPT ![c] = @ \ {t}]
  /\ UNCHANGED <<call, this, line, exists, member, com, terminated, hung, wild>>

\* A terminated thread leaves the locks it holds, of the output or of the heap,
\* locked for ever.  The caller may need one at once, for the message that tells of
\* the end or for the delete, or at any time after that.
Hang ==
  /\ terminated
  /\ ~hung
  /\ hung' = TRUE
  /\ UNCHANGED <<call, this, line, exists, member, com, running, terminated, wild>>

\* Somebody uses memory that is not his.
Corrupt ==
  /\ wild' = TRUE
  /\ UNCHANGED <<call, this, line, exists, member, com, running, terminated, hung>>

-----------------------------------------------------------------------------
(* The objects as any caller may use them that destroys what it has made. *)

ConstructorStep(p) == Create(p) \/ CreateFails(p)

CallerStep ==
  \/ \E c \in Configs : Construct(c) \/ Destroy(c)
  \/ \E p \in Ports : ConstructorStep(p)
  \/ Constructed \/ Undo \/ Thrown \/ DestroyStep \/ Deleted

ConfigNext ==
  /\ ~wild
  /\ \/ ~hung /\ CallerStep
     \/ \E c \in Configs, t \in Threads : Returns(c, t)
     \/ Hang \/ Corrupt

ConfigSpec == ConfigInit /\ [][ConfigNext]_configVars

-----------------------------------------------------------------------------
(* Properties. *)

ConfigTypeOK ==
  /\ call \in {"none", "construct", "undo", "destroy"}
  /\ this \in Configs \cup {0}
  /\ line \in 0 .. Len(Created) + 1
  /\ exists \subseteq Configs
  /\ member \in [Configs -> [Handles -> {"unset", "null", "open"}]]
  /\ com \in [Configs -> Ports \cup {0}]
  /\ running \in [Configs -> SUBSET Threads]
  /\ terminated \in BOOLEAN /\ hung \in BOOLEAN
  /\ wild \in BOOLEAN

\* A thread only ever waits on, reads and writes handles that are open: they are
\* made before it and closed after it.  The exceptions are a constructor that has
\* failed, which closes them first, and a thread TerminateThread had no effect on.
UsesOpenHandles ==
  \A c \in exists : \A t \in running[c] :
    \/ call = "undo" /\ this = c
    \/ Closing(c) /\ line > Cardinality(Threads) /\ terminated
    \/ \A h \in Uses[t] : member[c][h] = "open"

\* Whether a constructor fails, a thread hangs or all goes well, what is freed has
\* left no event and no port open, and no thread unless that is the end of it all.
AllReleased ==
  \A c \in Configs \ exists :
    /\ \A h \in Handles \ Threads : member[c][h] # "open"
    /\ com[c] = 0
    /\ running[c] # {} => wild

\* A constructor never finds its COM port busy because another object, or one that
\* is gone, has it open; CreateFile shares it with nobody.
ExclusivePort ==
  \A c, d \in Configs : (c # d /\ com[c] # 0) => com[c] # com[d]
=============================================================================
