----------------------------- MODULE MainDialog -----------------------------
(***************************************************************************)
(* The dialog's thread and what it shares with the bridges it starts: the  *)
(* vector portSettings with a status per port, into which the socket       *)
(* threads keep pointers, the vector threadConfigs, the list on the        *)
(* screen, the status timer, the Edit dialog                               *)
(* (Source/AsyncComTCPDlg.cpp, CDialogEdit.cpp, CPortSetting.cpp).         *)
(*                                                                         *)
(* The objects and their threads are those of ThreadConfig, the statuses   *)
(* that a socket thread stores those of SocketStatus.  A handler's step is *)
(* what happens between two accesses to data that a thread writes.         *)
(***************************************************************************)
EXTENDS ThreadConfig, SequencesExt

CONSTANTS Addresses,   \* IP address and TCP port, as one value
          BadAddress,  \* one whose TCP port is not in MIN .. MAX_USER_TCP_PORT
          Files,       \* the lines that the configuration file may hold
          Statuses,    \* bound: the statuses that the socket threads get to
          MaxRows,     \* bound: settings in the list
          MaxEdits     \* bound: how often Add and Edit are clicked

VARIABLES
  settings,       \* portSettings
  capacity,       \* its capacity
  threadConfigs,  \* the objects made by Apply, in order
  list,           \* the column of statuses that the list shows
  handler,        \* where the dialog's thread is in the handler it runs
  row,            \* loop index of that handler
  flagRead,       \* isStatusChange: ret
  edit,           \* the Edit dialog, or NoEdit
  pointer,        \* per object: m_portSetting as an index, 0 if it dangles
  told,           \* per object: the status its socket thread has stored last
  telling,        \* per object: the status that it is storing, or "none"
  missed,         \* history: rows with a change that the timer has overlooked
  meddled,        \* history: a setting was copied or overwritten while a socket
                  \* thread could write to it, or moved while any thread used it
  edits           \* how often Add and Edit have been clicked

screen == <<list, handler, row, flagRead, edit, edits>>
shared == <<settings, capacity, pointer, told, telling, missed, meddled>>
vars == <<configVars, threadConfigs, screen, shared>>

Sock == "m_SockClientHandle"
Socket(c) == INSTANCE SocketStatus WITH told <- told[c], ended <- Sock \notin running[c]

Rows == DOMAIN settings
NoEdit == [cur |-> -1]

\* A line of the configuration file, and the setting that readCfg makes of it.
Line(com1, addr1) == [com |-> com1, addr |-> addr1]
SettingOf(l) == [com |-> l.com, addr |-> l.addr, status |-> "Stopped", change |-> FALSE]

\* setComPort and setTcpPort do not throw; 0 stands for a name that is none.
Valid(l) == l.com # 0 /\ l.addr # BadAddress

\* The first line that is not valid ends the list, as the end of the file does.
ReadCfg(lines) ==
  LET bad == SelectInSeq(lines, LAMBDA l : ~Valid(l))
  IN  [i \in 1 .. (IF bad = 0 THEN Len(lines) ELSE bad - 1) |-> SettingOf(lines[i])]

SaveCfg == [i \in Rows |-> Line(settings[i].com, settings[i].addr)]

\* operator== of CPortSetting.
Same(s, t) == s.com = t.com \/ s.addr = t.addr

ASSUME DialogAssumption ==
  /\ IsFiniteSet(Configs)
  /\ BadAddress \notin Addresses
  /\ "Stopped" \in Statuses
  /\ MaxRows \in Nat /\ MaxEdits \in Nat
  /\ \A f \in Files :
       /\ f \in Seq([com : Ports \cup {0}, addr : Addresses \cup {BadAddress}])
       /\ \A i, j \in DOMAIN f : i # j => ~Same(f[i], f[j])
       /\ Len(ReadCfg(f)) <= MaxRows

\* External: how the library's vector grows, and its capacity after n push_backs.
Grown(cap) == IF cap < 2 THEN cap + 1 ELSE cap + cap \div 2
CapacityOf[n \in Nat] ==
  IF n = 0 THEN 0
  ELSE IF CapacityOf[n - 1] >= n THEN CapacityOf[n - 1] ELSE Grown(CapacityOf[n - 1])

\* A socket thread runs that has its setting at a row in R and writes to it.
Watched(R) == \E c \in Configs : Sock \in running[c] /\ pointer[c] \in R

\* A thread runs that has its setting at a row in R: the COM read thread asks for
\* the status of its own, also after the socket thread has ended.
Users == {Sock, "m_ComPortRdHandle"}
Used(R) == \E c \in Configs : running[c] \cap Users # {} /\ pointer[c] \in R

\* OnInitDialog: readCfg and fillSettings.
Init ==
  /\ ConfigInit
  /\ settings \in {ReadCfg(f) : f \in Files}
  /\ capacity = CapacityOf[Len(settings)]
  /\ threadConfigs = <<>>
  /\ list = [i \in Rows |-> settings[i].status]
  /\ handler = "idle" /\ row = 0 /\ flagRead = FALSE
  /\ edit = NoEdit
  /\ pointer = [c \in Configs |-> 0]
  /\ told = [c \in Configs |-> "Stopped"]
  /\ telling = [c \in Configs |-> "none"]
  /\ missed = {} /\ meddled = FALSE /\ edits = 0

-----------------------------------------------------------------------------
(* The Edit dialog.  Its combo box holds the ports of the system, sorted by *)
(* name; port n has the name "COM" and the decimal digits of n.             *)

SortKey(n) == IF n < 10 THEN 100 * n ELSE IF n < 100 THEN 10 * n ELSE n
Before(p, q) == SortKey(p) < SortKey(q) \/ (SortKey(p) = SortKey(q) /\ p < q)
FirstOf(ports) == CHOOSE p \in ports : \A q \in ports \ {p} : Before(p, q)

\* FindString compares as many characters as it is given.
BeginsWith(q, p) == \E k \in 0 .. 2 : q \div 10 ^ k = p

\* FindString(0, name of p): the first match after index 0, which is tried last.
\* 0 if there is none, as for the empty name, and then nothing is selected.
FindString(p) ==
  LET found == {q \in Ports : BeginsWith(q, p)}
      after == found \ {FirstOf(Ports)}
  IN  IF p = 0 \/ found = {} THEN 0
      ELSE FirstOf(IF after = {} THEN found ELSE after)

\* CDialogEdit(s), CDialogEdit(s, cur) and findPorts: a copy of the setting.
Opened(s, cur, watched) ==
  [cur |-> cur, com |-> s.com, shown |-> FindString(s.com),
   status |-> s.status, change |-> s.change, watched |-> watched]

\* Nothing else can be clicked while a handler runs or the Edit dialog is shown.
Responsive == handler = "idle" /\ edit = NoEdit

OnBnClickedButtonAdd ==
  /\ Responsive
  /\ edits < MaxEdits /\ Len(settings) < MaxRows
  /\ edits' = edits + 1
  /\ edit' \in {Opened([com |-> 0, status |-> "Stopped", change |-> FALSE], 0, FALSE)}
               \cup {Opened(settings[r], 0, Watched({r})) : r \in Rows}
  /\ UNCHANGED <<configVars, threadConfigs, list, handler, row, flagRead, shared>>

OnBnClickedButtonEdit ==
  /\ Responsive
  /\ edits < MaxEdits
  /\ edits' = edits + 1
  /\ edit' \in {Opened(settings[r], r, Watched({r})) : r \in Rows}
  /\ UNCHANGED <<configVars, threadConfigs, list, handler, row, flagRead, shared>>

\* The setting made of what the boxes show.
Entered(p, a) == [com |-> p, addr |-> a, status |-> edit.status, change |-> edit.change]

\* Mutant: OnBnClickedOk spares the first setting the comparison.
BadAcceptable(p, a) ==
  /\ Valid(Line(p, a))
  /\ \A i \in Rows : i > 1 => i = edit.cur \/ ~Same(Entered(p, a), settings[i])

\* Mutant: OnBnClickedOk does not mind a box with no port selected.
BadChecked(p, a) ==
  /\ a # BadAddress
  /\ \A i \in Rows : i = edit.cur \/ ~Same(Entered(p, a), settings[i])

\* The checks of setComPort, setTcpPort and OnBnClickedOk.
Acceptable(p, a) ==
  /\ Valid(Line(p, a))
  /\ \A i \in Rows : i = edit.cur \/ ~Same(Entered(p, a), settings[i])

\* A store to settings[i] is under way whose change is not, or no longer, flagged.
Unflagged(i) ==
  /\ ~settings[i].change
  /\ \E c \in Configs : pointer[c] = i /\ telling[c] \notin {"none", settings[i].status}

\* Mutant: the list is not filled anew.
BadFillSettings ==
  /\ UNCHANGED list
  /\ missed' = {i \in Rows : Unflagged(i)}'

FillSettings ==
  /\ list' = [i \in DOMAIN settings' |-> settings'[i].status]
  /\ missed' = {i \in Rows : Unflagged(i)}'

\* OnBnClickedOk and what follows in OnBnClickedButtonAdd.  push_back moves the
\* settings when the vector is full.
AddAccepted(p, a) ==
  /\ handler = "idle"
  /\ edit.cur = 0
  /\ Acceptable(p, a)
  /\ settings' = Append(settings, Entered(p, a))
  /\ \/ /\ Len(settings) < capacity
        /\ meddled' = (meddled \/ edit.watched)
        /\ UNCHANGED <<capacity, pointer>>
     \/ /\ Len(settings) = capacity
        /\ capacity' = Grown(capacity)
        /\ pointer' = [c \in Configs |-> 0]
        /\ meddled' = (meddled \/ edit.watched \/ Used(Rows))
  /\ edit' = NoEdit
  /\ UNCHANGED <<configVars, threadConfigs, handler, row, flagRead, told, telling, edits>>
  /\ FillSettings

\* OnBnClickedOk and what follows in OnBnClickedButtonEdit: the status that the
\* row had when the dialog was opened is assigned with the rest.
EditAccepted(p, a) ==
  /\ handler = "idle"
  /\ edit.cur # 0
  /\ Acceptable(p, a)
  /\ settings' = [settings EXCEPT ![edit.cur] = Entered(p, a)]
  /\ meddled' = (meddled \/ edit.watched)
  /\ edit' = NoEdit
  /\ UNCHANGED <<configVars, threadConfigs, handler, row, flagRead, capacity, pointer, told,
                 telling, edits>>
  /\ FillSettings

\* OnBnClickedOk throws and catches: the dialog stays.  UpdateData has called
\* findPorts before setComPort, so the box shows the port of the try before.
OkRefused(p, a) ==
  /\ handler = "idle"
  /\ ~Acceptable(p, a)
  /\ edit' = [edit EXCEPT !.com = IF p = 0 THEN @ ELSE p, !.shown = FindString(edit.com)]
  /\ UNCHANGED <<configVars, threadConfigs, list, handler, row, flagRead, edits, shared>>

OnBnClickedOk(p, a) == AddAccepted(p, a) \/ EditAccepted(p, a) \/ OkRefused(p, a)

EditCancelled ==
  /\ edit # NoEdit /\ handler = "idle"
  /\ edit' = NoEdit
  /\ UNCHANGED <<configVars, threadConfigs, handler, row, flagRead, settings, capacity, pointer,
                 told, telling, meddled, edits>>
  /\ FillSettings

\* erase moves the settings after row r, and no pointer to one of them.
OnBnClickedButtonDelete(r) ==
  /\ Responsive
  /\ settings' = RemoveAt(settings, r)
  /\ pointer' = [c \in Configs |-> IF pointer[c] = Len(settings) THEN 0 ELSE pointer[c]]
  /\ meddled' = (meddled \/ Used({i \in Rows : i >= r}))
  /\ UNCHANGED <<configVars, threadConfigs, handler, row, flagRead, edit, edits, capacity, told, telling>>
  /\ FillSettings

-----------------------------------------------------------------------------
(* Apply. *)

\* A socket thread that has ended tells nothing.
Silence ==
  /\ told' = [c \in Configs |-> IF Sock \in running'[c] THEN told[c] ELSE "Stopped"]
  /\ telling' = [c \in Configs |-> IF Sock \in running'[c] THEN telling[c] ELSE "none"]

\* Mutant: Apply does not ask whether threads run.
BadOnBnClickedButtonApply ==
  /\ Responsive
  /\ settings # <<>>
  /\ Cardinality(Configs \ exists) >= Len(settings)
  /\ handler' = "apply" /\ row' = 1
  /\ UNCHANGED <<configVars, threadConfigs, list, flagRead, edit, edits, shared>>

OnBnClickedButtonApply ==
  /\ Responsive
  /\ threadConfigs = <<>>
  /\ settings # <<>>
  /\ Cardinality(Configs \ exists) >= Len(settings)
  /\ handler' = "apply" /\ row' = 1
  /\ UNCHANGED <<configVars, threadConfigs, list, flagRead, edit, edits, shared>>

\* Mutant: each object is given the first setting.
BadNewThreadConfig ==
  /\ handler = "apply"
  /\ LET c == Min(Configs \ exists)
     IN  Construct(c) /\ pointer' = [pointer EXCEPT ![c] = 1]
  /\ UNCHANGED <<threadConfigs, screen, settings, capacity, told, telling, missed, meddled>>

NewThreadConfig ==
  /\ handler = "apply"
  /\ LET c == Min(Configs \ exists)
     IN  Construct(c) /\ pointer' = [pointer EXCEPT ![c] = row]
  /\ UNCHANGED <<threadConfigs, screen, settings, capacity, told, telling, missed, meddled>>

InConstructor ==
  /\ ConstructorStep(settings[row].com) \/ Undo
  /\ Silence
  /\ UNCHANGED <<threadConfigs, screen, settings, capacity, pointer, missed, meddled>>

PushBack ==
  /\ Constructed
  /\ threadConfigs' = Append(threadConfigs, this)
  /\ IF row < Len(settings)
     THEN row' = row + 1 /\ UNCHANGED handler
     ELSE row' = 0 /\ handler' = "idle"
  /\ UNCHANGED <<list, flagRead, edit, edits, shared>>

\* Nobody catches the exception in Apply.  Windows lets it end the program, or
\* swallows it on its way through the window procedure.
ApplyThrows ==
  /\ Thrown
  /\ pointer' = [pointer EXCEPT ![this] = 0]
  /\ handler' \in {"idle", "ended"} /\ row' = 0
  /\ UNCHANGED <<threadConfigs, list, flagRead, edit, edits, settings, capacity, told, telling,
                 missed, meddled>>

Apply == NewThreadConfig \/ InConstructor \/ PushBack \/ ApplyThrows

-----------------------------------------------------------------------------
(* Stop and Close. *)

\* OnBnClickedButtonStop and OnClose differ only in what comes last: see Clear.
StopOrClose ==
  /\ Responsive
  /\ handler' = "stop" /\ row' = 1
  /\ UNCHANGED <<configVars, threadConfigs, list, flagRead, edit, edits, shared>>

DeleteThreadConfig ==
  /\ handler = "stop"
  /\ row <= Len(threadConfigs)
  /\ call = "none"
  /\ IF threadConfigs[row] \in exists THEN Destroy(threadConfigs[row]) ELSE Corrupt
  /\ UNCHANGED <<threadConfigs, screen, shared>>

InDestructor ==
  /\ DestroyStep
  /\ Silence
  /\ UNCHANGED <<threadConfigs, screen, settings, capacity, pointer, missed, meddled>>

NextThreadConfig ==
  /\ Deleted
  /\ row' = row + 1
  /\ pointer' = [pointer EXCEPT ![this] = 0]
  /\ UNCHANGED <<threadConfigs, list, handler, flagRead, edit, edits, settings, capacity, told,
                 telling, missed, meddled>>

Clear ==
  /\ handler = "stop"
  /\ row > Len(threadConfigs)
  /\ threadConfigs' = <<>>
  /\ handler' \in {"idle", "ended"}
  /\ row' = 0
  /\ UNCHANGED <<configVars, list, flagRead, edit, edits, shared>>

StopThreads == DeleteThreadConfig \/ InDestructor \/ NextThreadConfig \/ Clear

-----------------------------------------------------------------------------
(* The timer: updatePortSettings, isStatusChange and getStatusString.       *)

\* isStatusChange reads the flag of row r.  It is the first step on a row, and is
\* taken with the last on the row before: no thread writes to both rows.
ReadFlag(r) ==
  /\ handler' = "isStatusChange" /\ row' = r
  /\ flagRead' = settings'[r].change

NextRow ==
  IF row < Len(settings)
  THEN ReadFlag(row + 1)
  ELSE handler' = "idle" /\ row' = 0 /\ flagRead' = FALSE

\* Also while the Edit dialog is shown, whose message loop serves it.
OnTimer ==
  /\ handler = "idle" /\ settings # <<>>
  /\ UNCHANGED <<configVars, threadConfigs, list, edit, edits, shared>>
  /\ ReadFlag(1)

\* isStatusChange resets the flag.  A change that was flagged since the flag was
\* read as FALSE is forgotten.
ResetFlag ==
  /\ handler = "isStatusChange"
  /\ settings' = [settings EXCEPT ![row].change = FALSE]
  /\ IF flagRead
     THEN handler' = "getStatusString" /\ UNCHANGED <<row, flagRead, missed>>
     ELSE /\ NextRow
          /\ missed' = IF settings[row].change THEN missed \cup {row} ELSE missed
  /\ UNCHANGED <<configVars, threadConfigs, list, edit, edits, capacity, pointer, told, telling,
                 meddled>>

\* A change whose flag is reset already and whose status is still to be stored is
\* shown too early.
ShowStatus ==
  /\ handler = "getStatusString"
  /\ list' = [list EXCEPT ![row] = settings[row].status]
  /\ missed' = IF Unflagged(row) THEN missed \cup {row} ELSE missed \ {row}
  /\ UNCHANGED <<configVars, threadConfigs, edit, edits, settings, capacity, pointer,
                 told, telling, meddled>>
  /\ NextRow

UpdatePortSettings == ResetFlag \/ ShowStatus

-----------------------------------------------------------------------------
(* The socket threads: CPortSetting::setStatus. *)

Tells(c) == c \in exists /\ Sock \in running[c]

\* Mutant: the flag is set when the status is the same, not when it changes.
BadSetStatusFlag(c, s) ==
  /\ Tells(c) /\ telling[c] = "none"
  /\ s \in Socket(c)!Follows[told[c]]
  /\ IF pointer[c] \in Rows
     THEN /\ settings' = [settings EXCEPT ![pointer[c]].change = @ \/ settings[pointer[c]].status = s]
          /\ telling' = [telling EXCEPT ![c] = s]
          /\ UNCHANGED configVars
     ELSE Corrupt /\ UNCHANGED <<settings, telling>>
  /\ UNCHANGED <<threadConfigs, screen, capacity, pointer, told, missed, meddled>>

\* statusChange = true if the status differs.
SetStatusFlag(c, s) ==
  /\ Tells(c) /\ telling[c] = "none"
  /\ s \in Socket(c)!Follows[told[c]]
  /\ IF pointer[c] \in Rows
     THEN /\ settings' = [settings EXCEPT ![pointer[c]].change = @ \/ settings[pointer[c]].status # s]
          /\ telling' = [telling EXCEPT ![c] = s]
          /\ UNCHANGED configVars
     ELSE Corrupt /\ UNCHANGED <<settings, telling>>
  /\ UNCHANGED <<threadConfigs, screen, capacity, pointer, told, missed, meddled>>

\* status = Status.  Stopped is the last thing the thread has to say.
SetStatus(c) ==
  /\ Tells(c) /\ telling[c] # "none"
  /\ IF pointer[c] \in Rows
     THEN /\ settings' = [settings EXCEPT ![pointer[c]].status = telling[c]]
          /\ IF telling[c] = "Stopped" THEN Returns(c, Sock) ELSE UNCHANGED configVars
     ELSE Corrupt /\ UNCHANGED settings
  /\ told' = [told EXCEPT ![c] = telling[c]]
  /\ telling' = [telling EXCEPT ![c] = "none"]
  /\ UNCHANGED <<threadConfigs, screen, capacity, pointer, missed, meddled>>

\* Winsock does not start.
GivesUp(c) ==
  /\ told[c] = "Stopped" /\ telling[c] = "none"
  /\ Returns(c, Sock)
  /\ UNCHANGED <<threadConfigs, screen, shared>>

ComThreadReturns(c) ==
  /\ \E t \in Threads \ {Sock} : Returns(c, t)
  /\ UNCHANGED <<threadConfigs, screen, shared>>

\* The COM read thread has bytes and asks its setting whether they are to be sent.
\* What it does with the answer is in Bridge; that it asks matters if there is no
\* such setting any more.
GetStatus(c) ==
  /\ c \in exists
  /\ "m_ComPortRdHandle" \in running[c]
  /\ pointer[c] \notin Rows
  /\ Corrupt
  /\ UNCHANGED <<threadConfigs, screen, shared>>

ThreadStep(c) ==
  \/ \E s \in Statuses : SetStatusFlag(c, s)
  \/ SetStatus(c) \/ GivesUp(c) \/ ComThreadReturns(c) \/ GetStatus(c)

-----------------------------------------------------------------------------
User ==
  \/ OnBnClickedButtonAdd \/ OnBnClickedButtonEdit
  \/ \E r \in Rows : OnBnClickedButtonDelete(r)
  \/ /\ edit # NoEdit
     /\ \E p \in Ports \cup {edit.shown}, a \in Addresses \cup {BadAddress} : OnBnClickedOk(p, a)
  \/ EditCancelled
  \/ OnBnClickedButtonApply \/ StopOrClose

Handlers == Apply \/ StopThreads \/ UpdatePortSettings

\* Whatever the dialog's thread does after TerminateThread may need a lock that is
\* never released, be it in the same handler or in a later one.
DialogHangs == Hang /\ UNCHANGED <<threadConfigs, screen, shared>>

\* The program has ended, or nothing is known of it any more.
Over == wild \/ handler = "ended"

Next ==
  \/ /\ ~Over
     /\ \/ ~hung /\ (User \/ OnTimer \/ Handlers)
        \/ \E c \in Configs : ThreadStep(c)
        \/ DialogHangs
  \/ (Over \/ hung) /\ UNCHANGED vars

Spec == Init /\ [][Next]_vars

-----------------------------------------------------------------------------
(* Properties. *)

TypeOK ==
  /\ ConfigTypeOK
  /\ settings \in Seq([com : Ports, addr : Addresses, status : Statuses, change : BOOLEAN])
  /\ Len(settings) <= MaxRows /\ capacity \in Nat /\ Len(settings) <= capacity
  /\ threadConfigs \in Seq(Configs)
  /\ list \in Seq(Statuses) /\ Len(list) = Len(settings)
  /\ handler \in {"idle", "apply", "stop", "isStatusChange", "getStatusString", "ended"}
  /\ row \in Nat
  /\ flagRead \in BOOLEAN
  /\ \/ edit = NoEdit
     \/ edit \in [cur : Rows \cup {0}, com : Ports \cup {0}, shown : Ports \cup {0},
                  status : Statuses, change : BOOLEAN, watched : BOOLEAN]
  /\ pointer \in [Configs -> Rows \cup {0}]
  /\ told \in [Configs -> Statuses] /\ telling \in [Configs -> Statuses \cup {"none"}]
  /\ missed \subseteq Rows
  /\ meddled \in BOOLEAN

\* No two settings have the same COM port or the same address, whatever was
\* added, edited and deleted in whatever order.
NoDuplicates == \A i, j \in Rows : i # j => ~Same(settings[i], settings[j])

\* Whatever the user has done to the list, what saveCfg writes of it readCfg reads
\* back: no row makes it stop before the last.
SavedIsRead == ReadCfg(SaveCfg) = [i \in Rows |-> SettingOf(settings[i])]

\* A row's status is the one its socket thread has stored last, and Stopped if it
\* has none.  Two things break this, each for good: to change a row that a socket
\* thread could write to, and TerminateThread.
RowTellsThread ==
  meddled \/ terminated \/
  \A i \in Rows :
    LET tellers == {c \in exists : Sock \in running[c] /\ pointer[c] = i}
    IN  IF tellers = {} THEN settings[i].status = "Stopped"
        ELSE \E c \in tellers : tellers = {c} /\ settings[i].status = told[c]

\* The list shows each row's status, or the timer will find it changed.  The two
\* races of isStatusChange with setStatus break this until the next change.
ListShowsStatus ==
  \A i \in Rows : \/ list[i] = settings[i].status
                  \/ settings[i].change
                  \/ i \in missed
                  \/ handler = "getStatusString" /\ row = i

\* Nothing uses freed memory, closes garbage or deletes an object twice unless a
\* constructor fails, a thread was terminated, or a setting was changed or moved
\* under a thread, be it only the COM read thread that is left of a bridge: to add
\* within the capacity, to delete behind running rows and to edit beside them is
\* harmless.
WildOnlyIfDisturbed == wild => call = "undo" \/ terminated \/ meddled

\* How far a handler has come in the row it is at, but for the line of a constructor
\* or a destructor.
Stage == IF call = "undo" THEN 2 ELSE IF call # "none" \/ handler = "getStatusString" THEN 1 ELSE 0

\* However long the threads take, the window comes back: a handler has a next step
\* whatever the threads do, unless it waits for a lock of a terminated thread, and
\* each of its steps brings it nearer to its end.
GuiComesBack ==
  /\ [](handler \notin {"idle", "ended"} /\ ~Over /\ ~hung => ENABLED Handlers)
  /\ [][Handlers => \/ handler' \in {"idle", "ended"}
                    \/ row' > row
                    \/ row' = row /\ Stage' > Stage
                    \/ row' = row /\ Stage' = Stage /\ line' > line]_vars

\* The Edit dialog shows the port of the setting it edits if the system has it.
EditShowsPort ==
  (edit # NoEdit /\ edit.cur # 0 /\ edit.com \in Ports) => edit.shown = edit.com
=============================================================================
