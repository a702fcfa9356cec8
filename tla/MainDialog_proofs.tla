------------------------ MODULE MainDialog_proofs ------------------------
(***************************************************************************)
(* Proofs about MainDialog, for any number of ports, addresses, objects,   *)
(* rows and clicks: the dialog uses the objects as ThreadConfig allows     *)
(* (refinement), its settings stay without duplicates and readable, its    *)
(* rows and its list tell what the socket threads do, and what it takes    *)
(* to make it corrupt memory.                                              *)
(***************************************************************************)
EXTENDS DialogData_proofs

-----------------------------------------------------------------------------
(* The invariant. *)

\* A setting, and what the Edit dialog shows.
Setting == [com : Ports, addr : Addresses, status : Statuses, change : BOOLEAN]
Dialog == [cur : Rows \cup {0}, com : Ports \cup {0}, shown : Ports \cup {0},
           status : Statuses, change : BOOLEAN, watched : BOOLEAN]

\* The types that the actions of MainDialog add to those of ThreadConfig.
ScreenTypes ==
  /\ list \in Seq(Statuses) /\ Len(list) = Len(settings)
  /\ handler \in {"idle", "apply", "stop", "isStatusChange", "getStatusString", "ended"}
  /\ row \in Nat
  /\ flagRead \in BOOLEAN
  /\ edit = NoEdit \/ edit \in Dialog
SharedTypes ==
  /\ settings \in Seq(Setting)
  /\ Len(settings) <= MaxRows /\ capacity \in Nat /\ Len(settings) <= capacity
  /\ threadConfigs \in Seq(Configs)
  /\ pointer \in [Configs -> Rows \cup {0}]
  /\ told \in [Configs -> Statuses] /\ telling \in [Configs -> Statuses \cup {"none"}]
  /\ missed \subseteq Rows
  /\ meddled \in BOOLEAN

\* Where the dialog's thread can be in its handler.
Handled ==
  /\ handler = "apply" => row \in Rows /\ Len(threadConfigs) = row - 1
  /\ call \in {"construct", "undo"} => handler = "apply"
  /\ call = "destroy" =>
       handler = "stop" /\ row \in DOMAIN threadConfigs /\ this = threadConfigs[row]
  /\ handler = "stop" => row \in 1 .. Len(threadConfigs) + 1
  /\ handler \in {"isStatusChange", "getStatusString"} => row \in Rows
  /\ edit # NoEdit =>
       /\ handler \in {"idle", "isStatusChange", "getStatusString"}
       /\ edit.cur = 0 => Len(settings) < MaxRows

\* There is a place left for each object that Apply has still to make.
Spare == handler = "apply" =>
  Cardinality(Configs \ exists) >= Len(settings) - row + (IF call = "none" THEN 1 ELSE 0)

\* The places of the objects that are not deleted yet.
Live == IF handler = "stop" THEN row .. Len(threadConfigs) ELSE 1 .. Len(threadConfigs)

\* An object is being built, or its building undone.
Building == call \in {"construct", "undo"}

\* The objects are those in threadConfigs, each once, and the one being built.
Owned ==
  /\ \A i, j \in 1 .. Len(threadConfigs) : threadConfigs[i] = threadConfigs[j] => i = j
  /\ Building => \A i \in 1 .. Len(threadConfigs) : threadConfigs[i] # this
  /\ exists = {threadConfigs[i] : i \in Live} \cup (IF Building THEN {this} ELSE {})

\* While Apply runs, each object has no port open but its row's, and points to it.
Applied ==
  handler = "apply" =>
    /\ \A i \in 1 .. Len(threadConfigs) :
         LET c == threadConfigs[i]
         IN  com[c] \in {0, settings[i].com} /\ pointer[c] \in {0, i}
    /\ Building => com[this] \in {0, settings[row].com} /\ pointer[this] = row

\* As long as nothing was meddled with, a thread that uses its setting points to a row.
PointsToRow ==
  ~wild /\ ~meddled =>
    \A c \in Configs : running[c] \cap Users # {} => pointer[c] \in Rows

\* No two socket threads point to the same row.
PointsAlone ==
  \A c, d \in Configs :
    c # d /\ Sock \in running[c] /\ Sock \in running[d] /\ pointer[c] # 0
      => pointer[c] # pointer[d]

\* A socket thread that does not run has told Stopped and tells nothing.
Silent ==
  \A c \in Configs : Sock \notin running[c] => told[c] = "Stopped" /\ telling[c] = "none"

\* An Edit dialog that was opened on a row without thread holds what is still true of it.
Edited ==
  edit # NoEdit /\ ~edit.watched =>
    /\ meddled \/ terminated \/ edit.status = "Stopped"
    /\ edit.cur # 0 => ~Watched({edit.cur})

\* A row has the status that its thread has stored last, and Stopped without one.
TellsTruth ==
  \A i \in Rows :
    /\ Watched({i}) \/ settings[i].status = "Stopped"
    /\ \A c \in Configs : Sock \in running[c] /\ pointer[c] = i => settings[i].status = told[c]

\* Until a row is meddled with or a thread terminated.
Told == meddled \/ terminated \/ TellsTruth

\* A status that is being stored unflagged is missed, or about to be shown.
NoteUnflagged ==
  \A i \in Rows : Unflagged(i) => i \in missed \/ (handler = "getStatusString" /\ row = i)

\* The inductive invariant.
DialogInv ==
  /\ ConfigInv /\ TypeOK /\ Handled /\ Spare /\ Owned /\ Applied
  /\ NoDuplicates /\ ExclusivePort
  /\ PointsToRow /\ PointsAlone /\ Silent /\ Edited /\ Told
  /\ NoteUnflagged /\ ListShowsStatus /\ WildOnlyIfDisturbed

-----------------------------------------------------------------------------
(* Types. *)

\* TypeOK is what ThreadConfig, the screen and the data shared with threads say of types.
LEMMA TypesSplit == TypeOK <=> ConfigTypeOK /\ ScreenTypes /\ SharedTypes
BY DEF TypeOK, ScreenTypes, SharedTypes, Dialog, Setting

\* The fields of a setting.
LEMMA SettingFields ==
  \A x \in Setting : /\ x.com \in Ports /\ x.addr \in Addresses
                     /\ x.status \in Statuses /\ x.change \in BOOLEAN
BY DEF Setting

\* Rows are numbered from 1.
LEMMA RowsAre == ASSUME SharedTypes PROVE Rows = 1 .. Len(settings) /\ Len(settings) \in Nat
BY DEF SharedTypes, Rows

\* What readCfg returns is a list of settings that are stopped.
LEMMA ReadCfgType ==
  ASSUME NEW f \in Files
  PROVE  /\ ReadCfg(f) \in Seq(Setting)
         /\ Len(ReadCfg(f)) <= MaxRows
         /\ \A i \in 1 .. Len(ReadCfg(f)) : /\ ReadCfg(f)[i].status = "Stopped"
                                            /\ ReadCfg(f)[i].com = f[i].com
                                            /\ ReadCfg(f)[i].addr = f[i].addr
                                            /\ i \in 1 .. Len(f)
<1> DEFINE L == [com : Ports \cup {0}, addr : Addresses \cup {BadAddress}]
<1>1. f \in Seq(L) /\ Len(ReadCfg(f)) <= MaxRows
  BY DialogAssumption
<1>2. PICK n \in 0 .. Len(f) :
        /\ ReadCfg(f) = [i \in 1 .. n |-> SettingOf(f[i])]
        /\ \A i \in 1 .. n : Valid(f[i])
  BY <1>1, ReadCfgValue
<1>3. ASSUME NEW i \in 1 .. n PROVE SettingOf(f[i]) \in Setting
  <2>1. f[i] \in L /\ Valid(f[i])
    <3> HIDE DEF L
    <3> QED BY <1>1, <1>2
  <2>2. f[i].com \in Ports /\ f[i].addr \in Addresses
    BY <2>1 DEF Valid
  <2> QED BY <2>2, DialogAssumption DEF SettingOf, Setting
<1>4. ReadCfg(f) \in Seq(Setting) /\ Len(ReadCfg(f)) = n
  BY <1>2, <1>3
<1> QED BY <1>1, <1>2, <1>4 DEF SettingOf

\* The types hold when the dialog appears.
LEMMA TypeInit == Init => TypeOK
<1> SUFFICES ASSUME Init PROVE ScreenTypes /\ SharedTypes
  BY TypesSplit, ConfigInvInit DEF Init, ConfigInv
<1>1. PICK f \in Files : settings = ReadCfg(f)
  BY DEF Init
<1>2. settings \in Seq(Setting) /\ Len(settings) <= MaxRows
      /\ \A i \in Rows : settings[i].status = "Stopped"
  BY <1>1, ReadCfgType DEF Rows
<1>3. capacity \in Nat /\ Len(settings) <= capacity
  BY <1>2, CapacitySuffices DEF Init
<1>4. list \in Seq(Statuses) /\ Len(list) = Len(settings)
  <2>1. list = [i \in 1 .. Len(settings) |-> settings[i].status]
    BY <1>2 DEF Init, Rows
  <2>2. \A i \in 1 .. Len(settings) : settings[i].status \in Statuses
    BY <1>2, SettingFields
  <2> QED BY <1>2, <2>1, <2>2
<1>5. flagRead \in BOOLEAN /\ meddled \in BOOLEAN
  BY Zenon DEF Init
<1>6. ScreenTypes
  BY <1>4, <1>5 DEF Init, ScreenTypes
<1>7. threadConfigs \in Seq(Configs)
  BY DEF Init
<1>8. SharedTypes
  BY <1>2, <1>3, <1>5, <1>7, DialogAssumption DEF Init, SharedTypes
<1> QED BY <1>6, <1>8

\* No handler runs then.
LEMMA HandledInit == Init => Handled /\ Spare
BY DEF Init, ConfigInit, Handled, Spare, NoEdit

-----------------------------------------------------------------------------
(* The objects of ThreadConfig. *)

\* There is an object left for each row to come.
LEMMA FreeObject ==
  ASSUME ConfigTypeOK, SharedTypes, Handled, Spare, handler = "apply", call = "none"
  PROVE  Min(Configs \ exists) \in Configs \ exists
<1> DEFINE free == Configs \ exists
<1>1. free \in SUBSET Nat /\ IsFiniteSet(free)
  <2>1. free \in SUBSET Configs
    OBVIOUS
  <2> QED BY <2>1, ConfigAssumption, DialogAssumption, FS_Subset
<1>2. Cardinality(free) >= 1
  <2>1. Cardinality(free) \in Nat
    BY <1>1, FS_CardinalityType
  <2>2. row \in 1 .. Len(settings) /\ Len(settings) \in Nat
    BY RowsAre DEF Handled
  <2>3. Cardinality(free) >= Len(settings) - row + 1
    BY DEF Spare
  <2> QED BY <2>1, <2>2, <2>3
<1>3. free # {}
  BY <1>1, <1>2, FS_EmptySet
<1> QED BY <1>1, <1>3, MinIsElement

\* Whatever the dialog does, it uses the objects as ThreadConfig allows.
LEMMA DialogUsesObjects ==
  ASSUME TypeOK, Handled, Spare, [Next]_vars
  PROVE  [ConfigNext]_configVars
<1> USE DEF ConfigNext, CallerStep
<1>0. ConfigTypeOK /\ SharedTypes
  BY TypesSplit
<1>1. CASE UNCHANGED vars
  BY <1>1 DEF vars
<1>2. CASE ~Over /\ ~hung /\ User
  BY <1>2 DEF User, OnBnClickedButtonAdd, OnBnClickedButtonEdit, OnBnClickedButtonDelete,
       OnBnClickedOk, AddAccepted, EditAccepted, OkRefused, EditCancelled,
       OnBnClickedButtonApply, StopOrClose
<1>3. CASE ~Over /\ ~hung /\ OnTimer
  BY <1>3 DEF OnTimer
<1>4. CASE ~Over /\ ~hung /\ UpdatePortSettings
  BY <1>4 DEF UpdatePortSettings, ResetFlag, ShowStatus
<1>5. CASE ~Over /\ ~hung /\ Apply
  <2>0. ~wild /\ ~hung
    BY <1>5 DEF Over
  <2>1. CASE NewThreadConfig
    <3>1. Min(Configs \ exists) \in Configs
      BY <1>0, <2>1, FreeObject DEF NewThreadConfig, Construct
    <3> QED BY <2>0, <2>1, <3>1 DEF NewThreadConfig
  <2>2. CASE InConstructor
    <3>1. CASE ConstructorStep(settings[row].com)
      <4>1. call = "construct"
        BY <3>1 DEF ConstructorStep, Create, CreateFails
      <4>2. settings[row] \in Setting
        BY <1>0, <4>1 DEF Handled, SharedTypes, Rows
      <4>3. settings[row].com \in Ports
        BY <4>2, SettingFields
      <4> QED BY <2>0, <3>1, <4>3
    <3> QED BY <2>0, <2>2, <3>1 DEF InConstructor
  <2> QED BY <1>5, <2>0, <2>1, <2>2 DEF Apply, PushBack, ApplyThrows
<1>6. CASE ~Over /\ ~hung /\ StopThreads
  <2>1. CASE DeleteThreadConfig
    <3>1. threadConfigs[row] \in Configs
      BY <1>0, <2>1 DEF DeleteThreadConfig, Handled, SharedTypes
    <3> QED BY <1>6, <2>1, <3>1 DEF DeleteThreadConfig, Over
  <2> QED BY <1>6, <2>1 DEF Over, StopThreads, InDestructor, NextThreadConfig, Clear
<1>7. ASSUME NEW c \in Configs, ~Over, ThreadStep(c)
      PROVE  [ConfigNext]_configVars
  <2>0. ~wild /\ Sock \in Threads
    BY <1>7 DEF Over, Sock, Threads
  <2>1. ASSUME NEW s \in Statuses, SetStatusFlag(c, s) PROVE [ConfigNext]_configVars
    BY <2>0, <2>1 DEF SetStatusFlag
  <2>2. CASE SetStatus(c)
    BY <2>0, <2>2 DEF SetStatus
  <2>3. CASE GivesUp(c)
    BY <2>0, <2>3 DEF GivesUp
  <2>4. CASE ComThreadReturns(c)
    BY <2>0, <2>4 DEF ComThreadReturns
  <2>5. CASE GetStatus(c)
    BY <2>0, <2>5 DEF GetStatus
  <2> QED BY <1>7, <2>1, <2>2, <2>3, <2>4, <2>5 DEF ThreadStep
<1>8. CASE ~Over /\ DialogHangs
  BY <1>8 DEF Over, DialogHangs
<1> QED BY <1>1, <1>2, <1>3, <1>4, <1>5, <1>6, <1>7, <1>8 DEF Next, Handlers

-----------------------------------------------------------------------------
(* Every step keeps the types. *)

\* The copy that the Edit dialog works on.
LEMMA OpenedType ==
  ASSUME SharedTypes, NEW r \in Rows, NEW cur \in {0, r}
  PROVE  Opened(settings[r], cur, Watched({r})) \in Dialog
<1>1. settings[r] \in Setting
  BY DEF SharedTypes, Rows
<1>2. Watched({r}) \in BOOLEAN
  BY DEF Watched
<1>3. FindString(settings[r].com) \in Ports \cup {0}
  BY FindStringType
<1> QED BY <1>1, <1>2, <1>3, SettingFields DEF Opened, Dialog

\* A setting that OnBnClickedOk accepts is one.
LEMMA EnteredType ==
  ASSUME SharedTypes, edit \in Dialog, NEW p \in Ports \cup {edit.shown},
         NEW a \in Addresses \cup {BadAddress}, Acceptable(p, a)
  PROVE  Entered(p, a) \in Setting
<1>1. p \in Ports /\ a \in Addresses
  BY DEF Acceptable, Valid, Line, Dialog
<1> QED BY <1>1 DEF Entered, Setting, Dialog

\* The list has a status for each row after fillSettings.
LEMMA FillTypes ==
  ASSUME SharedTypes', FillSettings
  PROVE  list' \in Seq(Statuses) /\ Len(list') = Len(settings')
<1>1. list' = [i \in DOMAIN settings' |-> settings'[i].status]
  BY DEF FillSettings
<1>2. DOMAIN settings' = 1 .. Len(settings') /\ Len(settings') \in Nat
  BY DEF SharedTypes
<1>3. \A i \in 1 .. Len(settings') : settings'[i].status \in Statuses
  BY SettingFields DEF SharedTypes
<1> QED BY <1>1, <1>2, <1>3

\* An accepted Add keeps the types; the dialog was opened with room for a row.
LEMMA AddTypes ==
  ASSUME SharedTypes, ScreenTypes, Handled, edit # NoEdit, NEW p \in Ports \cup {edit.shown},
         NEW a \in Addresses \cup {BadAddress}, AddAccepted(p, a)
  PROVE  SharedTypes' /\ ScreenTypes'
<1>0. Len(settings) \in Nat /\ settings \in Seq(Setting) /\ Rows = 1 .. Len(settings)
  BY RowsAre DEF SharedTypes
<1>1. Entered(p, a) \in Setting
  BY EnteredType DEF ScreenTypes, AddAccepted
<1>2. /\ settings' \in Seq(Setting) /\ Len(settings') = Len(settings) + 1
      /\ Rows' = 1 .. Len(settings') /\ Rows \subseteq Rows'
  BY <1>0, <1>1, AppendProperties DEF AddAccepted, Rows
<1>3. Len(settings') <= MaxRows
  BY <1>0, <1>2, DialogAssumption DEF Handled, AddAccepted
<1>4. capacity' \in Nat /\ Len(settings') <= capacity'
  BY <1>0, <1>2 DEF SharedTypes, AddAccepted, Grown
<1>5. pointer' \in [Configs -> Rows' \cup {0}]
  BY <1>2 DEF SharedTypes, AddAccepted
<1>6. meddled' \in BOOLEAN
  BY Zenon DEF SharedTypes, AddAccepted
<1>7. missed' \subseteq Rows'
  BY DEF AddAccepted, FillSettings
<1>8. SharedTypes'
  BY <1>2, <1>3, <1>4, <1>5, <1>6, <1>7 DEF SharedTypes, AddAccepted
<1>9. list' \in Seq(Statuses) /\ Len(list') = Len(settings')
  BY <1>8, FillTypes DEF AddAccepted
<1> QED BY <1>8, <1>9 DEF ScreenTypes, AddAccepted

\* So does an accepted Edit,
LEMMA EditTypes ==
  ASSUME SharedTypes, ScreenTypes, edit # NoEdit, NEW p \in Ports \cup {edit.shown},
         NEW a \in Addresses \cup {BadAddress}, EditAccepted(p, a)
  PROVE  SharedTypes' /\ ScreenTypes'
<1>0. Len(settings) \in Nat /\ settings \in Seq(Setting) /\ Rows = 1 .. Len(settings)
  BY RowsAre DEF SharedTypes
<1>1. Entered(p, a) \in Setting /\ edit.cur \in Rows
  BY EnteredType DEF ScreenTypes, EditAccepted, Dialog
<1>2. settings' \in Seq(Setting) /\ Len(settings') = Len(settings) /\ Rows' = Rows
  BY <1>0, <1>1 DEF EditAccepted, Rows
<1>3. meddled' \in BOOLEAN
  BY Zenon DEF SharedTypes, EditAccepted
<1>4. missed' \subseteq Rows'
  BY DEF EditAccepted, FillSettings
<1>5. SharedTypes'
  BY <1>2, <1>3, <1>4 DEF SharedTypes, EditAccepted
<1>6. list' \in Seq(Statuses) /\ Len(list') = Len(settings')
  BY <1>5, FillTypes DEF EditAccepted
<1> QED BY <1>5, <1>6 DEF ScreenTypes, EditAccepted

\* Delete,
LEMMA DeleteTypes ==
  ASSUME SharedTypes, ScreenTypes, NEW r \in Rows, OnBnClickedButtonDelete(r)
  PROVE  SharedTypes' /\ ScreenTypes'
<1>0. Len(settings) \in Nat /\ settings \in Seq(Setting) /\ Rows = 1 .. Len(settings)
  BY RowsAre DEF SharedTypes
<1>1. /\ settings' \in Seq(Setting) /\ Len(settings') = Len(settings) - 1
      /\ Rows' = 1 .. (Len(settings) - 1)
  <2>1. r \in 1 .. Len(settings) /\ settings' = RemoveAt(settings, r)
    BY <1>0 DEF OnBnClickedButtonDelete
  <2>2. settings' \in Seq(Setting) /\ Len(settings') = Len(settings) - 1
    BY <1>0, <2>1, RemoveAtValue
  <2> QED BY <2>2 DEF Rows
<1>2. pointer' \in [Configs -> Rows' \cup {0}]
  <2> SUFFICES ASSUME NEW c \in Configs
               PROVE  (IF pointer[c] = Len(settings) THEN 0 ELSE pointer[c]) \in Rows' \cup {0}
    BY DEF OnBnClickedButtonDelete
  <2>1. pointer[c] \in 0 .. Len(settings)
    BY <1>0 DEF SharedTypes
  <2> QED BY <1>0, <1>1, <2>1
<1>3. meddled' \in BOOLEAN
  BY Zenon DEF SharedTypes, OnBnClickedButtonDelete
<1>4. missed' \subseteq Rows'
  BY DEF OnBnClickedButtonDelete, FillSettings
<1>5. SharedTypes'
  BY <1>0, <1>1, <1>2, <1>3, <1>4, DialogAssumption DEF SharedTypes, OnBnClickedButtonDelete
<1>6. list' \in Seq(Statuses) /\ Len(list') = Len(settings')
  BY <1>5, FillTypes DEF OnBnClickedButtonDelete
<1> QED BY <1>5, <1>6 DEF ScreenTypes, OnBnClickedButtonDelete, Responsive

\* and whatever else the user clicks.
LEMMA UserTypes ==
  ASSUME SharedTypes, ScreenTypes, Handled, User
  PROVE  SharedTypes' /\ ScreenTypes'
<1>1. ASSUME OnBnClickedButtonAdd PROVE SharedTypes' /\ ScreenTypes'
  <2>1. Opened([com |-> 0, status |-> "Stopped", change |-> FALSE], 0, FALSE) \in Dialog
    <3>1. FindString(0) \in Ports \cup {0}
      BY FindStringType
    <3> QED BY <3>1, DialogAssumption DEF Opened, Dialog
  <2>2. \A r \in Rows : Opened(settings[r], 0, Watched({r})) \in Dialog
    BY OpenedType
  <2>3. edit' \in Dialog /\ Dialog' = Dialog
    BY <1>1, <2>1, <2>2 DEF OnBnClickedButtonAdd, shared, Dialog, Rows
  <2> QED BY <1>1, <2>3 DEF OnBnClickedButtonAdd, shared, ScreenTypes, SharedTypes, Rows
<1>2. ASSUME OnBnClickedButtonEdit PROVE SharedTypes' /\ ScreenTypes'
  <2>1. edit' \in Dialog /\ Dialog' = Dialog
    BY <1>2, OpenedType DEF OnBnClickedButtonEdit, shared, Dialog, Rows
  <2> QED BY <1>2, <2>1 DEF OnBnClickedButtonEdit, shared, ScreenTypes, SharedTypes, Rows
<1>3. ASSUME NEW p \in Ports \cup {edit.shown}, NEW a \in Addresses \cup {BadAddress},
             edit # NoEdit, OkRefused(p, a)
      PROVE  SharedTypes' /\ ScreenTypes'
  <2>1. edit \in Dialog /\ FindString(edit.com) \in Ports \cup {0}
    BY <1>3, FindStringType DEF ScreenTypes
  <2>2. edit' \in Dialog /\ Dialog' = Dialog
    BY <1>3, <2>1 DEF OkRefused, shared, Dialog, Rows
  <2> QED BY <1>3, <2>2 DEF OkRefused, shared, ScreenTypes, SharedTypes, Rows
<1>4. ASSUME EditCancelled PROVE SharedTypes' /\ ScreenTypes'
  <2>1. SharedTypes'
    BY <1>4 DEF EditCancelled, FillSettings, SharedTypes, Rows
  <2>2. list' \in Seq(Statuses) /\ Len(list') = Len(settings')
    BY <1>4, <2>1, FillTypes DEF EditCancelled
  <2> QED BY <1>4, <2>1, <2>2 DEF EditCancelled, ScreenTypes
<1>5. ASSUME OnBnClickedButtonApply \/ StopOrClose PROVE SharedTypes' /\ ScreenTypes'
  BY <1>5 DEF OnBnClickedButtonApply, StopOrClose, shared, ScreenTypes, SharedTypes, Rows,
     Dialog
<1> QED BY <1>1, <1>2, <1>3, <1>4, <1>5, AddTypes, EditTypes, DeleteTypes DEF User,
           OnBnClickedOk

\* So do the handlers' steps,
LEMMA HandlersTypes ==
  ASSUME ConfigInv, SharedTypes, ScreenTypes, Handled, Spare, Handlers \/ OnTimer
  PROVE  SharedTypes' /\ ScreenTypes'
<1>0. Len(settings) \in Nat /\ settings \in Seq(Setting) /\ Rows = 1 .. Len(settings)
  BY RowsAre DEF SharedTypes
<1>1. CASE NewThreadConfig
  <2>1. row \in Rows
    BY <1>1 DEF NewThreadConfig, Handled
  <2>2. pointer' \in [Configs -> Rows \cup {0}]
    BY <1>1, <2>1 DEF NewThreadConfig, SharedTypes
  <2> QED BY <1>1, <2>2 DEF NewThreadConfig, screen, ScreenTypes, SharedTypes, Rows, Dialog
<1>2. ASSUME Silence PROVE /\ told' \in [Configs -> Statuses]
                           /\ telling' \in [Configs -> Statuses \cup {"none"}]
  <2>1. \A c \in Configs :
          /\ (IF Sock \in running'[c] THEN told[c] ELSE "Stopped") \in Statuses
          /\ (IF Sock \in running'[c] THEN telling[c] ELSE "none") \in Statuses \cup {"none"}
    BY DialogAssumption DEF SharedTypes
  <2> QED BY <1>2, <2>1 DEF Silence
<1>3. CASE InConstructor
  BY <1>2, <1>3 DEF InConstructor, screen, ScreenTypes, SharedTypes, Rows, Dialog
<1>4. CASE PushBack
  <2>1. this \in Configs
    BY <1>4 DEF PushBack, Constructed, ConfigInv, ConfigTypeOK, Objects, Placed
  <2> QED BY <1>4, <2>1 DEF PushBack, shared, ScreenTypes, SharedTypes, Rows, Dialog
<1>5. CASE ApplyThrows
  BY <1>5 DEF ApplyThrows, ScreenTypes, SharedTypes, Rows, Dialog
<1>6. CASE DeleteThreadConfig
  BY <1>6 DEF DeleteThreadConfig, screen, shared, ScreenTypes, SharedTypes, Rows, Dialog
<1>7. CASE InDestructor
  BY <1>2, <1>7 DEF InDestructor, screen, ScreenTypes, SharedTypes, Rows, Dialog
<1>8. CASE NextThreadConfig
  <2>1. pointer' = [pointer EXCEPT ![this] = 0]
    BY <1>8 DEF NextThreadConfig
  <2>2. pointer' \in [Configs -> Rows \cup {0}]
    BY <2>1 DEF SharedTypes
  <2>3. row' \in Nat
    BY <1>8 DEF NextThreadConfig, ScreenTypes
  <2> QED BY <1>8, <2>2, <2>3 DEF NextThreadConfig, ScreenTypes, SharedTypes, Rows, Dialog
<1>9. CASE Clear
  BY <1>9 DEF Clear, shared, ScreenTypes, SharedTypes, Rows, Dialog
<1>10. ASSUME Len(settings') = Len(settings), settings' \in Seq(Setting), NEW r \in Rows,
              ReadFlag(r)
       PROVE  /\ handler' \in {"idle", "isStatusChange"} /\ row' \in Nat
              /\ flagRead' \in BOOLEAN
  <2>1. settings'[r] \in Setting
    BY <1>0, <1>10
  <2>2. settings'[r].change \in BOOLEAN
    BY <2>1, SettingFields
  <2> QED BY <1>0, <1>10, <2>2 DEF ReadFlag
<1>11. CASE OnTimer
  <2>1. 1 \in Rows
    BY <1>0, <1>11 DEF OnTimer
  <2>2. /\ handler' \in {"idle", "isStatusChange"} /\ row' \in Nat
        /\ flagRead' \in BOOLEAN
    BY <1>0, <1>10, <1>11, <2>1 DEF OnTimer, shared
  <2> QED BY <1>11, <2>2 DEF OnTimer, shared, ScreenTypes, SharedTypes, Rows, Dialog
<1>12. ASSUME Len(settings') = Len(settings), settings' \in Seq(Setting), NextRow
       PROVE  /\ handler' \in {"idle", "isStatusChange"} /\ row' \in Nat
              /\ flagRead' \in BOOLEAN
  <2>1. CASE row < Len(settings)
    <3>1. row + 1 \in Rows
      BY <1>0, <2>1 DEF ScreenTypes
    <3> QED BY <1>10, <1>12, <2>1, <3>1 DEF NextRow
  <2>2. CASE ~(row < Len(settings))
    <3>1. handler' = "idle" /\ row' = 0 /\ flagRead' = FALSE
      BY <1>12, <2>2 DEF NextRow
    <3> QED BY <3>1, Zenon
  <2> QED BY <2>1, <2>2
<1>13. CASE ResetFlag
  <2>1. row \in Rows
    BY <1>13 DEF ResetFlag, Handled
  <2>2. settings' \in Seq(Setting) /\ Len(settings') = Len(settings) /\ Rows' = Rows
    <3>0. settings[row] \in Setting
      BY <1>0, <2>1
    <3>1. [settings[row] EXCEPT !.change = FALSE] \in Setting
      BY <3>0 DEF Setting
    <3> QED BY <1>0, <1>13, <2>1, <3>1 DEF ResetFlag, Rows
  <2>3. /\ handler' \in {"idle", "isStatusChange", "getStatusString"} /\ row' \in Nat
        /\ flagRead' \in BOOLEAN
    <3>1. CASE flagRead
      BY <1>13, <3>1 DEF ResetFlag, ScreenTypes
    <3>2. CASE ~flagRead
      BY <1>12, <1>13, <2>2, <3>2 DEF ResetFlag
    <3> QED BY <3>1, <3>2
  <2>4. missed' \subseteq Rows'
    BY <1>13, <2>1, <2>2 DEF ResetFlag, SharedTypes
  <2> QED BY <1>13, <2>2, <2>3, <2>4 DEF ResetFlag, ScreenTypes, SharedTypes, Dialog
<1>14. CASE ShowStatus
  <2>1. row \in Rows /\ settings' = settings
    BY <1>14 DEF ShowStatus, Handled
  <2>2. settings[row].status \in Statuses
    BY <1>0, <2>1, SettingFields
  <2>3. list' \in Seq(Statuses) /\ Len(list') = Len(settings')
    BY <1>0, <1>14, <2>1, <2>2 DEF ShowStatus, ScreenTypes
  <2>4. /\ handler' \in {"idle", "isStatusChange"} /\ row' \in Nat
        /\ flagRead' \in BOOLEAN
    BY <1>0, <1>12, <1>14, <2>1 DEF ShowStatus
  <2>5. missed' \subseteq Rows'
    BY <1>14, <2>1 DEF ShowStatus, SharedTypes, Rows
  <2> QED BY <1>14, <2>1, <2>3, <2>4, <2>5 DEF ShowStatus, ScreenTypes, SharedTypes, Rows,
             Dialog
<1> QED BY <1>1, <1>3, <1>4, <1>5, <1>6, <1>7, <1>8, <1>9, <1>11, <1>13, <1>14
        DEF Handlers, Apply, StopThreads, UpdatePortSettings

\* and the socket threads' stores.
LEMMA ThreadTypes ==
  ASSUME ConfigTypeOK, SharedTypes, ScreenTypes, NEW c \in Configs, ThreadStep(c)
  PROVE  SharedTypes' /\ ScreenTypes'
<1>0. Len(settings) \in Nat /\ settings \in Seq(Setting) /\ Rows = 1 .. Len(settings)
  BY RowsAre DEF SharedTypes
<1>1. ASSUME NEW s \in Statuses, SetStatusFlag(c, s) PROVE SharedTypes' /\ ScreenTypes'
  <2>1. CASE pointer[c] \in Rows
    <3> DEFINE r == pointer[c]
    <3>1. settings' = [settings EXCEPT ![r].change = @ \/ settings[r].status # s]
          /\ telling' = [telling EXCEPT ![c] = s]
      BY <1>1, <2>1 DEF SetStatusFlag
    <3>2. settings' \in Seq(Setting) /\ Len(settings') = Len(settings) /\ Rows' = Rows
      <4>1. (settings[r].change \/ settings[r].status # s) \in BOOLEAN
        BY Zenon
      <4>2. settings[r] \in Setting
        BY <1>0, <2>1
      <4>3. [settings[r] EXCEPT !.change = @ \/ settings[r].status # s] \in Setting
        BY <4>1, <4>2 DEF Setting
      <4> QED BY <1>0, <2>1, <3>1, <4>3 DEF Rows
    <3> QED BY <1>1, <3>1, <3>2 DEF SetStatusFlag, screen, ScreenTypes, SharedTypes, Dialog
  <2>2. CASE pointer[c] \notin Rows
    BY <1>1, <2>2 DEF SetStatusFlag, screen, ScreenTypes, SharedTypes, Rows, Dialog
  <2> QED BY <2>1, <2>2
<1>2. CASE SetStatus(c)
  <2>1. telling[c] \in Statuses
    BY <1>2 DEF SetStatus, SharedTypes
  <2>2. told' \in [Configs -> Statuses] /\ telling' \in [Configs -> Statuses \cup {"none"}]
    BY <1>2, <2>1 DEF SetStatus, SharedTypes
  <2>3. CASE pointer[c] \in Rows
    <3> DEFINE r == pointer[c]
    <3>1. settings' \in Seq(Setting) /\ Len(settings') = Len(settings) /\ Rows' = Rows
      <4>0. settings[r] \in Setting
        BY <1>0, <2>3
      <4>1. [settings[r] EXCEPT !.status = telling[c]] \in Setting
        BY <2>1, <4>0 DEF Setting
      <4>2. settings' = [settings EXCEPT ![r].status = telling[c]]
        BY <1>2, <2>3 DEF SetStatus
      <4> QED BY <1>0, <2>3, <4>1, <4>2 DEF Rows
    <3> QED BY <1>2, <2>2, <3>1 DEF SetStatus, screen, ScreenTypes, SharedTypes, Dialog
  <2>4. CASE pointer[c] \notin Rows
    BY <1>2, <2>2, <2>4 DEF SetStatus, screen, ScreenTypes, SharedTypes, Rows, Dialog
  <2> QED BY <2>3, <2>4
<1>3. CASE GivesUp(c) \/ ComThreadReturns(c) \/ GetStatus(c)
  BY <1>3 DEF GivesUp, ComThreadReturns, GetStatus, Corrupt, screen, shared, ScreenTypes,
       SharedTypes, Rows, Dialog
<1> QED BY <1>1, <1>2, <1>3 DEF ThreadStep

\* Every step keeps the types.
LEMMA TypeStep ==
  ASSUME ConfigInv, ConfigInv', TypeOK, Handled, Spare, [Next]_vars, ~DialogHangs
  PROVE  TypeOK'
<1>1. SharedTypes /\ ScreenTypes /\ ConfigTypeOK /\ ConfigTypeOK'
  BY TypesSplit DEF ConfigInv
<1>2. CASE UNCHANGED vars
  BY <1>1, <1>2, TypesSplit DEF vars, screen, shared, SharedTypes, ScreenTypes, Rows, Dialog,
     TypeOK
<1>3. (SharedTypes' /\ ScreenTypes') \/ UNCHANGED vars
  BY <1>1, UserTypes, HandlersTypes, ThreadTypes DEF Next
<1> QED BY <1>1, <1>2, <1>3 DEF TypeOK, SharedTypes, ScreenTypes, Setting, Dialog

-----------------------------------------------------------------------------
(* What the actions do to the settings. *)

\* isStatusChange resets one flag and no more.
LEMMA ResetFlagEffect ==
  ASSUME SharedTypes, Handled, ResetFlag
  PROVE  /\ Rows' = Rows /\ Len(settings') = Len(settings) /\ row \in Rows
         /\ \A i \in Rows : /\ settings'[i].com = settings[i].com
                            /\ settings'[i].addr = settings[i].addr
                            /\ settings'[i].status = settings[i].status
                            /\ i # row => settings'[i].change = settings[i].change
<1>0. Len(settings) \in Nat /\ settings \in Seq(Setting) /\ Rows = 1 .. Len(settings)
  BY RowsAre DEF SharedTypes
<1>1. row \in Rows /\ settings' = [settings EXCEPT ![row].change = FALSE]
  BY DEF ResetFlag, Handled
<1>2. \A i \in Rows : settings[i] \in Setting
  BY <1>0
<1>3. Rows' = Rows /\ Len(settings') = Len(settings)
  BY <1>0, <1>1 DEF Rows
<1>4. \A i \in Rows : settings'[i] = IF i = row THEN [settings[row] EXCEPT !.change = FALSE]
                                    ELSE settings[i]
  BY <1>0, <1>1
<1>5. LET x == [settings[row] EXCEPT !.change = FALSE]
      IN  /\ x.com = settings[row].com /\ x.addr = settings[row].addr
          /\ x.status = settings[row].status
  BY <1>1, <1>2 DEF Setting
<1> QED BY <1>1, <1>3, <1>4, <1>5

\* The first half of setStatus changes one flag, and never to FALSE.
LEMMA SetStatusFlagEffect ==
  ASSUME SharedTypes, NEW c \in Configs, NEW s, pointer[c] \in Rows, SetStatusFlag(c, s)
  PROVE  /\ Rows' = Rows /\ Len(settings') = Len(settings)
         /\ \A i \in Rows : /\ settings'[i].com = settings[i].com
                            /\ settings'[i].addr = settings[i].addr
                            /\ settings'[i].status = settings[i].status
                            /\ settings[i].change => settings'[i].change
                            /\ i # pointer[c] => settings'[i].change = settings[i].change
         /\ settings[pointer[c]].status # s => settings'[pointer[c]].change
         /\ telling' = [telling EXCEPT ![c] = s]
<1> DEFINE r == pointer[c]
           x == [settings[r] EXCEPT !.change = settings[r].change \/ settings[r].status # s]
<1>0. Len(settings) \in Nat /\ settings \in Seq(Setting) /\ Rows = 1 .. Len(settings)
  BY RowsAre DEF SharedTypes
<1>1. /\ r \in Rows /\ settings' = [settings EXCEPT ![r] = x]
      /\ telling' = [telling EXCEPT ![c] = s]
  BY DEF SetStatusFlag
<1>2. settings[r] \in Setting
  BY <1>0
<1>3. /\ x.com = settings[r].com /\ x.addr = settings[r].addr /\ x.status = settings[r].status
      /\ x.change = (settings[r].change \/ settings[r].status # s)
  BY <1>2 DEF Setting
<1>4. (settings[r].change => x.change) /\ (settings[r].status # s => x.change)
  BY <1>3
<1> HIDE DEF x
<1>5. Rows' = Rows /\ Len(settings') = Len(settings)
  BY <1>0, <1>1 DEF Rows
<1>6. \A i \in Rows : settings'[i] = IF i = r THEN x ELSE settings[i]
  BY <1>0, <1>1
<1> QED BY <1>1, <1>3, <1>4, <1>5, <1>6

\* The second half changes one status.
LEMMA SetStatusEffect ==
  ASSUME SharedTypes, NEW c \in Configs, pointer[c] \in Rows, SetStatus(c)
  PROVE  /\ Rows' = Rows /\ Len(settings') = Len(settings)
         /\ \A i \in Rows : /\ settings'[i].com = settings[i].com
                            /\ settings'[i].addr = settings[i].addr
                            /\ settings'[i].change = settings[i].change
                            /\ i # pointer[c] => settings'[i].status = settings[i].status
         /\ settings'[pointer[c]].status = telling[c]
<1> DEFINE r == pointer[c]
           x == [settings[r] EXCEPT !.status = telling[c]]
<1>0. Len(settings) \in Nat /\ settings \in Seq(Setting) /\ Rows = 1 .. Len(settings)
  BY RowsAre DEF SharedTypes
<1>1. r \in Rows /\ settings' = [settings EXCEPT ![r] = x]
  BY DEF SetStatus
<1>2. settings[r] \in Setting
  BY <1>0
<1>3. /\ x.com = settings[r].com /\ x.addr = settings[r].addr /\ x.change = settings[r].change
      /\ x.status = telling[c]
  BY <1>2 DEF Setting
<1> HIDE DEF x
<1>4. Rows' = Rows /\ Len(settings') = Len(settings)
  BY <1>0, <1>1 DEF Rows
<1>5. \A i \in Rows : settings'[i] = IF i = r THEN x ELSE settings[i]
  BY <1>0, <1>1
<1> QED BY <1>1, <1>3, <1>4, <1>5

\* push_back appends a setting.
LEMMA AddEffect ==
  ASSUME SharedTypes, ScreenTypes, edit # NoEdit, NEW p \in Ports \cup {edit.shown},
         NEW a \in Addresses \cup {BadAddress}, AddAccepted(p, a)
  PROVE  /\ Rows' = 1 .. Len(settings) + 1 /\ Len(settings') = Len(settings) + 1
         /\ \A i \in Rows : settings'[i] = settings[i]
         /\ settings'[Len(settings) + 1] = Entered(p, a)
<1>0. Len(settings) \in Nat /\ settings \in Seq(Setting) /\ Rows = 1 .. Len(settings)
  BY RowsAre DEF SharedTypes
<1>1. Entered(p, a) \in Setting /\ settings' = Append(settings, Entered(p, a))
  BY EnteredType DEF ScreenTypes, AddAccepted
<1> QED BY <1>0, <1>1, AppendProperties DEF Rows

\* Edit replaces one.
LEMMA EditEffect ==
  ASSUME SharedTypes, ScreenTypes, edit # NoEdit, NEW p, NEW a, EditAccepted(p, a)
  PROVE  /\ Rows' = Rows /\ Len(settings') = Len(settings) /\ edit.cur \in Rows
         /\ \A i \in Rows \ {edit.cur} : settings'[i] = settings[i]
         /\ settings'[edit.cur] = Entered(p, a)
<1>0. Len(settings) \in Nat /\ settings \in Seq(Setting) /\ Rows = 1 .. Len(settings)
  BY RowsAre DEF SharedTypes
<1>1. edit.cur \in Rows /\ settings' = [settings EXCEPT ![edit.cur] = Entered(p, a)]
  BY DEF EditAccepted, ScreenTypes, Dialog
<1> QED BY <1>0, <1>1 DEF Rows

\* Delete takes out one and moves those behind it.
LEMMA DeleteEffect ==
  ASSUME SharedTypes, NEW r \in Rows, OnBnClickedButtonDelete(r)
  PROVE  /\ Rows' = 1 .. Len(settings) - 1 /\ Len(settings') = Len(settings) - 1
         /\ Len(settings) \in Rows
         /\ \A i \in Rows : i < r => settings'[i] = settings[i]
         /\ \A i \in Rows' : i >= r => i + 1 \in Rows /\ settings'[i] = settings[i + 1]
<1>0. Len(settings) \in Nat /\ settings \in Seq(Setting) /\ Rows = 1 .. Len(settings)
  BY RowsAre DEF SharedTypes
<1>1. r \in 1 .. Len(settings) /\ settings' = RemoveAt(settings, r)
  BY <1>0 DEF OnBnClickedButtonDelete
<1>2. /\ settings' \in Seq(Setting) /\ Len(settings') = Len(settings) - 1
      /\ \A i \in 1 .. (r - 1) : settings'[i] = settings[i]
      /\ \A i \in r .. (Len(settings) - 1) : settings'[i] = settings[i + 1]
  BY <1>0, <1>1, RemoveAtValue
<1>3. Rows' = 1 .. Len(settings) - 1 /\ Len(settings) \in Rows
  BY <1>0, <1>1, <1>2 DEF Rows
<1>4. \A i \in Rows : i < r => settings'[i] = settings[i]
  BY <1>0, <1>1, <1>2
<1>5. \A i \in Rows' : i >= r => i + 1 \in Rows /\ settings'[i] = settings[i + 1]
  BY <1>0, <1>1, <1>2, <1>3
<1> QED BY <1>2, <1>3, <1>4, <1>5

-----------------------------------------------------------------------------
(* Handlers and the objects they own. *)

\* A handler goes through its rows in order, and only the timer's runs while the Edit
\* dialog is shown.
LEMMA HandledStep ==
  ASSUME ConfigInv, TypeOK, TypeOK', Handled, Spare, [Next]_vars, ~DialogHangs
  PROVE  Handled'
<1> DEFINE Count == Len(settings)
<1>0. /\ SharedTypes /\ ScreenTypes /\ ConfigTypeOK /\ SharedTypes' /\ ScreenTypes'
      /\ Rows = 1 .. Len(settings) /\ Len(settings) \in Nat
      /\ threadConfigs \in Seq(Configs) /\ Len(threadConfigs) \in Nat
      /\ DOMAIN threadConfigs = 1 .. Len(threadConfigs)
      /\ row \in Nat
  BY TypesSplit, RowsAre DEF SharedTypes, ScreenTypes, TypeOK, Setting, Dialog, Rows
<1>1. CASE UNCHANGED vars
  BY <1>1 DEF vars, configVars, screen, shared, Handled, Rows
<1>2. CASE OnBnClickedButtonAdd
  <2>1. edit'.cur = 0 => Len(settings') < MaxRows
    BY <1>2 DEF OnBnClickedButtonAdd, shared
  <2> QED BY <1>2, <2>1 DEF OnBnClickedButtonAdd, Responsive, configVars, shared, Handled, Rows
<1>3. CASE OnBnClickedButtonEdit
  <2>1. PICK r \in Rows : edit' = Opened(settings[r], r, Watched({r}))
    BY <1>3 DEF OnBnClickedButtonEdit
  <2>2. edit'.cur # 0
    BY <1>0, <2>1 DEF Opened
  <2> QED BY <1>3, <2>2 DEF OnBnClickedButtonEdit, Responsive, configVars, shared, Handled, Rows
<1>4. ASSUME NEW p, NEW a, edit # NoEdit, OkRefused(p, a) PROVE Handled'
  <2>1. edit'.cur = edit.cur
    BY <1>0, <1>4 DEF OkRefused, ScreenTypes, Dialog
  <2> QED BY <1>4, <2>1 DEF OkRefused, configVars, shared, Handled, Rows
<1>5. ASSUME handler = "idle", edit' = NoEdit, UNCHANGED <<configVars, handler>> PROVE Handled'
  BY <1>5 DEF configVars, Handled
<1>6. ASSUME NEW p, NEW a, AddAccepted(p, a) \/ EditAccepted(p, a) PROVE Handled'
  BY <1>5, <1>6 DEF AddAccepted, EditAccepted
<1>7. CASE EditCancelled
  BY <1>5, <1>7 DEF EditCancelled
<1>8. ASSUME NEW r \in Rows, OnBnClickedButtonDelete(r) PROVE Handled'
  BY <1>5, <1>8 DEF OnBnClickedButtonDelete, Responsive
<1>9. CASE OnBnClickedButtonApply
  <2>1. Rows' = Rows /\ 1 \in Rows /\ Len(threadConfigs) = 0
    BY <1>0, <1>9 DEF OnBnClickedButtonApply, shared, Rows
  <2> QED BY <1>9, <2>1 DEF OnBnClickedButtonApply, Responsive, configVars, shared, Handled,
             Rows
<1>10. CASE StopOrClose
  BY <1>0, <1>10 DEF StopOrClose, Responsive, configVars, shared, Handled, Rows
<1>11. ASSUME NEW r \in Rows, ReadFlag(r), Rows' = Rows, Len(settings') = Len(settings),
              UNCHANGED <<configVars, edit>>, call = "none"
       PROVE  Handled'
  BY <1>11 DEF configVars, ReadFlag, Handled
<1>12. CASE OnTimer
  <2>1. 1 \in Rows /\ call = "none"
    BY <1>0, <1>12 DEF OnTimer, Handled, ConfigTypeOK
  <2> QED BY <1>11, <1>12, <2>1 DEF OnTimer, shared, Rows
<1>13. CASE NewThreadConfig
  BY <1>13 DEF NewThreadConfig, Construct, screen, Handled, Rows
<1>14. CASE InConstructor
  BY <1>14 DEF InConstructor, ConstructorStep, Create, CreateFails, Undo, screen, Handled, Rows
<1>15. CASE PushBack
  <2>1. /\ handler = "apply" /\ row \in Rows /\ Len(threadConfigs) = row - 1 /\ call' = "none"
        /\ edit' = edit /\ settings' = settings
    BY <1>15 DEF PushBack, Constructed, Handled, shared
  <2>2. Len(threadConfigs') = row
    <3>1. threadConfigs' = Append(threadConfigs, this)
      BY <1>15 DEF PushBack
    <3> QED BY <1>0, <2>1, <3>1
  <2>3. CASE row < Len(settings)
    <3>1. row' = row + 1 /\ handler' = "apply"
      BY <1>15, <2>1, <2>3 DEF PushBack
    <3>2. row + 1 \in Rows' /\ (row + 1) - 1 = row
      BY <1>0, <2>1, <2>3 DEF Rows
    <3> QED BY <2>1, <2>2, <3>1, <3>2 DEF Handled
  <2>4. CASE ~(row < Len(settings))
    <3>1. handler' = "idle"
      BY <1>15, <2>4 DEF PushBack
    <3> QED BY <2>1, <3>1 DEF Handled
  <2> QED BY <2>3, <2>4
<1>16. CASE ApplyThrows
  BY <1>16 DEF ApplyThrows, Thrown, Free, Handled, Rows
<1>17. CASE DeleteThreadConfig
  <2>1. row \in DOMAIN threadConfigs
    BY <1>0, <1>17 DEF DeleteThreadConfig, Handled
  <2> QED BY <1>0, <1>17, <2>1 DEF DeleteThreadConfig, Destroy, Corrupt, screen, shared,
             Handled, Rows
<1>18. CASE InDestructor
  BY <1>18 DEF InDestructor, DestroyStep, screen, Handled, Rows
<1>19. CASE NextThreadConfig
  <2>1. handler = "stop" /\ row \in 1 .. Len(threadConfigs) /\ call' = "none"
    BY <1>0, <1>19 DEF NextThreadConfig, Deleted, Free, Handled
  <2>2. row' \in 1 .. Len(threadConfigs) + 1
    BY <1>0, <1>19, <2>1 DEF NextThreadConfig
  <2> QED BY <1>19, <2>1, <2>2 DEF NextThreadConfig, Handled, Rows
<1>20. CASE Clear
  <2>1. call = "none"
    BY <1>0, <1>20 DEF Clear, Handled, ConfigTypeOK
  <2> QED BY <1>20, <2>1 DEF Clear, configVars, shared, Handled, Rows
<1>21. ASSUME NextRow, Rows' = Rows, Len(settings') = Len(settings),
              handler \in {"isStatusChange", "getStatusString"}, UNCHANGED <<configVars, edit>>
       PROVE  Handled'
  <2>1. call = "none"
    BY <1>0, <1>21 DEF Handled, ConfigTypeOK
  <2>2. CASE row < Len(settings)
    <3>1. row + 1 \in Rows
      BY <1>0, <2>2
    <3> QED BY <1>11, <1>21, <2>1, <2>2, <3>1 DEF NextRow
  <2>3. CASE ~(row < Len(settings))
    BY <1>21, <2>1, <2>3 DEF NextRow, configVars, Handled
  <2> QED BY <2>2, <2>3
<1>22. CASE ResetFlag
  <2>1. Rows' = Rows /\ Len(settings') = Len(settings) /\ row \in Rows
    BY <1>0, <1>22, ResetFlagEffect
  <2>2. CASE flagRead
    BY <1>22, <2>1, <2>2 DEF ResetFlag, configVars, Handled
  <2>3. CASE ~flagRead
    BY <1>21, <1>22, <2>1, <2>3 DEF ResetFlag
  <2> QED BY <2>2, <2>3
<1>23. CASE ShowStatus
  BY <1>21, <1>23 DEF ShowStatus, Rows
<1>24. ASSUME Rows' = Rows, Len(settings') = Len(settings),
              UNCHANGED <<call, this, screen, threadConfigs>>
       PROVE  Handled'
  BY <1>24 DEF screen, Handled
<1>25. ASSUME NEW c \in Configs, NEW s \in Statuses, SetStatusFlag(c, s) PROVE Handled'
  <2>1. Rows' = Rows /\ Len(settings') = Len(settings)
    BY <1>0, <1>25, SetStatusFlagEffect DEF SetStatusFlag, Rows
  <2> QED BY <1>24, <1>25, <2>1 DEF SetStatusFlag, Corrupt, configVars
<1>26. ASSUME NEW c \in Configs, SetStatus(c) PROVE Handled'
  <2>1. Rows' = Rows /\ Len(settings') = Len(settings)
    BY <1>0, <1>26, SetStatusEffect DEF SetStatus, Rows
  <2> QED BY <1>24, <1>26, <2>1 DEF SetStatus, Returns, Corrupt, configVars
<1>27. ASSUME NEW c \in Configs, GivesUp(c) \/ ComThreadReturns(c) \/ GetStatus(c)
      PROVE  Handled'
  BY <1>24, <1>27 DEF GivesUp, ComThreadReturns, GetStatus, Corrupt, Returns, shared, Rows
<1> QED BY <1>1, <1>2, <1>3, <1>4, <1>6, <1>7, <1>8, <1>9, <1>10, <1>12, <1>13, <1>14, <1>15,
           <1>16, <1>17, <1>18, <1>19, <1>20, <1>22, <1>23, <1>25, <1>26, <1>27
        DEF Next, User, Handlers, Apply, StopThreads, UpdatePortSettings, ThreadStep,
        OnBnClickedOk

\* There are no objects at the start.
LEMMA OwnedInit == Init => Owned
BY DEF Init, ConfigInit, Owned, Live, Building

\* Every action but seven leaves what Owned speaks of alone.
LEMMA OwnersChange ==
  ASSUME [Next]_vars, ~DialogHangs
  PROVE  \/ UNCHANGED <<threadConfigs, exists, handler, row, call, this>>
         \/ /\ UNCHANGED <<threadConfigs, exists, call, this>>
            /\ handler # "stop" /\ handler' # "stop"
         \/ StopOrClose \/ NewThreadConfig \/ InConstructor \/ PushBack \/ ApplyThrows
         \/ DeleteThreadConfig \/ NextThreadConfig \/ Clear
<1>1. CASE UNCHANGED vars
  BY <1>1 DEF vars, configVars, screen
<1>2. CASE User
  BY <1>2 DEF User, OnBnClickedButtonAdd, OnBnClickedButtonEdit, OnBnClickedButtonDelete,
       OnBnClickedOk, AddAccepted, EditAccepted, OkRefused, EditCancelled,
       OnBnClickedButtonApply, Responsive, configVars
<1>3. CASE OnTimer
  BY <1>3 DEF OnTimer, ReadFlag, configVars
<1>4. CASE UpdatePortSettings
  BY <1>4 DEF UpdatePortSettings, ResetFlag, ShowStatus, NextRow, ReadFlag, configVars
<1>5. CASE InDestructor
  BY <1>5 DEF InDestructor, DestroyStep, screen
<1>6. ASSUME NEW c \in Configs, ThreadStep(c)
      PROVE  UNCHANGED <<threadConfigs, exists, handler, row, call, this>>
  BY <1>6 DEF ThreadStep, SetStatusFlag, SetStatus, GivesUp, ComThreadReturns, GetStatus,
       Returns, Corrupt,
       configVars, screen
<1> QED BY <1>1, <1>2, <1>3, <1>4, <1>5, <1>6 DEF Next, Handlers, Apply, StopThreads

\* Apply appends each object it has made, Stop deletes each once, in order: nobody else
\* touches them.
LEMMA OwnedStep ==
  ASSUME ConfigInv, TypeOK, Handled, Spare, Owned, [Next]_vars, ~DialogHangs
  PROVE  Owned'
<1>0. /\ threadConfigs \in Seq(Configs) /\ Len(threadConfigs) \in Nat /\ row \in Nat
      /\ DOMAIN threadConfigs = 1 .. Len(threadConfigs)
      /\ call \in {"none", "construct", "undo", "destroy"} /\ ConfigTypeOK /\ SharedTypes
  BY TypesSplit DEF TypeOK, ConfigTypeOK, SharedTypes, ScreenTypes
<1>1. CASE UNCHANGED <<threadConfigs, exists, handler, row, call, this>>
  BY <1>1 DEF Owned, Live, Building
<1>2. CASE /\ UNCHANGED <<threadConfigs, exists, call, this>>
           /\ handler # "stop" /\ handler' # "stop"
  BY <1>2 DEF Owned, Live, Building
<1>3. CASE StopOrClose
  BY <1>3 DEF StopOrClose, Responsive, configVars, Owned, Live, Building
<1>4. CASE NewThreadConfig
  <2> DEFINE c == Min(Configs \ exists)
  <2>1. handler = "apply" /\ call = "none" /\ call' = "construct" /\ this' = c
        /\ exists' = exists \cup {c} /\ c \notin exists
        /\ UNCHANGED <<threadConfigs, handler, row>>
    BY <1>4 DEF NewThreadConfig, Construct, screen
  <2> HIDE DEF c
  <2> QED BY <2>1 DEF Owned, Live, Building
<1>5. CASE InConstructor
  BY <1>5 DEF InConstructor, ConstructorStep, Create, CreateFails, Undo, screen, Owned, Live,
     Building
<1>6. CASE PushBack
  <2>1. /\ handler = "apply" /\ call = "construct" /\ call' = "none" /\ exists' = exists
        /\ handler' # "stop" /\ this \in Configs
    BY <1>6 DEF PushBack, Constructed, Handled, ConfigInv, ConfigTypeOK, Objects, Placed
  <2> DEFINE n == Len(threadConfigs)
  <2>2. /\ Len(threadConfigs') = n + 1
        /\ \A i \in 1 .. n : threadConfigs'[i] = threadConfigs[i]
        /\ threadConfigs'[n + 1] = this
    <3>1. threadConfigs' = Append(threadConfigs, this)
      BY <1>6 DEF PushBack
    <3> QED BY <1>0, <2>1, <3>1, AppendProperties
  <2>3. \A i, j \in 1 .. (n + 1) : threadConfigs'[i] = threadConfigs'[j] => i = j
    BY <1>0, <2>1, <2>2 DEF Owned, Building
  <2>4. exists' = {threadConfigs'[i] : i \in 1 .. (n + 1)}
    <3>1. exists = {threadConfigs[i] : i \in 1 .. n} \cup {this}
      BY <2>1 DEF Owned, Live, Building
    <3>2. \A x : x \in exists' <=> \E i \in 1 .. (n + 1) : x = threadConfigs'[i]
      <4>1. \A i \in 1 .. (n + 1) : i \in 1 .. n \/ i = n + 1
        BY <1>0
      <4>2. n + 1 \in 1 .. (n + 1) /\ \A i \in 1 .. n : i \in 1 .. (n + 1)
        BY <1>0
      <4> QED BY <2>1, <2>2, <3>1, <4>1, <4>2
    <3> QED BY <3>2
  <2> QED BY <2>1, <2>2, <2>3, <2>4 DEF Owned, Live, Building
<1>7. CASE ApplyThrows
  <2>1. /\ handler = "apply" /\ call = "undo" /\ call' = "none" /\ exists' = exists \ {this}
        /\ handler' # "stop" /\ threadConfigs' = threadConfigs
    BY <1>7 DEF ApplyThrows, Thrown, Free, Handled
  <2> QED BY <2>1 DEF Owned, Live, Building
<1>8. CASE DeleteThreadConfig
  <2>1. row \in Live /\ threadConfigs[row] \in exists
    BY <1>0, <1>8 DEF DeleteThreadConfig, Handled, Owned, Live
  <2>2. /\ call = "none" /\ call' = "destroy"
        /\ UNCHANGED <<exists, threadConfigs, handler, row>>
    BY <1>8, <2>1 DEF DeleteThreadConfig, Destroy, screen
  <2> QED BY <2>2 DEF Owned, Live, Building
<1>9. CASE NextThreadConfig
  <2>1. /\ handler = "stop" /\ handler' = handler /\ call = "destroy" /\ call' = "none"
        /\ this = threadConfigs[row] /\ exists' = exists \ {this} /\ row' = row + 1
        /\ threadConfigs' = threadConfigs /\ row \in 1 .. Len(threadConfigs)
    BY <1>0, <1>9 DEF NextThreadConfig, Deleted, Free, Handled
  <2>2. exists = {threadConfigs[i] : i \in row .. Len(threadConfigs)}
    BY <2>1 DEF Owned, Live, Building
  <2>3. exists' = {threadConfigs[i] : i \in (row + 1) .. Len(threadConfigs)}
    <3>1. \A i \in row .. Len(threadConfigs) : i \in 1 .. Len(threadConfigs)
      BY <1>0, <2>1
    <3>2. \A i \in row .. Len(threadConfigs) : i = row \/ i \in (row + 1) .. Len(threadConfigs)
      BY <1>0, <2>1
    <3>3. \A i \in (row + 1) .. Len(threadConfigs) : i \in row .. Len(threadConfigs) /\ i # row
      BY <1>0, <2>1
    <3>4. \A i \in (row + 1) .. Len(threadConfigs) : threadConfigs[i] # threadConfigs[row]
      BY <2>1, <3>1, <3>3 DEF Owned
    <3> QED BY <2>1, <2>2, <3>2, <3>3, <3>4
  <2> QED BY <2>1, <2>3 DEF Owned, Live, Building
<1>10. CASE Clear
  <2>1. handler = "stop" /\ row > Len(threadConfigs) /\ call = "none" /\ exists' = exists
        /\ call' = call /\ threadConfigs' = <<>> /\ handler' # "stop"
    BY <1>0, <1>10 DEF Clear, Handled, configVars
  <2>2. exists = {}
    <3>1. row .. Len(threadConfigs) = {}
      BY <1>0, <2>1
    <3> QED BY <2>1, <3>1 DEF Owned, Live, Building
  <2>3. Len(threadConfigs') = 0 /\ 1 .. 0 = {}
    BY <2>1
  <2>4. ~Building' /\ Live' = {}
    BY <2>1, <2>3 DEF Live, Building
  <2> QED BY <2>1, <2>2, <2>3, <2>4 DEF Owned
<1> QED BY <1>1, <1>2, <1>3, <1>4, <1>5, <1>6, <1>7, <1>8, <1>9, <1>10, OwnersChange

\* Only the button makes the dialog's thread enter Apply.
LEMMA OnlyButtonApplies ==
  ASSUME [Next]_vars, ~DialogHangs, handler # "apply", ~OnBnClickedButtonApply
  PROVE  handler' # "apply"
BY DEF Next, vars, User, OnBnClickedButtonAdd, OnBnClickedButtonEdit, OnBnClickedButtonDelete,
       OnBnClickedOk, AddAccepted, EditAccepted, OkRefused, EditCancelled, StopOrClose, OnTimer,
       ReadFlag, NextRow, Handlers, Apply, StopThreads, UpdatePortSettings, NewThreadConfig,
       InConstructor, PushBack, ApplyThrows, DeleteThreadConfig, InDestructor, NextThreadConfig,
       Clear, ResetFlag, ShowStatus, ThreadStep, SetStatusFlag, SetStatus, GivesUp,
       ComThreadReturns, GetStatus, Corrupt, screen

\* In Apply it does nothing else.
LEMMA WhileApplying ==
  ASSUME [Next]_vars, ~DialogHangs, Handled, handler = "apply"
  PROVE  \/ UNCHANGED vars
         \/ NewThreadConfig \/ InConstructor \/ PushBack \/ ApplyThrows
         \/ \E c \in Configs : ThreadStep(c)
<1>1. ~User /\ ~OnTimer /\ ~StopThreads /\ ~UpdatePortSettings
  BY DEF User, OnBnClickedButtonAdd, OnBnClickedButtonEdit, OnBnClickedButtonDelete,
         OnBnClickedOk, AddAccepted, EditAccepted, OkRefused, EditCancelled,
         OnBnClickedButtonApply, StopOrClose, Responsive, OnTimer, StopThreads,
         DeleteThreadConfig,
         InDestructor, DestroyStep, NextThreadConfig, Deleted, Clear, UpdatePortSettings,
         ResetFlag,
         ShowStatus, Handled
<1> QED BY <1>1 DEF Next, Handlers, Apply

\* Apply was allowed to begin with an object for each row, and makes one for each.
LEMMA SpareStep ==
  ASSUME ConfigInv, TypeOK, TypeOK', Handled, Spare, [Next]_vars, ~DialogHangs
  PROVE  Spare'
<1>0. /\ Len(settings) \in Nat /\ row \in Nat /\ SharedTypes /\ ConfigTypeOK
  BY TypesSplit, RowsAre DEF TypeOK, ScreenTypes
<1>1. ASSUME UNCHANGED <<exists, handler, row, call, settings>> PROVE Spare'
  BY <1>1 DEF Spare
<1>2. ASSUME handler' # "apply" PROVE Spare'
  BY <1>2 DEF Spare
<1>3. ASSUME handler # "apply", ~OnBnClickedButtonApply PROVE handler' # "apply"
  BY <1>3, OnlyButtonApplies
<1>4. CASE OnBnClickedButtonApply
  <2>1. call = "none"
    BY <1>0, <1>4 DEF OnBnClickedButtonApply, Responsive, Handled, ConfigTypeOK
  <2>2. /\ Cardinality(Configs \ exists) >= Len(settings) /\ row' = 1
        /\ UNCHANGED <<call, exists, settings>>
    BY <1>4 DEF OnBnClickedButtonApply, configVars, shared
  <2>3. Len(settings) - 1 + 1 = Len(settings)
    BY <1>0
  <2> QED BY <2>1, <2>2, <2>3 DEF Spare
<1>5. CASE NewThreadConfig
  <2> DEFINE c == Min(Configs \ exists)
             free == Configs \ exists
  <2>1. /\ handler = "apply" /\ call = "none" /\ call' = "construct"
        /\ exists' = exists \cup {c}
        /\ UNCHANGED <<row, settings>>
    BY <1>5 DEF NewThreadConfig, Construct, screen
  <2>2. c \in free
    BY <1>0, <2>1, FreeObject
  <2>3. IsFiniteSet(free)
    <3>1. free \in SUBSET Configs
      OBVIOUS
    <3> QED BY <3>1, DialogAssumption, FS_Subset
  <2>4. Cardinality(free \ {c}) = Cardinality(free) - 1 /\ Cardinality(free) \in Nat
    BY <2>2, <2>3, FS_RemoveElement, FS_CardinalityType
  <2>5. Configs \ exists' = free \ {c}
    BY <2>1
  <2>6. Cardinality(free) >= Len(settings) - row + 1
    BY <2>1 DEF Spare
  <2>7. Cardinality(Configs \ exists') >= Len(settings) - row
    <3> HIDE DEF c, free
    <3>1. Cardinality(Configs \ exists') = Cardinality(free) - 1
      BY <2>4, <2>5
    <3> QED BY <1>0, <2>4, <2>6, <3>1
  <2>8. Len(settings) - row + 0 = Len(settings) - row
    BY <1>0
  <2> QED BY <2>1, <2>7, <2>8 DEF Spare
<1>6. CASE InConstructor
  BY <1>6 DEF InConstructor, ConstructorStep, Create, CreateFails, Undo, screen, Spare
<1>7. CASE PushBack
  <2>1. /\ call = "construct" /\ call' = "none" /\ UNCHANGED <<exists, settings>>
        /\ handler = "apply" /\ (handler' = "apply" => row' = row + 1)
    BY <1>7 DEF PushBack, Constructed, shared, Handled
  <2>2. Cardinality(Configs \ exists) >= Len(settings) - row
    BY <1>0, <2>1 DEF Spare
  <2>3. Len(settings) - row = Len(settings) - (row + 1) + 1
    BY <1>0
  <2> QED BY <2>1, <2>2, <2>3 DEF Spare
<1>8. CASE ApplyThrows
  BY <1>2, <1>8 DEF ApplyThrows
<1>9. ASSUME NEW c \in Configs, ThreadStep(c), handler = "apply" PROVE Spare'
  <2>1. UNCHANGED <<exists, handler, row, call>>
    BY <1>9 DEF ThreadStep, SetStatusFlag, SetStatus, GivesUp, ComThreadReturns, GetStatus,
         Corrupt, Returns,
       Corrupt,
         configVars, screen
  <2>2. Len(settings') = Len(settings)
    BY <1>0, <1>9, SetStatusFlagEffect, SetStatusEffect
       DEF ThreadStep, SetStatusFlag, SetStatus, GivesUp, ComThreadReturns, GetStatus, Corrupt,
            shared
  <2> QED BY <2>1, <2>2 DEF Spare
<1>10. CASE UNCHANGED vars
  BY <1>1, <1>10 DEF vars, configVars, screen, shared
<1>11. CASE handler = "apply"
  BY <1>5, <1>6, <1>7, <1>8, <1>9, <1>10, <1>11, WhileApplying
<1> QED BY <1>2, <1>3, <1>4, <1>11

-----------------------------------------------------------------------------
(* Settings, and the ports opened for them. *)

\* The settings' ports and addresses change only when the user changes them.
LEMMA KeysKept ==
  ASSUME TypeOK, Handled, [Next]_vars, ~DialogHangs, Rows = 1 .. Len(settings)
  PROVE  \/ /\ Rows' = Rows /\ Len(settings') = Len(settings)
            /\ \A i \in Rows : /\ settings'[i].com = settings[i].com
                               /\ settings'[i].addr = settings[i].addr
         \/ \E p \in Ports \cup {edit.shown}, a \in Addresses \cup {BadAddress} :
              edit # NoEdit /\ (AddAccepted(p, a) \/ EditAccepted(p, a))
         \/ \E r \in Rows : OnBnClickedButtonDelete(r)
<1>0. SharedTypes
  BY TypesSplit
<1>1. CASE UNCHANGED settings
  BY <1>1 DEF Rows
<1>2. CASE User
  BY <1>1, <1>2 DEF User, OnBnClickedButtonAdd, OnBnClickedButtonEdit, OnBnClickedOk, OkRefused,
       EditCancelled, OnBnClickedButtonApply, StopOrClose, shared
<1>3. CASE ResetFlag
  BY <1>0, <1>3, ResetFlagEffect
<1>4. CASE Handlers \/ OnTimer
  BY <1>1, <1>3, <1>4 DEF Handlers, Apply, StopThreads, UpdatePortSettings, OnTimer,
     NewThreadConfig,
       InConstructor, PushBack, ApplyThrows, DeleteThreadConfig, InDestructor, NextThreadConfig,
       Clear, ShowStatus, shared
<1>5. ASSUME NEW c \in Configs, ThreadStep(c)
      PROVE  /\ Rows' = Rows /\ Len(settings') = Len(settings)
             /\ \A i \in Rows : /\ settings'[i].com = settings[i].com
                                /\ settings'[i].addr = settings[i].addr
  <2>1. ASSUME NEW s \in Statuses, SetStatusFlag(c, s), pointer[c] \in Rows
        PROVE  /\ Rows' = Rows /\ Len(settings') = Len(settings)
               /\ \A i \in Rows : /\ settings'[i].com = settings[i].com
                                  /\ settings'[i].addr = settings[i].addr
    BY <1>0, <2>1, SetStatusFlagEffect
  <2>2. ASSUME SetStatus(c), pointer[c] \in Rows
        PROVE  /\ Rows' = Rows /\ Len(settings') = Len(settings)
               /\ \A i \in Rows : /\ settings'[i].com = settings[i].com
                                  /\ settings'[i].addr = settings[i].addr
    BY <1>0, <2>2, SetStatusEffect
  <2> QED BY <1>5, <2>1, <2>2 DEF ThreadStep, SetStatusFlag, SetStatus, GivesUp,
             ComThreadReturns, GetStatus, Corrupt,
           shared, Rows
<1> QED BY <1>1, <1>2, <1>4, <1>5 DEF Next, vars, shared

\* A configuration file is saved without duplicates.
LEMMA NoDuplicatesInit == Init => NoDuplicates
<1> SUFFICES ASSUME Init, NEW i \in Rows, NEW j \in Rows, i # j
             PROVE  ~Same(settings[i], settings[j])
  BY DEF NoDuplicates
<1>1. PICK f \in Files : settings = ReadCfg(f)
  BY DEF Init
<1>2. f \in Seq([com : Ports \cup {0}, addr : Addresses \cup {BadAddress}])
  BY DialogAssumption
<1>3. Rows = 1 .. Len(settings)
  BY <1>1, ReadCfgType DEF Rows
<1>4. i \in DOMAIN f /\ j \in DOMAIN f
  BY <1>1, <1>2, <1>3, ReadCfgType
<1>5. ~Same(f[i], f[j])
  BY <1>4, DialogAssumption
<1> QED BY <1>1, <1>3, <1>5, ReadCfgType DEF Same

\* OnBnClickedOk accepts no duplicate, and nothing else makes one.
LEMMA NoDuplicatesStep ==
  ASSUME TypeOK, Handled, NoDuplicates, [Next]_vars, ~DialogHangs
  PROVE  NoDuplicates'
<1>0. SharedTypes /\ ScreenTypes /\ Rows = 1 .. Len(settings) /\ Len(settings) \in Nat
  BY TypesSplit, RowsAre
<1>1. CASE /\ Rows' = Rows
           /\ \A i \in Rows : /\ settings'[i].com = settings[i].com
                              /\ settings'[i].addr = settings[i].addr
  BY <1>1 DEF NoDuplicates, Same
<1>2. ASSUME NEW p \in Ports \cup {edit.shown}, NEW a \in Addresses \cup {BadAddress},
             edit # NoEdit, AddAccepted(p, a)
      PROVE  NoDuplicates'
  <2> DEFINE n == Len(settings) + 1
             e == Entered(p, a)
  <2>1. /\ Rows' = Rows \cup {n} /\ n \notin Rows /\ settings'[n] = e
        /\ \A i \in Rows : settings'[i] = settings[i]
    BY <1>0, <1>2, AddEffect
  <2>2. \A i \in Rows : ~Same(e, settings[i])
    BY <1>0, <1>2 DEF AddAccepted, Acceptable
  <2>3. \A i \in Rows : ~Same(settings[i], e)
    BY <2>2 DEF Same
  <2> HIDE DEF n, e
  <2> QED BY <2>1, <2>2, <2>3 DEF NoDuplicates
<1>3. ASSUME NEW p, NEW a, edit # NoEdit, EditAccepted(p, a)
      PROVE  NoDuplicates'
  <2> DEFINE e == Entered(p, a)
  <2>1. /\ Rows' = Rows /\ settings'[edit.cur] = e
        /\ \A i \in Rows \ {edit.cur} : settings'[i] = settings[i]
    BY <1>0, <1>3, EditEffect
  <2>2. \A i \in Rows \ {edit.cur} : ~Same(e, settings[i])
    BY <1>3 DEF EditAccepted, Acceptable
  <2>3. \A i \in Rows \ {edit.cur} : ~Same(settings[i], e)
    BY <2>2 DEF Same
  <2> HIDE DEF e
  <2> QED BY <2>1, <2>2, <2>3 DEF NoDuplicates
<1>4. ASSUME NEW r \in Rows, OnBnClickedButtonDelete(r)
      PROVE  NoDuplicates'
  <2> SUFFICES ASSUME NEW i \in Rows', NEW j \in Rows', i # j
               PROVE  ~Same(settings'[i], settings'[j])
    BY DEF NoDuplicates
  <2> DEFINE Old(k) == IF k < r THEN k ELSE k + 1
  <2>1. ASSUME NEW k \in Rows' PROVE Old(k) \in Rows /\ settings'[k] = settings[Old(k)]
    <3>1. Rows' = 1 .. Len(settings) - 1
      BY <1>0, <1>4, DeleteEffect
    <3>2. CASE k < r
      BY <1>0, <1>4, <3>1, <3>2, DeleteEffect
    <3>3. CASE ~(k < r)
      BY <1>0, <1>4, <3>1, <3>3, DeleteEffect
    <3> QED BY <3>2, <3>3
  <2>2. Old(i) # Old(j)
    <3>1. Rows' = 1 .. Len(settings) - 1
      BY <1>0, <1>4, DeleteEffect
    <3> QED BY <1>0, <3>1
  <2> HIDE DEF Old
  <2> QED BY <2>1, <2>2 DEF NoDuplicates
<1> QED BY <1>0, <1>1, <1>2, <1>3, <1>4, KeysKept

\* A row with a port and an address is a line that readCfg accepts.
LEMMA TypedIsSaved == TypeOK => SavedIsRead
<1> SUFFICES ASSUME TypeOK PROVE SavedIsRead
  OBVIOUS
<1>0. SharedTypes /\ Rows = 1 .. Len(settings) /\ Len(settings) \in Nat
  BY TypesSplit, RowsAre
<1> DEFINE L == [com : Ports, addr : Addresses]
<1>1. ASSUME NEW i \in Rows
      PROVE  /\ SaveCfg[i] \in L
             /\ Valid(SaveCfg[i])
             /\ SettingOf(SaveCfg[i]) = SettingOf(settings[i])
  <2>1. settings[i].com \in Ports /\ settings[i].addr \in Addresses
    BY <1>0, SettingFields DEF SharedTypes
  <2>2. SaveCfg[i] = [com |-> settings[i].com, addr |-> settings[i].addr]
    BY DEF SaveCfg, Line
  <2> QED BY <2>1, <2>2, ConfigAssumption, DialogAssumption DEF Valid, SettingOf
<1>2. SaveCfg \in Seq(L) /\ Len(SaveCfg) = Len(settings) /\ DOMAIN SaveCfg = Rows
  <2> HIDE DEF L
  <2>1. SaveCfg = [i \in 1 .. Len(settings) |-> SaveCfg[i]]
    BY <1>0 DEF SaveCfg
  <2> QED BY <1>0, <1>1, <2>1
<1>3. ReadCfg(SaveCfg) = [i \in 1 .. Len(settings) |-> SettingOf(SaveCfg[i])]
  <2> HIDE DEF L
  <2> QED BY <1>1, <1>2, ReadCfgValue
<1> QED BY <1>0, <1>1, <1>3 DEF SavedIsRead

\* While Apply runs, no row moves, so each object keeps the port of its row.
LEMMA AppliedStep ==
  ASSUME ConfigInv, TypeOK, TypeOK', Handled, Spare, Owned, Applied, [Next]_vars, ~DialogHangs
  PROVE  Applied'
<1>0. /\ SharedTypes /\ ConfigTypeOK /\ Rows = 1 .. Len(settings) /\ Len(settings) \in Nat
      /\ Len(threadConfigs) \in Nat /\ threadConfigs \in Seq(Configs)
  BY TypesSplit, RowsAre DEF SharedTypes
<1>1. CASE NewThreadConfig
  <2> DEFINE c == Min(Configs \ exists)
  <2>1. /\ handler = "apply" /\ call = "none" /\ c \notin exists /\ c \in Configs
        /\ UNCHANGED <<com, settings, threadConfigs, row>> /\ this' = c
        /\ pointer' = [pointer EXCEPT ![c] = row] /\ call' = "construct"
    BY <1>0, <1>1, FreeObject DEF NewThreadConfig, Construct, screen
  <2>2. com[c] = 0
    BY <2>1 DEF ConfigInv, AllReleased
  <2>3. \A i \in 1 .. Len(threadConfigs) : threadConfigs[i] # c
    BY <2>1 DEF Owned, Live
  <2> HIDE DEF c
  <2>4. pointer'[c] = row /\ \A d \in Configs \ {c} : pointer'[d] = pointer[d]
    BY <1>0, <2>1 DEF SharedTypes
  <2>5. \A i \in 1 .. Len(threadConfigs) : threadConfigs[i] \in Configs
    BY <1>0
  <2> QED BY <2>1, <2>2, <2>3, <2>4, <2>5 DEF Applied, Building
<1>2. CASE InConstructor
  <2>0. /\ UNCHANGED <<this, settings, threadConfigs, row, pointer, handler>>
        /\ Building /\ handler = "apply" /\ this \in Configs
    BY <1>2 DEF InConstructor, ConstructorStep, Create, CreateFails, Undo, screen, Building,
       Handled,
         ConfigInv, ConfigTypeOK, Objects, Placed
  <2>1. /\ com'[this] \in {com[this], 0, settings[row].com}
        /\ \A d \in Configs \ {this} : com'[d] = com[d]
    BY <1>0, <1>2, <2>0 DEF InConstructor, ConstructorStep, Create, CreateFails, Undo,
       CloseHandle, ConfigTypeOK
  <2>2. \A i \in 1 .. Len(threadConfigs) : threadConfigs[i] \in Configs \ {this}
    BY <1>0, <2>0 DEF Owned
  <2> QED BY <2>0, <2>1, <2>2 DEF Applied
<1>3. CASE PushBack
  <2>1. /\ handler = "apply" /\ call = "construct" /\ call' = "none"
        /\ Len(threadConfigs) = row - 1 /\ this \in Configs /\ row \in 1 .. Len(settings)
        /\ UNCHANGED <<com, pointer, settings>>
        /\ threadConfigs' = Append(threadConfigs, this)
    BY <1>0, <1>3 DEF PushBack, Constructed, Handled, shared, ConfigInv, ConfigTypeOK, Objects,
       Placed
  <2>2. /\ Len(threadConfigs') = row /\ threadConfigs'[row] = this
        /\ \A i \in 1 .. Len(threadConfigs) : threadConfigs'[i] = threadConfigs[i]
    BY <1>0, <2>1, AppendProperties
  <2>3. \A i \in 1 .. row : i = row \/ i \in 1 .. Len(threadConfigs)
    BY <1>0, <2>1
  <2> QED BY <2>1, <2>2, <2>3 DEF Applied, Building
<1>4. CASE OnBnClickedButtonApply
  <2>1. threadConfigs' = <<>> /\ ~Building'
    BY <1>0, <1>4 DEF OnBnClickedButtonApply, Responsive, Handled, Building, ConfigTypeOK,
       configVars
  <2>2. Len(threadConfigs') = 0
    BY <2>1
  <2> QED BY <2>1, <2>2 DEF Applied
<1>5. ASSUME handler' # "apply" PROVE Applied'
  BY <1>5 DEF Applied
<1>6. ASSUME NEW c \in Configs, ThreadStep(c), handler = "apply" PROVE Applied'
  <2>1. /\ UNCHANGED <<handler, row, call, this, com, threadConfigs, pointer>>
        /\ ~(\E p \in Ports \cup {edit.shown}, a \in Addresses \cup {BadAddress} :
              edit # NoEdit /\ (AddAccepted(p, a) \/ EditAccepted(p, a)))
        /\ ~(\E r \in Rows : OnBnClickedButtonDelete(r))
    BY <1>6 DEF ThreadStep, SetStatusFlag, SetStatus, GivesUp, ComThreadReturns, GetStatus,
         Corrupt, Returns,
       Corrupt,
         configVars, screen, shared, AddAccepted, EditAccepted, OnBnClickedButtonDelete,
         Responsive
  <2>2. \A i \in Rows : settings'[i].com = settings[i].com
    BY <1>0, <2>1, KeysKept
  <2>3. \A i \in 1 .. Len(threadConfigs) : i \in Rows
    BY <1>0, <1>6 DEF Handled
  <2> QED BY <1>6, <2>1, <2>2, <2>3 DEF Applied, Handled, Building
<1>7. CASE handler = "apply"
  <2>1. CASE ApplyThrows
    BY <1>5, <2>1 DEF ApplyThrows
  <2>2. CASE UNCHANGED vars
    BY <2>2 DEF vars, configVars, screen, shared, Applied, Building
  <2> QED BY <1>1, <1>2, <1>3, <1>6, <1>7, <2>1, <2>2, WhileApplying
<1>8. ASSUME handler # "apply", ~OnBnClickedButtonApply PROVE handler' # "apply"
  BY <1>8, OnlyButtonApplies
<1> QED BY <1>4, <1>5, <1>7, <1>8

-----------------------------------------------------------------------------
(* Ports and pointers. *)

\* A COM port is opened in Apply only.
LEMMA PortsOpened ==
  ASSUME ConfigTypeOK, [Next]_vars, ~DialogHangs, ~InConstructor
  PROVE  \A c \in Configs : com'[c] \in {0, com[c]} /\ running'[c] \subseteq running[c]
<1> USE DEF ConfigTypeOK
<1>1. CASE UNCHANGED configVars
  BY <1>1 DEF configVars
<1>2. CASE User \/ OnTimer \/ UpdatePortSettings
  BY <1>1, <1>2 DEF User, OnBnClickedButtonAdd, OnBnClickedButtonEdit, OnBnClickedButtonDelete,
       OnBnClickedOk, AddAccepted, EditAccepted, OkRefused, EditCancelled,
       OnBnClickedButtonApply, StopOrClose, OnTimer, UpdatePortSettings, ResetFlag, ShowStatus
<1>3. CASE Apply
  BY <1>3 DEF Apply, NewThreadConfig, Construct, PushBack, Constructed, ApplyThrows, Thrown,
     Free
<1>4. CASE InDestructor
  <2>1. \A c \in Configs : com'[c] \in {0, com[c]}
    BY <1>4 DEF InDestructor, DestroyStep, WaitToCloseThread, CloseHandle
  <2>2. running' = running \/ running' = [running EXCEPT ![this] = @ \ {Destroyed[line]}]
    BY <1>4 DEF InDestructor, DestroyStep, WaitToCloseThread
  <2> QED BY <2>1, <2>2
<1>5. CASE StopThreads
  BY <1>1, <1>4, <1>5 DEF StopThreads, DeleteThreadConfig, Destroy, Corrupt, NextThreadConfig,
                          Deleted, Free, Clear
<1>6. ASSUME NEW c \in Configs, ThreadStep(c)
      PROVE  \A d \in Configs : com'[d] \in {0, com[d]} /\ running'[d] \subseteq running[d]
  <2>1. \/ UNCHANGED <<com, running>>
        \/ \E t \in Threads : Returns(c, t)
    BY <1>6 DEF ThreadStep, SetStatusFlag, SetStatus, GivesUp, ComThreadReturns, GetStatus,
         Corrupt,
       configVars,
                Sock, Threads
  <2> QED BY <2>1 DEF Returns
<1> QED BY <1>1, <1>2, <1>3, <1>5, <1>6 DEF Next, Handlers, vars

\* Objects are built on different rows, rows have different ports: no port is opened
\* twice.
LEMMA ExclusiveStep ==
  ASSUME ConfigInv, TypeOK, Handled, Owned, Applied, NoDuplicates, ExclusivePort,
         [Next]_vars, ~DialogHangs
  PROVE  ExclusivePort'
<1>0. /\ SharedTypes /\ ConfigTypeOK /\ Rows = 1 .. Len(settings) /\ Len(settings) \in Nat
  BY TypesSplit, RowsAre
<1>1. CASE \A c \in Configs : com'[c] \in {0, com[c]}
  BY <1>1 DEF ExclusivePort
<1>2. CASE InConstructor
  <2>0. /\ Building /\ handler = "apply" /\ this \in Configs /\ row \in Rows
        /\ Len(threadConfigs) = row - 1
    BY <1>2 DEF InConstructor, ConstructorStep, Create, CreateFails, Undo, Building, Handled,
         ConfigInv, ConfigTypeOK, Objects, Placed
  <2>1. /\ com'[this] \in {com[this], 0, settings[row].com}
        /\ \A d \in Configs \ {this} : com'[d] = com[d]
    BY <1>0, <1>2, <2>0
       DEF InConstructor, ConstructorStep, Create, CreateFails, Undo, CloseHandle, ConfigTypeOK
  <2>2. ASSUME NEW d \in Configs \ {this}, com[d] # 0 PROVE com[d] # settings[row].com
    <3>1. d \in exists
      BY <2>2 DEF ConfigInv, AllReleased
    <3>2. PICK i \in 1 .. Len(threadConfigs) : d = threadConfigs[i]
      BY <2>0, <3>1 DEF Owned, Live
    <3>3. com[d] = settings[i].com /\ i \in Rows /\ i # row
      BY <1>0, <2>0, <2>2, <3>2 DEF Applied
    <3> QED BY <2>0, <3>3 DEF NoDuplicates, Same
  <2>3. com'[this] # 0 => \A d \in Configs \ {this} : com'[d] # com'[this]
    BY <2>0, <2>1, <2>2 DEF ExclusivePort
  <2> QED BY <2>1, <2>3 DEF ExclusivePort
<1> QED BY <1>0, <1>1, <1>2, PortsOpened

\* What the steps do to the pointers.
LEMMA PointersKept ==
  ASSUME TypeOK, Handled, [Next]_vars, ~DialogHangs
  PROVE  \/ /\ UNCHANGED pointer /\ Rows' = Rows
            /\ \A c \in Configs : running'[c] \subseteq running[c]
         \/ \E p \in Ports \cup {edit.shown}, a \in Addresses \cup {BadAddress} :
              edit # NoEdit /\ AddAccepted(p, a)
         \/ \E r \in Rows : OnBnClickedButtonDelete(r)
         \/ NewThreadConfig \/ InConstructor \/ ApplyThrows \/ NextThreadConfig
<1>0. ConfigTypeOK /\ SharedTypes /\ ScreenTypes /\ Rows = 1 .. Len(settings)
  BY TypesSplit, RowsAre
<1>1. ASSUME NEW p, NEW a, edit # NoEdit, EditAccepted(p, a)
      PROVE UNCHANGED pointer /\ Rows' = Rows
  BY <1>0, <1>1, EditEffect DEF EditAccepted
<1>2. CASE User
  <2>1. CASE UNCHANGED <<pointer, settings, running>>
    BY <2>1 DEF Rows
  <2>2. ASSUME NEW p, NEW a, EditAccepted(p, a) PROVE UNCHANGED running
    BY <2>2 DEF EditAccepted, configVars
  <2> QED BY <1>1, <1>2, <2>1, <2>2 DEF User, OnBnClickedButtonAdd, OnBnClickedButtonEdit,
       OnBnClickedOk, OkRefused, EditCancelled, OnBnClickedButtonApply, StopOrClose, shared,
       configVars
<1>3. ASSUME \/ OnTimer \/ UpdatePortSettings \/ PushBack
             \/ DeleteThreadConfig \/ InDestructor \/ Clear
      PROVE UNCHANGED pointer /\ Rows' = Rows
  BY <1>0, <1>3, ResetFlagEffect DEF OnTimer, UpdatePortSettings, ResetFlag, ShowStatus,
     PushBack, DeleteThreadConfig,
        InDestructor, Clear, shared, Rows
<1>4. ASSUME NEW c \in Configs, ThreadStep(c) PROVE UNCHANGED pointer /\ Rows' = Rows
  <2>1. ASSUME NEW s \in Statuses, SetStatusFlag(c, s), pointer[c] \in Rows PROVE Rows' = Rows
    BY <1>0, <2>1, SetStatusFlagEffect
  <2>2. ASSUME SetStatus(c), pointer[c] \in Rows PROVE Rows' = Rows
    BY <1>0, <2>2, SetStatusEffect
  <2>3. ASSUME NEW s \in Statuses, SetStatusFlag(c, s) PROVE Rows' = Rows
    BY <2>1, <2>3 DEF SetStatusFlag, Rows
  <2>4. ASSUME SetStatus(c) PROVE Rows' = Rows
    BY <2>2, <2>4 DEF SetStatus, Rows
  <2>5. GivesUp(c) \/ ComThreadReturns(c) \/ GetStatus(c) => Rows' = Rows
    BY DEF GivesUp, ComThreadReturns, GetStatus, Corrupt, shared, Rows
  <2> QED BY <1>4, <2>3, <2>4, <2>5 DEF ThreadStep, SetStatusFlag, SetStatus, GivesUp,
             ComThreadReturns, GetStatus, Corrupt, shared
<1>5. CASE UNCHANGED vars
  BY <1>5 DEF vars, shared, configVars, Rows
<1> QED BY <1>0, <1>2, <1>3, <1>4, <1>5, PortsOpened DEF Next, Handlers, Apply, StopThreads

\* What has gone wrong stays wrong.
LEMMA ConfigForGood ==
  ASSUME [ConfigNext]_configVars
  PROVE  (terminated => terminated') /\ (wild => wild')
<1>1. CASE UNCHANGED configVars
  BY <1>1 DEF configVars
<1>2. CASE Undo
  <2>1. terminated => terminated'
    BY <1>2, Zenon DEF Undo
  <2>2. wild => wild'
    BY <1>2 DEF Undo
  <2> QED BY <2>1, <2>2
<1>3. CASE Free
  <2>1. wild => wild'
    BY <1>3, Zenon DEF Free
  <2> QED BY <1>3, <2>1 DEF Free
<1>4. CASE DestroyStep
  BY <1>4 DEF DestroyStep, WaitToCloseThread
<1>5. CASE \/ \E c \in Configs : \/ Construct(c) \/ Destroy(c)
                                 \/ \E t \in Threads : Returns(c, t)
           \/ \E p \in Ports : ConstructorStep(p)
           \/ Constructed \/ Corrupt \/ Hang
  BY <1>5 DEF Hang, Construct, Destroy, Returns, ConstructorStep, Create, CreateFails, Constructed,
     Corrupt
<1> QED BY <1>1, <1>2, <1>3, <1>4, <1>5 DEF ConfigNext, CallerStep, Thrown, Deleted

\* The same of a setting changed under its thread.
LEMMA MeddledForGood ==
  ASSUME [Next]_vars, ~DialogHangs
  PROVE  meddled => meddled'
<1>1. CASE UNCHANGED meddled
  BY <1>1
<1>2. ASSUME NEW p, NEW a, AddAccepted(p, a) PROVE meddled => meddled'
  BY <1>2, Zenon DEF AddAccepted
<1>3. ASSUME NEW p, NEW a, EditAccepted(p, a) PROVE meddled => meddled'
  BY <1>3, Zenon DEF EditAccepted
<1>4. ASSUME NEW r \in Rows, OnBnClickedButtonDelete(r) PROVE meddled => meddled'
  BY <1>4, Zenon DEF OnBnClickedButtonDelete
<1>5. CASE User
  BY <1>1, <1>2, <1>3, <1>4, <1>5 DEF User, OnBnClickedButtonAdd, OnBnClickedButtonEdit,
     OnBnClickedOk, OkRefused, EditCancelled, OnBnClickedButtonApply, StopOrClose, shared
<1>6. CASE OnTimer \/ Handlers
  BY <1>1, <1>6 DEF OnTimer, Handlers, Apply, StopThreads, UpdatePortSettings, NewThreadConfig,
     InConstructor, PushBack, ApplyThrows, DeleteThreadConfig, InDestructor, NextThreadConfig,
     Clear, ResetFlag, ShowStatus, shared
<1>7. ASSUME NEW c \in Configs, ThreadStep(c) PROVE meddled' = meddled
  BY <1>7 DEF ThreadStep, SetStatusFlag, SetStatus, GivesUp, ComThreadReturns, GetStatus,
       Corrupt, shared
<1> QED BY <1>1, <1>5, <1>6, <1>7 DEF Next, vars, shared

\* None of the three histories is ever forgotten.
LEMMA ForGood ==
  ASSUME TypeOK, Handled, Spare, [Next]_vars, ~DialogHangs
  PROVE  (meddled => meddled') /\ (terminated => terminated') /\ (wild => wild')
BY DialogUsesObjects, ConfigForGood, MeddledForGood

\* A thread's pointer leaves the rows only when the settings are meddled with.
LEMMA PointsToRowStep ==
  ASSUME ConfigInv, TypeOK, Handled, Spare, Owned, Applied, PointsToRow,
         [Next]_vars, ~DialogHangs
  PROVE  PointsToRow'
<1> SUFFICES ASSUME ~wild', ~meddled', NEW c \in Configs, running'[c] \cap Users # {}
             PROVE  pointer'[c] \in Rows'
  BY DEF PointsToRow
<1>0. /\ SharedTypes /\ ScreenTypes /\ ConfigTypeOK
      /\ Rows = 1 .. Len(settings) /\ Len(settings) \in Nat
  BY TypesSplit, RowsAre
<1>1. ~meddled /\ ~wild /\ \A d \in Configs : running[d] \cap Users # {} => pointer[d] \in Rows
  BY ForGood DEF PointsToRow
<1>2. CASE /\ UNCHANGED pointer /\ Rows' = Rows
           /\ \A d \in Configs : running'[d] \subseteq running[d]
  BY <1>1, <1>2
<1>3. ASSUME NEW p \in Ports \cup {edit.shown}, NEW a \in Addresses \cup {BadAddress},
             edit # NoEdit, AddAccepted(p, a)
      PROVE  pointer'[c] \in Rows'
  <2>0. running' = running
    BY <1>3 DEF AddAccepted, configVars
  <2>5. Rows' = 1 .. Len(settings) + 1
    BY <1>0, <1>3, AddEffect
  <2>1. Rows \subseteq Rows' /\ running' = running
    BY <1>0, <2>0, <2>5
  <2>2. pointer[c] \in Rows
    BY <1>1, <2>1
  <2>3. CASE UNCHANGED pointer
    BY <2>1, <2>2, <2>3
  <2>4. CASE meddled' = (meddled \/ edit.watched \/ Used(Rows))
    BY <1>1, <2>1, <2>2, <2>4 DEF Used
  <2> QED BY <1>3, <2>3, <2>4 DEF AddAccepted
<1>4. ASSUME NEW r \in Rows, OnBnClickedButtonDelete(r)
      PROVE  pointer'[c] \in Rows'
  <2>1. /\ Rows' = 1 .. Len(settings) - 1 /\ running' = running
        /\ pointer'[c] = IF pointer[c] = Len(settings) THEN 0 ELSE pointer[c]
    BY <1>0, <1>4, DeleteEffect DEF OnBnClickedButtonDelete, configVars
  <2>2. pointer[c] \in Rows
    BY <1>1, <2>1
  <2>3. ~Used({i \in Rows : i >= r})
    BY <1>4 DEF OnBnClickedButtonDelete
  <2>4. pointer[c] < r
    BY <1>0, <2>1, <2>2, <2>3 DEF Used
  <2> QED BY <1>0, <2>1, <2>2, <2>4
<1>5. CASE NewThreadConfig
  BY <1>0, <1>1, <1>5 DEF NewThreadConfig, Construct, Handled, SharedTypes, Rows
<1>6. CASE InConstructor
  <2>1. /\ UNCHANGED <<pointer, settings>> /\ handler = "apply" /\ row \in Rows /\ Building
        /\ \A d \in Configs \ {this} : running'[d] = running[d]
    BY <1>0, <1>6 DEF InConstructor, ConstructorStep, Create, CreateFails, Undo, Building,
       Handled, ConfigTypeOK
  <2>2. CASE c = this
    BY <2>1, <2>2 DEF Applied, Rows
  <2>3. CASE c # this
    BY <1>1, <2>1, <2>3 DEF Rows
  <2> QED BY <2>2, <2>3
<1>7. CASE ApplyThrows \/ NextThreadConfig
  <2>1. /\ UNCHANGED <<settings, running>> /\ pointer' = [pointer EXCEPT ![this] = 0]
        /\ wild' = (wild \/ running[this] # {})
    BY <1>7 DEF ApplyThrows, NextThreadConfig, Thrown, Deleted, Free
  <2>2. c # this
    BY <2>1
  <2> QED BY <1>0, <1>1, <2>1, <2>2 DEF SharedTypes, Rows
<1> QED BY <1>2, <1>3, <1>4, <1>5, <1>6, <1>7, PointersKept

\* Unless all is over, the objects with threads exist.
LEMMA OnesThatRun ==
  ASSUME ConfigInv, [Next]_vars, ~DialogHangs
  PROVE  UNCHANGED vars \/ \A c \in Configs : running[c] # {} => c \in exists
BY DEF Next, Over, ConfigInv, AllReleased

\* No two socket threads write to the same row, even after that.
LEMMA PointsAloneStep ==
  ASSUME ConfigInv, TypeOK, Handled, Spare, Owned, Applied, PointsAlone,
         [Next]_vars, ~DialogHangs
  PROVE  PointsAlone'
<1>0. /\ SharedTypes /\ ScreenTypes /\ ConfigTypeOK
      /\ Rows = 1 .. Len(settings) /\ Len(settings) \in Nat
  BY TypesSplit, RowsAre
<1>1. ASSUME \A c \in Configs : Sock \in running'[c] => /\ Sock \in running[c]
                                                        /\ pointer'[c] \in {0, pointer[c]}
      PROVE  PointsAlone'
  BY <1>1 DEF PointsAlone
<1>7. CASE UNCHANGED vars
  BY <1>7 DEF vars, configVars, shared, PointsAlone
<1> SUFFICES ASSUME ~UNCHANGED vars PROVE PointsAlone'
  BY <1>7
<1>8. \A c \in Configs : running[c] # {} => c \in exists
  BY OnesThatRun
<1>2. ASSUME NEW p, NEW a, AddAccepted(p, a) PROVE PointsAlone'
  BY <1>1, <1>2 DEF AddAccepted, configVars
<1>3. ASSUME NEW r \in Rows, OnBnClickedButtonDelete(r) PROVE PointsAlone'
  BY <1>1, <1>3 DEF OnBnClickedButtonDelete, configVars
<1>4. CASE NewThreadConfig
  <2> DEFINE c == Min(Configs \ exists)
  <2>1. /\ c \notin exists /\ c \in Configs /\ pointer' = [pointer EXCEPT ![c] = row]
        /\ running' = running
    BY <1>0, <1>4, FreeObject DEF NewThreadConfig, Construct
  <2> HIDE DEF c
  <2>2. running[c] = {}
    BY <1>8, <2>1
  <2>3. \A d \in Configs : Sock \in running[d] => d # c
    BY <2>2
  <2> QED BY <1>0, <1>1, <2>1, <2>3 DEF SharedTypes
<1>5. CASE InConstructor
  <2>1. /\ UNCHANGED <<pointer, settings>> /\ handler = "apply" /\ row \in Rows
        /\ Building /\ Len(threadConfigs) = row - 1
    BY <1>0, <1>5 DEF InConstructor, ConstructorStep, Create, CreateFails, Undo, Building,
       Handled
  <2>2. \A d \in Configs \ {this} : running'[d] = running[d]
    BY <1>0, <1>5, <2>1
       DEF InConstructor, ConstructorStep, Create, CreateFails, Undo, ConfigTypeOK
  <2>3. ASSUME NEW d \in Configs \ {this}, Sock \in running[d], pointer[d] # 0
        PROVE  pointer[d] # row
    <3>1. d \in exists
      BY <1>8, <2>3
    <3>2. PICK i \in 1 .. Len(threadConfigs) : d = threadConfigs[i]
      BY <2>1, <3>1 DEF Owned, Live
    <3>3. pointer[d] = i
      BY <2>1, <2>3, <3>2 DEF Applied
    <3> QED BY <1>0, <2>1, <3>3
  <2>4. pointer[this] = row
    BY <2>1 DEF Applied
  <2> QED BY <2>1, <2>2, <2>3, <2>4 DEF PointsAlone
<1>6. CASE ApplyThrows \/ NextThreadConfig
  <2>1. UNCHANGED running /\ pointer' = [pointer EXCEPT ![this] = 0]
    BY <1>6 DEF ApplyThrows, NextThreadConfig, Thrown, Deleted, Free
  <2> QED BY <1>0, <1>1, <2>1 DEF SharedTypes
<1> QED BY <1>1, <1>2, <1>3, <1>4, <1>5, <1>6, PointersKept

-----------------------------------------------------------------------------
(* What the threads tell, and the timer sees. *)

\* Which steps concern the socket threads.
LEMMA TellersKept ==
  ASSUME [Next]_vars, ~DialogHangs
  PROVE  \/ UNCHANGED <<running, told, telling>>
         \/ InConstructor \/ InDestructor
         \/ \E c \in Configs : ThreadStep(c)
<1>1. CASE UNCHANGED vars
  BY <1>1 DEF vars, configVars, shared
<1>2. CASE User
  BY <1>2 DEF User, OnBnClickedButtonAdd, OnBnClickedButtonEdit, OnBnClickedButtonDelete,
       OnBnClickedOk, AddAccepted, EditAccepted, OkRefused, EditCancelled,
       OnBnClickedButtonApply, StopOrClose, configVars, shared
<1>3. CASE OnTimer \/ UpdatePortSettings
  BY <1>3 DEF OnTimer, UpdatePortSettings, ResetFlag, ShowStatus, configVars, shared
<1>4. CASE Apply
  BY <1>4 DEF Apply, NewThreadConfig, Construct, PushBack, Constructed, ApplyThrows, Thrown,
     Free,
       shared
<1>5. CASE StopThreads
  BY <1>5 DEF StopThreads, DeleteThreadConfig, Destroy, Corrupt, NextThreadConfig,
                          Deleted, Free, Clear, configVars, shared
<1> QED BY <1>1, <1>2, <1>3, <1>4, <1>5 DEF Next, Handlers

\* What the steps of a thread do.
LEMMA SetStatusThreads ==
  ASSUME TypeOK, NEW c \in Configs, SetStatus(c)
  PROVE  /\ told' = [told EXCEPT ![c] = telling[c]]
         /\ telling' = [telling EXCEPT ![c] = "none"]
         /\ Sock \in running[c] /\ telling[c] # "none" /\ UNCHANGED pointer
         /\ \/ UNCHANGED running
            \/ telling[c] = "Stopped" /\ running' = [running EXCEPT ![c] = @ \ {Sock}]
BY DEF SetStatus, Tells, Returns, Corrupt, configVars

\* A socket thread that has ended, or has not begun, has nothing left to store.
LEMMA SilentStep ==
  ASSUME ConfigInv, TypeOK, Silent, [Next]_vars, ~DialogHangs
  PROVE  Silent'
<1>0. SharedTypes /\ ConfigTypeOK
  BY TypesSplit
<1>1. CASE UNCHANGED <<running, told, telling>>
  BY <1>1 DEF Silent
<1>2. CASE InConstructor \/ InDestructor
  BY <1>0, <1>2 DEF InConstructor, InDestructor, Silence, Silent
<1>3. ASSUME NEW c \in Configs, NEW s \in Statuses, SetStatusFlag(c, s) PROVE Silent'
  <2>1. running' = running /\ told' = told /\ Sock \in running[c]
    BY <1>3 DEF SetStatusFlag, Tells, Corrupt, configVars
  <2>2. \A d \in Configs \ {c} : telling'[d] = telling[d]
    BY <1>0, <1>3 DEF SetStatusFlag, SharedTypes
  <2> QED BY <2>1, <2>2 DEF Silent
<1>4. ASSUME NEW c \in Configs, SetStatus(c) PROVE Silent'
  <2>1. /\ told'[c] = telling[c] /\ telling'[c] = "none"
        /\ \A d \in Configs \ {c} : told'[d] = told[d] /\ telling'[d] = telling[d]
    BY <1>0, <1>4, SetStatusThreads DEF SharedTypes
  <2>2. /\ Sock \in running'[c] \/ telling[c] = "Stopped"
        /\ \A d \in Configs \ {c} : running'[d] = running[d]
    BY <1>0, <1>4, SetStatusThreads DEF ConfigTypeOK
  <2> QED BY <2>1, <2>2 DEF Silent
<1>5. ASSUME NEW c \in Configs, GivesUp(c) PROVE Silent'
  <2>1. /\ told' = told /\ telling' = telling /\ told[c] = "Stopped" /\ telling[c] = "none"
        /\ \A d \in Configs \ {c} : running'[d] = running[d]
    BY <1>0, <1>5 DEF GivesUp, Returns, shared, ConfigTypeOK
  <2> QED BY <2>1 DEF Silent
<1>6. ASSUME NEW c \in Configs, ComThreadReturns(c) PROVE Silent'
  <2>1. /\ told' = told /\ telling' = telling
        /\ \A d \in Configs : Sock \in running[d] => Sock \in running'[d]
    BY <1>0, <1>6 DEF ComThreadReturns, Returns, shared, ConfigTypeOK
  <2> QED BY <2>1 DEF Silent
<1>7. ASSUME NEW c \in Configs, GetStatus(c) PROVE Silent'
  BY <1>7 DEF GetStatus, Corrupt, shared, Silent
<1> QED BY <1>1, <1>2, <1>3, <1>4, <1>5, <1>6, <1>7, TellersKept DEF ThreadStep

\* What the steps that are not the timer's or a thread's do to the statuses shown.
LEMMA ShownKept ==
  ASSUME TypeOK, Handled, [Next]_vars, ~DialogHangs
  PROVE  \/ UNCHANGED <<settings, list, missed>> /\ handler # "getStatusString"
            /\ telling' = telling /\ pointer' = pointer
         \/ FillSettings
         \/ UNCHANGED vars
         \/ UpdatePortSettings \/ NewThreadConfig \/ InConstructor \/ InDestructor
         \/ ApplyThrows \/ NextThreadConfig
         \/ \E c \in Configs : ThreadStep(c)
<1>1. CASE User
  BY <1>1 DEF User, OnBnClickedButtonAdd, OnBnClickedButtonEdit, OnBnClickedButtonDelete,
       OnBnClickedOk, AddAccepted, EditAccepted, OkRefused, EditCancelled,
       OnBnClickedButtonApply, StopOrClose, shared, Responsive
<1>2. CASE OnTimer
  BY <1>2 DEF OnTimer, shared
<1>3. CASE PushBack
  BY <1>3 DEF PushBack, Constructed, Handled, shared
<1>4. CASE DeleteThreadConfig \/ Clear
  BY <1>4 DEF DeleteThreadConfig, Clear, screen, shared
<1> QED BY <1>1, <1>2, <1>3, <1>4 DEF Next, Handlers, Apply, StopThreads

\* A status that is being stored unflagged stays so, or is new.
LEMMA UnflaggedKept ==
  ASSUME NEW i, i \in Rows,
         settings'[i].change = settings[i].change, settings'[i].status = settings[i].status,
         \A c \in Configs : pointer'[c] = i /\ telling'[c] # "none"
                              => pointer[c] = i /\ telling'[c] = telling[c],
         Unflagged(i)'
  PROVE  Unflagged(i)
BY DEF Unflagged

\* A status about to be stored without a flag is one that the timer is noted to have
\* missed, or is about to show.
LEMMA NoteUnflaggedStep ==
  ASSUME ConfigInv, TypeOK, Handled, Spare, PointsAlone, Silent, NoteUnflagged, [Next]_vars, ~DialogHangs
  PROVE  NoteUnflagged'
<1>0. /\ SharedTypes /\ ScreenTypes /\ ConfigTypeOK
      /\ Rows = 1 .. Len(settings) /\ Len(settings) \in Nat
  BY TypesSplit, RowsAre
<1>a. CASE UNCHANGED vars
  BY <1>a DEF vars, screen, shared, NoteUnflagged, Rows, Unflagged
<1>b. CASE FillSettings
  BY <1>b DEF FillSettings, NoteUnflagged
<1> SUFFICES ASSUME ~UNCHANGED vars, ~FillSettings, NEW i \in Rows', Unflagged(i)'
             PROVE  i \in missed' \/ (handler' = "getStatusString" /\ row' = i)
  BY <1>a, <1>b DEF NoteUnflagged
<1>1. CASE UNCHANGED <<settings, list, missed>> /\ handler # "getStatusString"
            /\ telling' = telling /\ pointer' = pointer
  BY <1>1 DEF NoteUnflagged, Rows, Unflagged
<1>2. CASE ResetFlag
  <2>1. /\ Rows' = Rows /\ row \in Rows /\ settings'[i].status = settings[i].status
        /\ i # row => settings'[i].change = settings[i].change
    BY <1>0, <1>2, ResetFlagEffect
  <2>2. telling' = telling /\ pointer' = pointer /\ handler = "isStatusChange"
    BY <1>2 DEF ResetFlag
  <2>3. missed \subseteq missed'
    BY <1>2 DEF ResetFlag
  <2>4. CASE i # row
    BY <2>1, <2>2, <2>3, <2>4, UnflaggedKept DEF NoteUnflagged
  <2>5. CASE i = row /\ flagRead
    BY <1>2, <2>5 DEF ResetFlag
  <2>6. CASE i = row /\ ~flagRead /\ settings[row].change
    BY <1>2, <2>6 DEF ResetFlag
  <2>7. CASE i = row /\ ~flagRead /\ ~settings[row].change
    <3>1. Unflagged(i)
      BY <2>1, <2>2, <2>7 DEF Unflagged
    <3> QED BY <2>1, <2>2, <2>3, <3>1 DEF NoteUnflagged
  <2> QED BY <2>4, <2>5, <2>6, <2>7
<1>3. CASE ShowStatus
  <2>1. Rows' = Rows /\ Unflagged(i)
    BY <1>3 DEF ShowStatus, Rows, Unflagged
  <2>2. i # row => i \in missed
    BY <2>1 DEF NoteUnflagged
  <2> QED BY <1>3, <2>1, <2>2 DEF ShowStatus
<1>4. CASE NewThreadConfig
  <2> DEFINE c == Min(Configs \ exists)
  <2>1. /\ handler = "apply" /\ c \in Configs /\ c \notin exists
        /\ UNCHANGED <<settings, telling, missed>> /\ pointer' = [pointer EXCEPT ![c] = row]
    BY <1>0, <1>4, FreeObject DEF NewThreadConfig, Construct
  <2> HIDE DEF c
  <2>2. running[c] = {}
    BY <2>1, OnesThatRun
  <2>3. telling[c] = "none"
    BY <2>1, <2>2 DEF Silent
  <2>4. Rows' = Rows
    BY <2>1 DEF Rows
  <2>5. \A d \in Configs \ {c} : pointer'[d] = pointer[d]
    BY <1>0, <2>1 DEF SharedTypes
  <2>6. Unflagged(i)
    BY <2>1, <2>3, <2>4, <2>5, UnflaggedKept
  <2> QED BY <2>1, <2>4, <2>6 DEF NoteUnflagged
<1>5. CASE InConstructor \/ InDestructor
  <2>1. UNCHANGED <<settings, pointer, missed, handler, row>>
    BY <1>5 DEF InConstructor, InDestructor, screen
  <2>2. \A c \in Configs : telling'[c] \in {telling[c], "none"}
    BY <1>5 DEF InConstructor, InDestructor, Silence
  <2>3. Rows' = Rows
    BY <2>1 DEF Rows
  <2>4. Unflagged(i)
    BY <2>1, <2>2, <2>3, UnflaggedKept
  <2> QED BY <2>1, <2>3, <2>4 DEF NoteUnflagged
<1>6. CASE ApplyThrows \/ NextThreadConfig
  <2>1. UNCHANGED <<settings, telling, missed>> /\ pointer' = [pointer EXCEPT ![this] = 0]
    BY <1>6 DEF ApplyThrows, NextThreadConfig
  <2>2. handler # "getStatusString"
    BY <1>6 DEF ApplyThrows, NextThreadConfig, Thrown, Deleted, Handled
  <2>3. Rows' = Rows /\ i # 0
    BY <1>0, <2>1 DEF Rows
  <2>4. \A c \in Configs : pointer'[c] \in {0, pointer[c]}
    BY <1>0, <2>1 DEF SharedTypes
  <2>5. Unflagged(i)
    BY <2>1, <2>3, <2>4, UnflaggedKept
  <2> QED BY <2>1, <2>2, <2>3, <2>5 DEF NoteUnflagged
<1>7. ASSUME NEW c \in Configs, ThreadStep(c)
      PROVE  i \in missed' \/ (handler' = "getStatusString" /\ row' = i)
  <2>1. UNCHANGED <<missed, handler, row, pointer>>
    BY <1>7 DEF ThreadStep, SetStatusFlag, SetStatus, GivesUp, ComThreadReturns, GetStatus,
         Corrupt, shared, screen
  <2>2. SUFFICES i \in Rows /\ Unflagged(i)
    BY <2>1 DEF NoteUnflagged
  <2>3. ASSUME NEW s \in Statuses, SetStatusFlag(c, s), pointer[c] \in Rows
        PROVE  i \in Rows /\ Unflagged(i)
    <3>1. /\ Rows' = Rows /\ settings'[i].status = settings[i].status
          /\ settings[i].change => settings'[i].change
          /\ i # pointer[c] => settings'[i].change = settings[i].change
          /\ settings[pointer[c]].status # s => settings'[pointer[c]].change
          /\ telling' = [telling EXCEPT ![c] = s]
      BY <1>0, <2>3, SetStatusFlagEffect
    <3>2. telling'[c] = s /\ \A d \in Configs \ {c} : telling'[d] = telling[d]
      BY <1>0, <3>1 DEF SharedTypes
    <3> QED BY <2>1, <3>1, <3>2 DEF Unflagged
  <2>4. ASSUME SetStatus(c), pointer[c] \in Rows
        PROVE  i \in Rows /\ Unflagged(i)
    <3>1. /\ Rows' = Rows /\ settings'[i].change = settings[i].change
          /\ i # pointer[c] => settings'[i].status = settings[i].status
      BY <1>0, <2>4, SetStatusEffect
    <3>2. telling'[c] = "none" /\ \A d \in Configs \ {c} : telling'[d] = telling[d]
      BY <1>0, <2>4, SetStatusThreads DEF SharedTypes
    <3>3. \A d \in Configs \ {c} : pointer[d] = pointer[c] => telling[d] = "none"
      BY <1>0, <2>4, SetStatusThreads DEF PointsAlone, Silent
    <3>4. i # pointer[c]
      BY <2>1, <3>2, <3>3 DEF Unflagged
    <3> QED BY <2>1, <3>1, <3>2, <3>4, UnflaggedKept
  <2>5. CASE settings' = settings /\ \A d \in Configs : telling'[d] \in {telling[d], "none"}
    BY <2>1, <2>5 DEF Rows, Unflagged
  <2>6. ASSUME NEW s \in Statuses, SetStatusFlag(c, s) PROVE i \in Rows /\ Unflagged(i)
    BY <2>3, <2>5, <2>6 DEF SetStatusFlag
  <2>7. ASSUME SetStatus(c) PROVE i \in Rows /\ Unflagged(i)
    <3>1. \A d \in Configs : telling'[d] \in {telling[d], "none"}
      BY <1>0, <2>7, SetStatusThreads DEF SharedTypes
    <3> QED BY <2>4, <2>5, <2>7, <3>1 DEF SetStatus
  <2> QED BY <1>7, <2>5, <2>6, <2>7 DEF ThreadStep, GivesUp, ComThreadReturns, GetStatus,
       Corrupt, shared
<1> QED BY <1>1, <1>2, <1>3, <1>4, <1>5, <1>6, <1>7, ShownKept DEF UpdatePortSettings

\* FillSettings is the last thing such a handler does.
LEMMA FilledMatches ==
  ASSUME FillSettings
  PROVE  \A i \in Rows' : list'[i] = settings'[i].status
BY DEF FillSettings, Rows

\* Whatever a thread stores and the timer resets in between, a row that is shown wrong is
\* flagged, missed or about to be shown.
LEMMA ListShowsStep ==
  ASSUME TypeOK, Handled, Silent, NoteUnflagged, ListShowsStatus, [Next]_vars, ~DialogHangs
  PROVE  ListShowsStatus'
<1>0. /\ SharedTypes /\ ScreenTypes /\ ConfigTypeOK
      /\ Rows = 1 .. Len(settings) /\ Len(settings) \in Nat
  BY TypesSplit, RowsAre
<1>a. CASE UNCHANGED vars
  BY <1>a DEF vars, screen, shared, ListShowsStatus, Rows
<1>b. CASE FillSettings
  BY <1>b, FilledMatches DEF ListShowsStatus
<1> SUFFICES ASSUME ~UNCHANGED vars, ~FillSettings, NEW i \in Rows'
             PROVE  \/ list'[i] = settings'[i].status \/ settings'[i].change \/ i \in missed'
                    \/ handler' = "getStatusString" /\ row' = i
  BY <1>a, <1>b DEF ListShowsStatus
<1>1. CASE UNCHANGED <<settings, list, missed>> /\ handler # "getStatusString"
  BY <1>1 DEF ListShowsStatus, Rows
<1>2. CASE ResetFlag
  <2>1. /\ Rows' = Rows /\ row \in Rows /\ settings'[i].status = settings[i].status
        /\ i # row => settings'[i].change = settings[i].change
    BY <1>0, <1>2, ResetFlagEffect
  <2>2. handler = "isStatusChange" /\ list' = list /\ missed \subseteq missed'
    BY <1>2 DEF ResetFlag
  <2>3. CASE i # row
    BY <2>1, <2>2, <2>3 DEF ListShowsStatus
  <2>4. CASE i = row /\ flagRead
    BY <1>2, <2>4 DEF ResetFlag
  <2>5. CASE i = row /\ ~flagRead /\ settings[row].change
    BY <1>2, <2>5 DEF ResetFlag
  <2>6. CASE i = row /\ ~flagRead /\ ~settings[row].change
    BY <2>1, <2>2, <2>6 DEF ListShowsStatus
  <2> QED BY <2>3, <2>4, <2>5, <2>6
<1>3. CASE ShowStatus
  <2>1. /\ settings' = settings /\ Rows' = Rows /\ i \in 1 .. Len(list)
        /\ list' = [list EXCEPT ![row] = settings[row].status]
        /\ i # row => (i \in missed => i \in missed')
    BY <1>0, <1>3 DEF ShowStatus, Rows, ScreenTypes
  <2>2. list \in Seq(Statuses)
    BY <1>0 DEF ScreenTypes
  <2>3. list'[i] = IF i = row THEN settings[i].status ELSE list[i]
    BY <2>1, <2>2
  <2> QED BY <2>1, <2>3 DEF ListShowsStatus
<1>4. CASE NewThreadConfig \/ InConstructor \/ InDestructor
  BY <1>4 DEF NewThreadConfig, InConstructor, InDestructor, screen, ListShowsStatus, Rows
<1>5. CASE ApplyThrows \/ NextThreadConfig
  <2>1. UNCHANGED <<settings, list, missed>>
    BY <1>5 DEF ApplyThrows, NextThreadConfig
  <2>2. handler # "getStatusString"
    BY <1>5 DEF ApplyThrows, NextThreadConfig, Thrown, Deleted, Handled
  <2> QED BY <2>1, <2>2 DEF ListShowsStatus, Rows
<1>6. ASSUME NEW c \in Configs, ThreadStep(c)
      PROVE  \/ list'[i] = settings'[i].status \/ settings'[i].change \/ i \in missed'
             \/ handler' = "getStatusString" /\ row' = i
  <2>1. UNCHANGED <<missed, handler, row, list>>
    BY <1>6 DEF ThreadStep, SetStatusFlag, SetStatus, GivesUp, ComThreadReturns, GetStatus,
         Corrupt, shared, screen
  <2>2. ASSUME NEW s \in Statuses, SetStatusFlag(c, s), pointer[c] \in Rows
        PROVE  \/ list[i] = settings'[i].status \/ settings'[i].change \/ i \in missed
               \/ handler = "getStatusString" /\ row = i
    <3>1. /\ Rows' = Rows /\ settings'[i].status = settings[i].status
          /\ settings[i].change => settings'[i].change
      BY <1>0, <2>2, SetStatusFlagEffect
    <3> QED BY <3>1 DEF ListShowsStatus
  <2>3. ASSUME SetStatus(c), pointer[c] \in Rows
        PROVE  \/ list[i] = settings'[i].status \/ settings'[i].change \/ i \in missed
               \/ handler = "getStatusString" /\ row = i
    <3>1. /\ Rows' = Rows /\ settings'[i].change = settings[i].change
          /\ i # pointer[c] => settings'[i].status = settings[i].status
          /\ settings'[pointer[c]].status = telling[c]
      BY <1>0, <2>3, SetStatusEffect
    <3>2. CASE i # pointer[c] \/ settings[i].status = telling[c]
      BY <3>1, <3>2 DEF ListShowsStatus
    <3>3. CASE i = pointer[c] /\ settings[i].status # telling[c] /\ ~settings[i].change
      <4>1. telling[c] # "none"
        BY <2>3 DEF SetStatus
      <4>2. Unflagged(i)
        BY <3>3, <4>1 DEF Unflagged
      <4> QED BY <3>1, <4>2 DEF NoteUnflagged
    <3> QED BY <3>1, <3>2, <3>3
  <2>4. CASE settings' = settings
    BY <2>1, <2>4 DEF ListShowsStatus, Rows
  <2> QED BY <1>6, <2>1, <2>2, <2>3, <2>4
          DEF ThreadStep, SetStatusFlag, SetStatus, GivesUp, ComThreadReturns, GetStatus,
               Corrupt, shared
<1> QED BY <1>1, <1>2, <1>3, <1>4, <1>5, <1>6, ShownKept DEF UpdatePortSettings

\* While the Edit dialog is shown, nobody else touches a pointer.
LEMMA WhileEditing ==
  ASSUME TypeOK, Handled, [Next]_vars, ~DialogHangs, edit # NoEdit
  PROVE  \/ UNCHANGED <<edit, pointer>> /\ \A c \in Configs : running'[c] \subseteq running[c]
         \/ edit' = NoEdit
         \/ \E p \in Ports \cup {edit.shown}, a \in Addresses \cup {BadAddress} :
              OkRefused(p, a)
<1>0. ConfigTypeOK
  BY TypesSplit
<1>1. CASE User
  BY <1>1 DEF User, OnBnClickedButtonAdd, OnBnClickedButtonEdit, OnBnClickedButtonDelete,
       OnBnClickedOk, AddAccepted, EditAccepted, EditCancelled,
       OnBnClickedButtonApply, StopOrClose, Responsive
<1>2. CASE Handlers
  <2>1. ~Apply /\ ~StopThreads
    BY DEF Apply, StopThreads, NewThreadConfig, InConstructor, ConstructorStep, Create,
       CreateFails,
       Undo, PushBack, Constructed, ApplyThrows, Thrown, DeleteThreadConfig, InDestructor,
       DestroyStep, NextThreadConfig, Deleted, Clear, Handled
  <2> QED BY <1>2, <2>1 DEF Handlers, UpdatePortSettings, ResetFlag, ShowStatus, configVars
<1>3. CASE OnTimer
  BY <1>3 DEF OnTimer, configVars, shared
<1>4. ASSUME NEW c \in Configs, ThreadStep(c)
      PROVE  UNCHANGED <<edit, pointer>> /\ \A d \in Configs : running'[d] \subseteq running[d]
  <2>1. UNCHANGED <<edit, pointer>> /\ ~InConstructor
    BY <1>4 DEF ThreadStep, SetStatusFlag, SetStatus, GivesUp, ComThreadReturns, GetStatus,
         Corrupt, shared, screen,
       InConstructor, ConstructorStep, Create, CreateFails, Undo, Handled
  <2> QED BY <1>0, <2>1, PortsOpened
<1>5. CASE UNCHANGED vars
  BY <1>5 DEF vars, configVars, screen, shared
<1> QED BY <1>1, <1>2, <1>3, <1>4, <1>5 DEF Next

\* Only Add and Edit open the dialog.
LEMMA DialogOpens ==
  ASSUME [Next]_vars, ~DialogHangs, edit = NoEdit
  PROVE  edit' = NoEdit \/ OnBnClickedButtonAdd \/ OnBnClickedButtonEdit
BY DEF Next, vars, User, OnBnClickedButtonDelete, EditCancelled, OnBnClickedButtonApply,
       StopOrClose, OnTimer, Handlers, Apply, StopThreads, UpdatePortSettings, NewThreadConfig,
       InConstructor, PushBack, ApplyThrows, DeleteThreadConfig, InDestructor, NextThreadConfig,
       Clear, ResetFlag, ShowStatus, ThreadStep, SetStatusFlag, SetStatus, GivesUp,
       ComThreadReturns, GetStatus, Corrupt, screen

\* The Edit dialog shows a copy that is stale only if it was opened on a row with a
\* thread.
LEMMA EditedStep ==
  ASSUME ConfigInv, TypeOK, Handled, Spare, Edited, Told, [Next]_vars, ~DialogHangs
  PROVE  Edited'
<1>0. /\ SharedTypes /\ ScreenTypes /\ ConfigTypeOK
      /\ Rows = 1 .. Len(settings) /\ Len(settings) \in Nat
      /\ (meddled => meddled') /\ (terminated => terminated')
  BY TypesSplit, RowsAre, ForGood
<1>1. CASE edit' = NoEdit
  BY <1>1 DEF Edited
<1>2. CASE /\ edit # NoEdit /\ UNCHANGED <<edit, pointer>>
           /\ \A c \in Configs : running'[c] \subseteq running[c]
  BY <1>0, <1>2 DEF Edited, Watched
<1>3. ASSUME edit # NoEdit, NEW p, NEW a, OkRefused(p, a) PROVE Edited'
  <2>1. /\ edit'.cur = edit.cur /\ edit'.status = edit.status /\ edit'.watched = edit.watched
    BY <1>0, <1>3 DEF OkRefused, ScreenTypes, Dialog
  <2>2. UNCHANGED <<meddled, terminated, running, pointer>>
    BY <1>3 DEF OkRefused, configVars, shared
  <2> QED BY <1>3, <2>1, <2>2 DEF Edited, Watched
<1>4. CASE OnBnClickedButtonAdd
  <2>1. UNCHANGED <<meddled, terminated>>
    BY <1>4 DEF OnBnClickedButtonAdd, configVars, shared
  <2>2. CASE edit' = Opened([com |-> 0, status |-> "Stopped", change |-> FALSE], 0, FALSE)
    BY <2>2 DEF Opened, Edited
  <2>3. ASSUME NEW r \in Rows, edit' = Opened(settings[r], 0, Watched({r})) PROVE Edited'
    <3>1. edit'.watched = Watched({r}) /\ edit'.status = settings[r].status /\ edit'.cur = 0
      BY <2>3 DEF Opened
    <3> QED BY <2>1, <3>1 DEF Edited, Told, TellsTruth
  <2> QED BY <1>4, <2>2, <2>3 DEF OnBnClickedButtonAdd
<1>5. CASE OnBnClickedButtonEdit
  <2>1. UNCHANGED <<meddled, terminated, running, pointer>>
    BY <1>5 DEF OnBnClickedButtonEdit, configVars, shared
  <2>2. PICK r \in Rows : edit' = Opened(settings[r], r, Watched({r}))
    BY <1>5 DEF OnBnClickedButtonEdit
  <2>3. edit'.watched = Watched({r}) /\ edit'.status = settings[r].status /\ edit'.cur = r
    BY <2>2 DEF Opened
  <2> QED BY <2>1, <2>3 DEF Edited, Told, TellsTruth, Watched
<1> QED BY <1>1, <1>2, <1>3, <1>4, <1>5, WhileEditing, DialogOpens

-----------------------------------------------------------------------------
(* What the rows tell. *)

\* No socket thread of another object points to the row whose object is built.
LEMMA RowOfItsOwn ==
  ASSUME ConfigInv, TypeOK, Handled, Owned, Applied, Building,
         \A c \in Configs : running[c] # {} => c \in exists,
         NEW d \in Configs \ {this}, Sock \in running[d]
  PROVE  pointer[d] # row
<1>1. handler = "apply" /\ row \in Rows /\ Len(threadConfigs) = row - 1
  BY DEF Handled, Building
<1>2. PICK i \in 1 .. Len(threadConfigs) : d = threadConfigs[i]
  BY <1>1 DEF Owned, Live
<1>3. pointer[d] \in {0, i}
  BY <1>1, <1>2 DEF Applied
<1>4. row \in Nat /\ row # 0 /\ row # i
  BY <1>1, TypesSplit, RowsAre
<1> QED BY <1>3, <1>4

\* A thread that is left when its object is freed was terminated.
LEMMA LeavesTerminated ==
  ASSUME ConfigInv, ApplyThrows \/ NextThreadConfig, NEW h, h \in running[this]
  PROVE  terminated
<1>1. h \in Handles
  BY UsesResources DEF ApplyThrows, Thrown, NextThreadConfig, Deleted, ConfigInv, ConfigTypeOK,
     Objects, Placed
<1>2. CASE ApplyThrows
  <2>1. call = "undo" /\ line > 7 /\ line \in 0 .. 8
    BY <1>2, UndoneOrder, CreatedOrder DEF ApplyThrows, Thrown, ConfigInv, ConfigTypeOK
  <2>2. PICK i \in 1 .. 7 : h = Undone[i]
    BY <1>1, UndoneOrder
  <2> QED BY <2>1, <2>2 DEF ConfigInv, Objects, Undoing
<1>3. CASE NextThreadConfig
  <2>1. call = "destroy" /\ line > 7 /\ line \in 0 .. 8
    BY <1>3, DestroyedOrder, CreatedOrder DEF NextThreadConfig, Deleted, ConfigInv, ConfigTypeOK
  <2>2. PICK i \in 1 .. 7 : h = Destroyed[i]
    BY <1>1, DestroyedOrder
  <2> QED BY <2>1, <2>2 DEF ConfigInv, Objects, Destroying
<1> QED BY <1>2, <1>3

\* What the steps that are not the user's, Apply's or a thread's do.
LEMMA TruthKept ==
  ASSUME TypeOK, Handled, [Next]_vars, ~DialogHangs
  PROVE  \/ UNCHANGED <<settings, pointer, running, told>>
         \/ ResetFlag /\ UNCHANGED <<pointer, running, told>>
         \/ \E p \in Ports \cup {edit.shown}, a \in Addresses \cup {BadAddress} :
              edit # NoEdit /\ (AddAccepted(p, a) \/ EditAccepted(p, a))
         \/ \E r \in Rows : OnBnClickedButtonDelete(r)
         \/ NewThreadConfig \/ InConstructor \/ InDestructor \/ ApplyThrows \/ NextThreadConfig
         \/ \E c \in Configs : ThreadStep(c)
<1>1. CASE User
  BY <1>1 DEF User, OnBnClickedButtonAdd, OnBnClickedButtonEdit,
       OnBnClickedOk, OkRefused, EditCancelled, OnBnClickedButtonApply, StopOrClose, shared,
       configVars
<1>2. CASE OnTimer \/ UpdatePortSettings
  BY <1>2 DEF OnTimer, UpdatePortSettings, ResetFlag, ShowStatus, shared, configVars
<1>3. CASE PushBack
  BY <1>3 DEF PushBack, Constructed, shared
<1>4. CASE DeleteThreadConfig \/ Clear
  BY <1>4 DEF DeleteThreadConfig, Destroy, Corrupt, Clear, shared, configVars
<1>5. CASE UNCHANGED vars
  BY <1>5 DEF vars, configVars, shared
<1> QED BY <1>1, <1>2, <1>3, <1>4, <1>5 DEF Next, Handlers, Apply, StopThreads

\* A thread that writes to its setting uses it.
LEMMA WatchedIsUsed == ASSUME NEW R, ~Used(R) PROVE ~Watched(R)
BY DEF Used, Watched, Users

\* Add tells the truth about the new row, and about the old ones if they are moved.
LEMMA AddTells ==
  ASSUME TypeOK, edit # NoEdit, Edited, TellsTruth, ~meddled', ~terminated,
         NEW p \in Ports \cup {edit.shown}, NEW a \in Addresses \cup {BadAddress},
         AddAccepted(p, a)
  PROVE  TellsTruth'
<1>0. /\ SharedTypes /\ ScreenTypes /\ Rows = 1 .. Len(settings) /\ Len(settings) \in Nat
  BY TypesSplit, RowsAre
<1> DEFINE n == Len(settings) + 1
<1>1. Rows' = 1 .. n
  BY <1>0, AddEffect
<1>2. (\A i \in Rows : settings'[i] = settings[i]) /\ settings'[n] = Entered(p, a)
  BY <1>0, AddEffect
<1>3. UNCHANGED <<running, told>>
  BY DEF AddAccepted, configVars
<1>4. ~edit.watched /\ ~meddled
  BY DEF AddAccepted
<1>5. settings'[n].status = "Stopped"
  BY <1>2, <1>4 DEF Edited, Entered
<1>6. n \notin Rows /\ n # 0 /\ \A i \in 1 .. n : i = n \/ i \in Rows
  BY <1>0
<1> HIDE DEF n
<1>7. CASE UNCHANGED pointer
  <2>1. \A c \in Configs : pointer[c] # n
    BY <1>0, <1>6 DEF SharedTypes
  <2> QED BY <1>1, <1>2, <1>3, <1>5, <1>6, <1>7, <2>1 DEF TellsTruth, Watched
<1>8. CASE /\ pointer' = [c \in Configs |-> 0]
           /\ meddled' = (meddled \/ edit.watched \/ Used(Rows))
  <2>1. ~Watched(Rows)
    BY <1>8, WatchedIsUsed
  <2>2. \A i \in Rows : ~Watched({i})
    BY <2>1 DEF Watched
  <2>3. \A i \in 1 .. n : settings'[i].status = "Stopped"
    BY <1>2, <1>5, <1>6, <2>2 DEF TellsTruth
  <2>4. \A i \in 1 .. n : i # 0
    BY <1>0, <1>6
  <2> QED BY <1>1, <1>8, <2>3, <2>4 DEF TellsTruth
<1> QED BY <1>7, <1>8 DEF AddAccepted

\* Edit puts a status back that is still true.
LEMMA EditTells ==
  ASSUME TypeOK, edit # NoEdit, Edited, TellsTruth, ~meddled', ~terminated,
         NEW p, NEW a, EditAccepted(p, a)
  PROVE  TellsTruth'
<1>0. /\ SharedTypes /\ ScreenTypes
  BY TypesSplit
<1>1. /\ Rows' = Rows /\ edit.cur \in Rows
      /\ \A i \in Rows \ {edit.cur} : settings'[i] = settings[i]
      /\ settings'[edit.cur] = Entered(p, a)
  BY <1>0, EditEffect
<1>2. UNCHANGED <<running, told, pointer>>
  BY DEF EditAccepted, configVars
<1>3. ~edit.watched /\ ~meddled
  BY DEF EditAccepted
<1>4. settings'[edit.cur].status = "Stopped" /\ ~Watched({edit.cur})
  BY <1>1, <1>3 DEF Edited, Entered, EditAccepted
<1> QED BY <1>1, <1>2, <1>4 DEF TellsTruth, Watched

\* Delete moves rows that have no thread.
LEMMA DeleteTells ==
  ASSUME TypeOK, TellsTruth, ~meddled', NEW r \in Rows, OnBnClickedButtonDelete(r)
  PROVE  TellsTruth'
<1>0. /\ SharedTypes /\ Rows = 1 .. Len(settings) /\ Len(settings) \in Nat
  BY TypesSplit, RowsAre
<1>1. /\ Rows' = 1 .. Len(settings) - 1 /\ Len(settings) \in Rows
      /\ \A i \in Rows : i < r => settings'[i] = settings[i]
      /\ \A i \in Rows' : i >= r => i + 1 \in Rows /\ settings'[i] = settings[i + 1]
  BY <1>0, DeleteEffect
<1>2. /\ UNCHANGED <<running, told>>
      /\ \A c \in Configs : pointer'[c] = IF pointer[c] = Len(settings) THEN 0 ELSE pointer[c]
  BY DEF OnBnClickedButtonDelete, configVars
<1>3. ~Watched({i \in Rows : i >= r})
  BY WatchedIsUsed DEF OnBnClickedButtonDelete
<1>4. \A c \in Configs : \A i \in Rows : Sock \in running[c] /\ i >= r => pointer[c] # i
  BY <1>3 DEF Watched
<1> SUFFICES ASSUME NEW i \in Rows'
             PROVE  /\ Watched({i})' \/ settings'[i].status = "Stopped"
                    /\ \A c \in Configs : Sock \in running'[c] /\ pointer'[c] = i
                         => settings'[i].status = told'[c]
  BY DEF TellsTruth
<1>5. i \in Rows /\ i # Len(settings) /\ i # 0
  BY <1>0, <1>1
<1>6. CASE i < r
  <2>1. settings'[i] = settings[i]
    BY <1>1, <1>5, <1>6
  <2>2. \A c \in Configs : pointer'[c] = i <=> pointer[c] = i
    BY <1>2, <1>5
  <2> QED BY <1>2, <1>5, <2>1, <2>2 DEF TellsTruth, Watched
<1>7. CASE ~(i < r)
  <2>1. i >= r /\ i + 1 >= r /\ i + 1 \in Rows /\ settings'[i] = settings[i + 1]
    BY <1>0, <1>1, <1>5, <1>7
  <2>2. ~Watched({i + 1})
    BY <1>4, <2>1 DEF Watched
  <2>3. settings'[i].status = "Stopped"
    BY <2>1, <2>2 DEF TellsTruth
  <2>4. \A c \in Configs : Sock \in running[c] => pointer'[c] # i
    BY <1>2, <1>4, <1>5, <2>1
  <2> QED BY <1>2, <2>3, <2>4
<1> QED BY <1>6, <1>7

\* A thread that starts has said nothing, and its row has no other.
LEMMA ConstructorTells ==
  ASSUME ConfigInv, TypeOK, Handled, Owned, Applied, Silent, TellsTruth, ~terminated',
         \A c \in Configs : running[c] # {} => c \in exists, InConstructor
  PROVE  TellsTruth'
<1>0. ConfigTypeOK
  BY TypesSplit
<1>1. /\ UNCHANGED <<settings, pointer>> /\ Building /\ handler = "apply" /\ row \in Rows
      /\ this \in Configs
  BY DEF InConstructor, ConstructorStep, Create, CreateFails, Undo, Building, Handled,
         ConfigInv, ConfigTypeOK, Objects, Placed
<1>2. /\ \A d \in Configs \ {this} : running'[d] = running[d]
      /\ Sock \in running[this] => Sock \in running'[this]
  <2>1. CASE ConstructorStep(settings[row].com)
    BY <1>0, <1>1, <2>1 DEF ConstructorStep, Create, CreateFails, ConfigTypeOK
  <2>2. CASE Undo
    <3>1. Undone[line] \notin running[this]
      BY <2>2 DEF Undo
    <3> QED BY <1>0, <1>1, <2>2, <3>1 DEF Undo, ConfigTypeOK
  <2> QED BY <2>1, <2>2 DEF InConstructor
<1>3. \A c \in Configs : Sock \in running'[c] => told'[c] = told[c]
  BY DEF InConstructor, Silence
<1>4. pointer[this] = row
  BY <1>1 DEF Applied
<1>5. \A d \in Configs \ {this} : Sock \in running[d] => pointer[d] # row
  BY <1>1, RowOfItsOwn
<1>6. ASSUME NEW i \in Rows, Watched({i}) PROVE Watched({i})'
  BY <1>1, <1>2, <1>6 DEF Watched
<1>7. ASSUME NEW i \in Rows, NEW c \in Configs, Sock \in running'[c], pointer[c] = i
      PROVE  settings[i].status = told[c]
  <2>1. CASE Sock \in running[c]
    BY <1>7, <2>1 DEF TellsTruth
  <2>2. CASE Sock \notin running[c]
    <3>1. c = this /\ i = row
      BY <1>2, <1>4, <1>7, <2>2
    <3>2. ~Watched({row})
      BY <1>5, <2>2, <3>1 DEF Watched
    <3> QED BY <1>1, <2>2, <3>1, <3>2 DEF TellsTruth, Silent
  <2> QED BY <2>1, <2>2
<1>8. Rows' = Rows
  BY <1>1 DEF Rows
<1> QED BY <1>1, <1>3, <1>6, <1>7, <1>8 DEF TellsTruth

\* A thread tells its row what it tells.
LEMMA ThreadTells ==
  ASSUME TypeOK, PointsAlone, TellsTruth, NEW c \in Configs, ThreadStep(c)
  PROVE  TellsTruth'
<1>0. /\ SharedTypes /\ ConfigTypeOK /\ Rows = 1 .. Len(settings) /\ Len(settings) \in Nat
  BY TypesSplit, RowsAre
<1>1. ASSUME NEW s \in Statuses, SetStatusFlag(c, s) PROVE TellsTruth'
  <2>1. UNCHANGED <<running, told, pointer>>
    BY <1>1 DEF SetStatusFlag, Corrupt, configVars
  <2>2. Rows' = Rows /\ \A i \in Rows : settings'[i].status = settings[i].status
    BY <1>0, <1>1, SetStatusFlagEffect DEF SetStatusFlag, Rows
  <2> QED BY <2>1, <2>2 DEF TellsTruth, Watched
<1>2. CASE SetStatus(c)
  <2>1. /\ told'[c] = telling[c] /\ \A d \in Configs \ {c} : told'[d] = told[d]
        /\ Sock \in running[c] /\ pointer' = pointer
    BY <1>0, <1>2, SetStatusThreads DEF SharedTypes
  <2>2. /\ Sock \in running'[c] \/ telling[c] = "Stopped"
        /\ \A d \in Configs \ {c} : running'[d] = running[d]
        /\ Sock \in running'[c] => Sock \in running[c]
    BY <1>0, <1>2, SetStatusThreads DEF ConfigTypeOK
  <2>3. CASE pointer[c] \in Rows
    <3>1. /\ Rows' = Rows
          /\ \A i \in Rows : i # pointer[c] => settings'[i].status = settings[i].status
          /\ settings'[pointer[c]].status = telling[c]
      BY <1>0, <1>2, <2>3, SetStatusEffect
    <3>2. \A d \in Configs \ {c} : Sock \in running[d] => pointer[d] # pointer[c]
      BY <1>0, <2>1, <2>3 DEF PointsAlone
    <3> QED BY <2>1, <2>2, <2>3, <3>1, <3>2 DEF TellsTruth, Watched
  <2>4. CASE pointer[c] \notin Rows
    <3>1. settings' = settings /\ running' = running
      BY <1>2, <2>4 DEF SetStatus, Corrupt
    <3> QED BY <2>1, <2>4, <3>1 DEF TellsTruth, Watched, Rows
  <2> QED BY <2>3, <2>4
<1>3. CASE GivesUp(c)
  <2>1. /\ UNCHANGED <<settings, told, pointer>> /\ told[c] = "Stopped" /\ Sock \in running[c]
        /\ Sock \notin running'[c] /\ \A d \in Configs \ {c} : running'[d] = running[d]
    BY <1>0, <1>3 DEF GivesUp, Returns, shared, ConfigTypeOK
  <2> QED BY <2>1 DEF TellsTruth, Watched, Rows
<1>4. CASE ComThreadReturns(c)
  <2>1. /\ UNCHANGED <<settings, told, pointer>>
        /\ \A d \in Configs : Sock \in running[d] <=> Sock \in running'[d]
    BY <1>0, <1>4 DEF ComThreadReturns, Returns, shared, ConfigTypeOK
  <2> QED BY <2>1 DEF TellsTruth, Watched, Rows
<1>5. CASE GetStatus(c)
  BY <1>5 DEF GetStatus, Corrupt, shared, TellsTruth, Watched, Rows
<1> QED BY <1>1, <1>2, <1>3, <1>4, <1>5 DEF ThreadStep

\* Every step keeps what the rows tell true, until a row is meddled with or a thread
\* terminated.
LEMMA ToldStep ==
  ASSUME ConfigInv, TypeOK, Handled, Spare, Owned, Applied, PointsAlone, Silent, Edited, Told,
         [Next]_vars, ~DialogHangs
  PROVE  Told'
<1> SUFFICES ASSUME ~meddled', ~terminated' PROVE TellsTruth'
  BY DEF Told
<1>0. /\ SharedTypes /\ ConfigTypeOK /\ Rows = 1 .. Len(settings) /\ Len(settings) \in Nat
      /\ ~meddled /\ ~terminated
  BY TypesSplit, RowsAre, ForGood
<1>1. TellsTruth
  BY <1>0 DEF Told
<1>2. CASE UNCHANGED <<settings, pointer, running, told>>
  BY <1>1, <1>2 DEF TellsTruth, Watched, Rows
<1>3. CASE ResetFlag /\ UNCHANGED <<pointer, running, told>>
  <2>1. Rows' = Rows /\ \A i \in Rows : settings'[i].status = settings[i].status
    BY <1>0, <1>3, ResetFlagEffect
  <2> QED BY <1>1, <1>3, <2>1 DEF TellsTruth, Watched
<1>4. \A c \in Configs : running[c] # {} => c \in exists
  BY <1>0 DEF ConfigInv, Objects, Outlived
<1>5. CASE NewThreadConfig
  <2> DEFINE c == Min(Configs \ exists)
  <2>1. /\ c \notin exists /\ c \in Configs /\ pointer' = [pointer EXCEPT ![c] = row]
        /\ UNCHANGED <<running, told, settings>>
    BY <1>0, <1>5, FreeObject DEF NewThreadConfig, Construct
  <2> HIDE DEF c
  <2>2. \A d \in Configs : Sock \in running[d] => pointer'[d] = pointer[d]
    BY <1>0, <1>4, <2>1 DEF SharedTypes
  <2> QED BY <1>1, <2>1, <2>2 DEF TellsTruth, Watched, Rows
<1>6. CASE InConstructor
  BY <1>1, <1>4, <1>6, ConstructorTells
<1>7. CASE InDestructor
  <2>1. UNCHANGED <<settings, pointer, running>>
    BY <1>7 DEF InDestructor, DestroyStep, WaitToCloseThread
  <2>2. \A c \in Configs : Sock \in running[c] => told'[c] = told[c]
    BY <1>7, <2>1 DEF InDestructor, Silence
  <2> QED BY <1>1, <2>1, <2>2 DEF TellsTruth, Watched, Rows
<1>8. CASE ApplyThrows \/ NextThreadConfig
  <2>1. /\ UNCHANGED <<settings, told, running>> /\ pointer' = [pointer EXCEPT ![this] = 0]
    BY <1>8 DEF ApplyThrows, NextThreadConfig, Thrown, Deleted, Free
  <2>2. Sock \notin running[this]
    BY <1>0, <1>8, LeavesTerminated
  <2>3. \A d \in Configs : Sock \in running[d] => pointer'[d] = pointer[d]
    BY <1>0, <2>1, <2>2 DEF SharedTypes
  <2> QED BY <1>1, <2>1, <2>3 DEF TellsTruth, Watched, Rows
<1> QED BY <1>0, <1>1, <1>2, <1>3, <1>5, <1>6, <1>7, <1>8,
           TruthKept, AddTells, EditTells, DeleteTells, ThreadTells

-----------------------------------------------------------------------------
(* The invariant holds. *)

\* Nothing but these two and a constructor that fails makes the program wild.
LEMMA WildStep ==
  ASSUME ConfigInv, TypeOK, Handled, Spare, Owned, PointsToRow, WildOnlyIfDisturbed, [Next]_vars, ~DialogHangs
  PROVE  WildOnlyIfDisturbed'
<1>a. CASE UNCHANGED vars
  BY <1>a DEF vars, configVars, shared, WildOnlyIfDisturbed
<1> SUFFICES ASSUME ~UNCHANGED vars, wild' PROVE call' = "undo" \/ terminated' \/ meddled'
  BY <1>a DEF WildOnlyIfDisturbed
<1>0. ConfigTypeOK /\ (meddled => meddled') /\ (terminated => terminated') /\ ~wild
  BY TypesSplit, ForGood DEF Next, Over
<1>1. CASE wild' = wild
  BY <1>0, <1>1
<1>2. CASE User \/ OnTimer \/ UpdatePortSettings
  BY <1>1, <1>2 DEF User, OnBnClickedButtonAdd, OnBnClickedButtonEdit, OnBnClickedButtonDelete,
       OnBnClickedOk, AddAccepted, EditAccepted, OkRefused, EditCancelled,
       OnBnClickedButtonApply, StopOrClose, OnTimer, UpdatePortSettings, ResetFlag, ShowStatus,
       configVars
<1>3. CASE NewThreadConfig \/ PushBack
  BY <1>1, <1>3 DEF NewThreadConfig, Construct, PushBack, Constructed
<1>4. CASE InConstructor
  BY <1>1, <1>4 DEF InConstructor, ConstructorStep, Create, CreateFails, Undo
<1>5. CASE ApplyThrows \/ NextThreadConfig
  <2>1. wild' = (wild \/ running[this] # {})
    BY <1>5 DEF ApplyThrows, NextThreadConfig, Thrown, Deleted, Free
  <2>2. PICK h : h \in running[this]
    BY <1>0, <2>1
  <2>3. terminated
    BY <1>5, <2>2, LeavesTerminated
  <2> QED BY <1>0, <2>3
<1>6. CASE DeleteThreadConfig
  <2>1. handler = "stop" /\ call = "none" /\ row \in Live
    BY <1>6, TypesSplit DEF DeleteThreadConfig, Handled, Live, SharedTypes, ScreenTypes
  <2>2. threadConfigs[row] \in exists
    BY <2>1 DEF Owned
  <2> QED BY <1>1, <1>6, <2>2 DEF DeleteThreadConfig, Destroy
<1>7. CASE InDestructor \/ Clear
  BY <1>1, <1>7 DEF InDestructor, DestroyStep, Clear, configVars
<1>8. ASSUME NEW c \in Configs, ThreadStep(c) PROVE wild' = wild \/ meddled'
  <2>1. CASE running[c] \cap Users # {} /\ pointer[c] \notin Rows
    BY <1>0, <2>1 DEF PointsToRow
  <2>2. CASE pointer[c] \in Rows
    BY <1>8, <2>2 DEF ThreadStep, SetStatusFlag, SetStatus, GivesUp, ComThreadReturns, GetStatus,
       Returns, configVars
  <2>3. CASE running[c] \cap Users = {}
    BY <1>8, <2>3 DEF ThreadStep, SetStatusFlag, SetStatus, Tells, GivesUp, ComThreadReturns,
       GetStatus, Returns, Users
  <2> QED BY <2>1, <2>2, <2>3
<1> QED BY <1>1, <1>2, <1>3, <1>4, <1>5, <1>6, <1>7, <1>8 DEF Next, Handlers, Apply, StopThreads

\* The invariant holds when the dialog appears.
LEMMA DialogInvInit == Init => DialogInv
<1> SUFFICES ASSUME Init PROVE DialogInv
  OBVIOUS
<1>1. ConfigInv /\ TypeOK /\ Handled /\ Spare /\ Owned /\ NoDuplicates
  BY ConfigInvInit, TypeInit, HandledInit, OwnedInit, NoDuplicatesInit DEF Init
<1>2. \A i \in Rows : settings[i].status = "Stopped" /\ list[i] = settings[i].status
  BY ReadCfgType DEF Init, Rows
<1>3. Applied /\ ExclusivePort /\ PointsToRow /\ PointsAlone /\ Silent /\ Edited
  BY DEF Init, ConfigInit, Applied, ExclusivePort, PointsToRow, PointsAlone, Silent, Edited
<1>4. Told
  BY <1>2 DEF Init, ConfigInit, Told, TellsTruth
<1>5. NoteUnflagged
  BY DEF Init, NoteUnflagged, Unflagged
<1>6. ListShowsStatus /\ WildOnlyIfDisturbed
  BY <1>2 DEF Init, ConfigInit, ListShowsStatus, WildOnlyIfDisturbed
<1> QED BY <1>1, <1>3, <1>4, <1>5, <1>6 DEF DialogInv

\* Waiting for a lock changes nothing that the invariant speaks of.
LEMMA HangLeaves ==
  ASSUME DialogInv, ConfigInv', DialogHangs
  PROVE  DialogInv'
<1>0. UNCHANGED <<call, this, line, exists, member, com, running, terminated, wild,
                  threadConfigs, screen, shared>>
  BY DEF DialogHangs, Hang
<1> USE <1>0 DEF DialogInv, screen, shared
<1>1. TypeOK'
  BY DEF ConfigInv, TypeOK, Rows
<1>2. Handled' /\ Spare' /\ Owned' /\ Applied'
  BY DEF Handled, Spare, Owned, Live, Applied, Building, Rows
<1>3. NoDuplicates' /\ ExclusivePort'
  BY DEF NoDuplicates, ExclusivePort, Rows
<1>4. PointsToRow' /\ PointsAlone' /\ Silent'
  BY DEF PointsToRow, PointsAlone, Silent, Rows
<1>5. Edited' /\ Told'
  BY DEF Edited, Told, TellsTruth, Watched, Rows
<1>6. NoteUnflagged' /\ ListShowsStatus' /\ WildOnlyIfDisturbed'
  BY DEF NoteUnflagged, Unflagged, ListShowsStatus, WildOnlyIfDisturbed, Rows
<1> QED BY <1>1, <1>2, <1>3, <1>4, <1>5, <1>6

\* Every step keeps it.
LEMMA DialogInvStep == DialogInv /\ [Next]_vars => DialogInv'
<1> SUFFICES ASSUME DialogInv, [Next]_vars PROVE DialogInv'
  OBVIOUS
<1> USE DEF DialogInv
<1>1. ConfigInv'
  BY DialogUsesObjects, ConfigInvStep
<1>2. CASE DialogHangs
  BY <1>1, <1>2, HangLeaves
<1>3. CASE ~DialogHangs
  <2>2. TypeOK'
    BY <1>1, <1>3, TypeStep DEF ConfigInv
  <2>3. Handled' /\ Spare' /\ Owned' /\ Applied'
    BY <1>3, <2>2, HandledStep, SpareStep, OwnedStep, AppliedStep
  <2>4. NoDuplicates' /\ ExclusivePort'
    BY <1>3, NoDuplicatesStep, ExclusiveStep
  <2>5. PointsToRow' /\ PointsAlone' /\ Silent'
    BY <1>3, PointsToRowStep, PointsAloneStep, SilentStep
  <2>6. Edited' /\ Told'
    BY <1>3, EditedStep, ToldStep
  <2>7. NoteUnflagged' /\ ListShowsStatus' /\ WildOnlyIfDisturbed'
    BY <1>3, NoteUnflaggedStep, ListShowsStep, WildStep
  <2> QED BY <1>1, <2>2, <2>3, <2>4, <2>5, <2>6, <2>7
<1> QED BY <1>2, <1>3

\* The row's only thread is the one whose last word it shows.
LEMMA ToldTells == ConfigInv /\ TypeOK /\ PointsAlone /\ Told => RowTellsThread
<1> SUFFICES ASSUME ConfigInv, TypeOK, PointsAlone, TellsTruth, ~terminated, NEW i \in Rows
             PROVE  LET tellers == {c \in exists : Sock \in running[c] /\ pointer[c] = i}
                    IN  IF tellers = {} THEN settings[i].status = "Stopped"
                        ELSE \E c \in tellers : tellers = {c} /\ settings[i].status = told[c]
  BY DEF Told, RowTellsThread
<1> DEFINE tellers == {c \in exists : Sock \in running[c] /\ pointer[c] = i}
<1>1. i # 0 /\ exists \subseteq Configs
  BY TypesSplit, RowsAre DEF ConfigTypeOK
<1>2. \A c \in Configs : Sock \in running[c] => c \in exists
  BY DEF ConfigInv, Objects, Outlived
<1>3. CASE tellers = {}
  BY <1>2, <1>3 DEF TellsTruth, Watched
<1>4. ASSUME NEW c \in tellers PROVE tellers = {c} /\ settings[i].status = told[c]
  BY <1>1, <1>4 DEF TellsTruth, PointsAlone
<1> QED BY <1>3, <1>4

-----------------------------------------------------------------------------
(* The theorems. *)

\* DialogInv is an invariant of the program as its user sees it, for any number of ports,
\* rows, objects and clicks.
THEOREM DialogInvariant == Spec => []DialogInv
BY DialogInvInit, DialogInvStep, PTL DEF Spec

\* Every variable keeps its type; no row, object or list entry is ever out of range.
THEOREM DialogTypes == Spec => []TypeOK
BY DialogInvariant, PTL DEF DialogInv

\* The dialog implements the life cycle that ThreadConfig allows any caller: it never
\* deletes what it has not made, nor builds over what it has.
THEOREM DialogUsesObjectsAsAny == Spec => ConfigSpec
<1>1. Init => ConfigInit
  BY DEF Init
<1>2. DialogInv /\ [Next]_vars => [ConfigNext]_configVars
  BY DialogUsesObjects DEF DialogInv
<1> QED BY <1>1, <1>2, DialogInvariant, PTL DEF Spec, ConfigSpec

\* No two rows ever have the same port or address.
THEOREM DialogNoDuplicates == Spec => []NoDuplicates
BY DialogInvariant, PTL DEF DialogInv

\* What saveCfg writes, readCfg reads back, all of it.
THEOREM DialogSavedIsRead == Spec => []SavedIsRead
<1>1. TypeOK => SavedIsRead
  BY TypedIsSaved
<1> QED BY <1>1, DialogTypes, PTL

\* Each row shows what its socket thread stored last, and Stopped without one, until the
\* settings are meddled with or a thread terminated.
THEOREM DialogRowTellsThread == Spec => []RowTellsThread
<1>1. DialogInv => RowTellsThread
  BY ToldTells DEF DialogInv
<1> QED BY <1>1, DialogInvariant, PTL

\* The list is never wrong about a row without the timer finding out, but for the two
\* races of isStatusChange with setStatus.
THEOREM DialogListShowsStatus == Spec => []ListShowsStatus
BY DialogInvariant, PTL DEF DialogInv

\* The threads use open handles however the dialog makes and deletes objects.
THEOREM DialogUsesOpenHandles == Spec => []UsesOpenHandles
<1>1. DialogInv => UsesOpenHandles
  BY ConfigInvUses DEF DialogInv
<1> QED BY <1>1, DialogInvariant, PTL

\* Nothing stays open behind an object that is gone.
THEOREM DialogAllReleased == Spec => []AllReleased
<1>1. DialogInv => AllReleased
  BY DEF DialogInv, ConfigInv
<1> QED BY <1>1, DialogInvariant, PTL

\* No two objects ever have the same COM port open, alive or not.
THEOREM DialogExclusivePort == Spec => []ExclusivePort
BY DialogInvariant, PTL DEF DialogInv

\* Nothing uses freed memory or deletes twice unless a constructor fails, a thread is
\* terminated, or a setting is changed or moved under a thread that uses it, the COM
\* read thread included.
THEOREM DialogWildOnlyIfDisturbed == Spec => []WildOnlyIfDisturbed
BY DialogInvariant, PTL DEF DialogInv
=============================================================================
