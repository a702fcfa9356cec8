# AsyncComTCP in TLA+

AsyncComTCP is a Windows program that connects COM ports to TCP ports. What a COM
device sends goes out over a TCP connection, and what the peer sends is written to
the COM port. One source tree builds two programs: a client, which connects to a
server and reconnects for ever (`TCP_CLIENT`), and a server, which listens and
serves a client (`TCP_SERVER`). Each configured port has three threads, two ring
buffers without locks between them and a handful of Windows events.

This directory models the threads, the ring buffers, the objects and dialogs that
start and stop them, and what they use of Windows. It checks all that with TLC on
small instances, and proves with TLAPS, for every value of the constants, each safety
invariant and each refinement that TLC checks. Liveness, and that no handler blocks, is checked only.

## Inventory

Line numbers are those of `src/Source/`.

### Ring buffer: `CRingBuffer` (ringbuffer.h, ringbuffer.cpp)

* State: the memory `m_Base..m_End`, `m_Head`, `m_Tail`, `m_Size`, `m_InUse`.
* Operations: `Initialize`, `Write`, `Read`, `CancelReadBytes`, `GetAvailableSpace`,
  `GetAvailableData`; `ReInitialize` and `Purge`, which nothing calls.
* Interactions: one producer thread calls `Write`, one consumer thread calls `Read`,
  `GetAvailableData` and, for `m_ComToTcpBuf` only, `CancelReadBytes`. No lock.
* Hard: each call takes a snapshot of both pointers, copies, then publishes its own
  pointer, in two statements (`m_Tail += n; if (m_Tail == m_End) m_Tail = m_Base`).
  `CancelReadBytes` moves `m_Head` back into room the producer may have counted on.
* Correct when: snapshots stay good until they are used, unread bytes are not
  touched, reads return the accepted bytes in order, in short when it is a lossy FIFO.

### COM threads: `comDataReadProc`, `comDataWriteProc` (threads.cpp 117-294)

* State: where each one is, and its 1024 byte buffer.
* The reader waits for `EV_RXCHAR`, takes what the driver holds and, if the status is
  Connected, writes it to `m_ComToTcpBuf` and sets `m_ComRcvEvent`. The writer waits
  for `m_TcpRcvEvent` and copies `m_TcpToComBuf` to the port until it is empty.
* Hard: auto-reset events that must not leave bytes behind; the status read before
  the write it guards; `WriteFile` that fails or writes a part; `SetCommMask` that
  fails and ends the reader for good.
* Correct when: no byte is swapped, repeated or lost without one of the reasons the
  code has, and no thread sleeps on a ring with bytes in it.

### Socket thread: `sockDataExchangeProc` (threads.cpp 8-115, 298-446, 449-635)

* State: the socket, its recorded network events, the send buffer, `m_NeedResend`.
* The loop waits for the socket, `m_ComRcvEvent`, `m_CloseEvent` (the server for the
  listening socket first), calls `socketDataEventsHandler` or `writeComToTcp`, and
  looks at `SO_ERROR`. When it ends the socket is closed and, unless it was told to
  stop, the thread sleeps a second and begins again.
* Hard: partial sends; `WSAEWOULDBLOCK`, after which the unsent bytes go back into the
  ring and FD_WRITE must wake the thread; connections that are refused, closed and
  reset; flags, events and rings that outlive the connection; several clients at one
  server; `WSAResetEvent` after `accept`.
* Correct when: as for the COM threads, and the status tells whether there is a
  connection, a failed connection is followed by another, `m_CloseEvent` stops all.

### Thread life cycle: `CThreadConfig` (CThreadConfig.cpp)

* State: the events, the COM handle, the thread handles, the two rings.
* The constructor makes six events, starts the socket thread, opens the port, starts
  the COM threads, and undoes all that when a step fails. The destructor sets
  `m_CloseEvent`, gives each thread ten seconds and then calls `TerminateThread`.
* Hard: a late failure closes events the socket thread waits on, then terminates it;
  handles that were never set are passed to `CloseHandle` and `TerminateThread`;
  a terminated thread leaves its socket and its status as they were.

### Port settings, status, dialogs (CPortSetting.*, AsyncComTCPDlg.*, CDialogEdit.*)

* State: the global vector `portSettings` with a status and a `statusChange` flag per
  port, the global vector `threadConfigs`, the list shown, the configuration file.
* Add, Edit, Delete, Apply, Stop, Save, the status timer.
* Hard: running threads keep pointers to elements of a vector that Add grows and
  Delete shifts; Edit stores a copy taken before its dialog was shown; the timer's
  read-and-reset of `statusChange` races with `setStatus`; Apply throws half-way.

### The rest

The MFC application class, resources, precompiled headers and project files have no
logic of their own and are not modelled.

`PROJECT.json` lists the hazards one by one, at their lines, with the properties that
would catch them.

## Plan

| # | Module | What | State |
|---|--------|------|-------|
| 1 | `LossyFifo` | abstract specification of a ring buffer | done |
| 1 | `RingBuffer` | `CRingBuffer` byte by byte, two threads | done |
| 1 | `RingBuffer_proofs` | its inductive invariant and its refinement of `LossyFifo` | done |
| 2 | `Bridge` | the COM threads, and what the socket threads of both builds share | done |
| 2 | `ClientBridge` | the client's socket thread over `Bridge` | done |
| 3 | `ServerBridge` | the server's socket thread over `Bridge` | done |
| 3 | `Bytes_proofs`, `Bridge_proofs` | order and account of the bytes; the invariant of what the builds share | done |
| 3 | `ClientBridge_proofs`, `ServerBridge_proofs` | the theorems about the two builds | done |
| 4 | `SocketStatus` | abstract specification of the statuses a socket thread stores | done |
| 4 | `ThreadConfig` | constructor with failures, destructor with timeouts | done |
| 4 | `ThreadConfig_proofs` | its inductive invariant, for every caller | done |
| 5 | `MainDialog`, `MCMainDialog` | the dialogs, the vector of settings and the pointers into it, over `ThreadConfig` | done |
| 5 | `DialogData_proofs`, `MainDialog_proofs` | what the dialog's operators return; the theorems about the dialogs | done |

Which module uses which:

    LossyFifo <- RingBuffer <- RingBuffer_proofs
    SocketStatus <- Bridge <- ClientBridge, ServerBridge
    Bridge <- Bytes_proofs <- Bridge_proofs
    Bridge_proofs, ClientBridge <- ClientBridge_proofs
    Bridge_proofs, ServerBridge <- ServerBridge_proofs
    ThreadConfig <- ThreadConfig_proofs
    ThreadConfig, SocketStatus <- MainDialog <- MCMainDialog
    MainDialog <- DialogData_proofs
    DialogData_proofs, ThreadConfig_proofs <- MainDialog_proofs

Left to do: what `LossyFifo` promises, proved of `LossyFifo` itself (its queue fits, bytes come
out once and in order), so that it holds of whatever implements it; and the steps on the
rings of `Bridge` as steps of that FIFO, which today is an argument in this file.

## Modules

### `LossyFifo`

A queue with a capacity. `Offer` fixes how many bytes a write takes, `Commit` makes
them readable; `Take` fixes how many a read takes, `Deliver` frees their room. `PutBack`
returns the last bytes of the last read to the front; it needs room for them.

### `RingBuffer`

Pointers are offsets from `m_Base`; bytes are numbered in the order of acceptance.

| Code | Model |
|------|-------|
| `Write`: size check, snapshot, cut | `WriteBegin(n)` |
| `Write`: the loop or the two `memcpy` | `WriteByte`, once per byte |
| `Write`: `m_Tail += n` | `WriteEnd` |
| `Write`: `if (m_Tail == m_End) m_Tail = m_Base` | part of `WriteEnd`, or `WriteWrap` |
| `Read` | `ReadBegin`, `ReadByte`, `ReadEnd`, `ReadWrap` |
| `CancelReadBytes(n)` | one action: it stores `m_Head` once |

`m_Head` and `m_Tail` are plain members. A compiler may store the sum and then the
wrapped value, or only the final one; the constants `HeadTwoStores` and `TailTwoStores`
choose. Single loads and stores are taken to be atomic and in program order, which x86
gives aligned pointers.
`raced` records the two races the buffer has: a `CancelReadBytes` over room that the
producer has taken, and a `Read` that sees `m_Tail = m_End` with `m_Head = m_Base`.
`m_InUse` is left out, because only `ReInitialize` and `Purge` act on it.

### `Bridge`, `ClientBridge`, `ServerBridge`

`Bridge` has the variables, the COM threads, `socketDataEventsHandler`, `writeComToTcp`
and what the two wait loops have in common; `ClientBridge` and `ServerBridge` extend it
with the rest of `sockDataExchangeProc` and their `Next`. A thread's step is one call
that another thread or Windows can see: a ring call, a `SetEvent`, a wait, a `send`.

| Code | Model |
|------|-------|
| `comDataReadProc` | `ReaderWait`, `ReaderRead`, `ReaderCheck` (the status), `ReaderWrite`, `ReaderCopy`, `ReaderPublish` (the sizes, the copy and the tail of `Write`), `ReaderSet` |
| `comDataWriteProc`, `writeTcpToCom` | `WriterWait`, `WriterRead`, `WriterFile`, `WriterMore` |
| `socketDataEventsHandler` | `EnumNetworkEvents`, `HandleRead`, `HandleReadSet`, `HandleConnect`, `HandleWrite`, `HandleClose` |
| `writeComToTcp` | `SendRead`, `SendSome`, `SendBlocked`, `SendFails`, `SendCancel`, `SendMore` |
| the wait loops | `EnumNetworkEvents`, `WaitComRcv`, `WaitClose`, `WaitTimeout`, `CheckError`; server: `AcceptClient`, `AcceptFails` |
| `sockDataExchangeProc` | `Startup`, `Open`, `CloseSocket` / `CloseServerSocket`, `Disconnected`, `Sleep`, `Stop` |
| `~CThreadConfig` | `CloseThreads` (its `SetEvent` only; the rest is `ThreadConfig`) |

Ring calls are steps on a sequence. `RingBuffer` is why they may be: a ring is a lossy FIFO
at the grain of its bytes (`ImplementsFifo`), and until a race one with put-back. The `Write`
of `m_ComToTcpBuf` has three steps, because the `CancelReadBytes` of the socket thread may fall
between them: `ReaderWrite` counts the room, `ReaderCopy` copies, `ReaderPublish` moves the
tail. A cancel in between that takes room the Write has counted on is recorded in `raced`, and
the model goes on with what the memory then holds: bytes given back are overwritten by the
copy (`Overwritten`), and when the tail passes the head a whole buffer of bytes is gone
(`Wrapped`), as it is when a cancel runs into a tail that a finished Write has moved
(`Cancelled`, which is no race: it swaps nothing, and its loss is counted). Inside the `Write`
of `m_TcpToComBuf` only a `Read` can fall, which makes room: a Write cut short by the room
of a moment before loses bytes that might have had a place, as one a moment earlier would.

`ComInFlight` and `TcpInFlight` line up every byte that is not lost, the oldest first, through
all the buffers of a direction; that line is `InOrder`, and with what is lost it is `Accounted`
for. `lostCom`, `lostTcp` and `stranded` are history: every loss of a byte and every byte left
behind without a wakeup is entered there by the action that causes it, and by no other.

#### What is assumed of Windows and the network

* `EV_RXCHAR` stays recorded until it is reported, also over `SetCommMask`.
* FD_CONNECT is recorded even if the attempt ends before `WSAEventSelect`. An attempt may also
  stay `connecting` for ever, as one does whose `connect` fails at once and leaves no event
  (threads.cpp:425 ignores the result); the safety properties cover it, and only the fairness
  of `Accepted` has it that some attempt is answered. FD_READ is recorded again if `recv` leaves bytes, FD_WRITE after a
  connect, an accept and, once `send` has blocked, when there is room again.
* `accept` re-enables FD_ACCEPT and records it again if the backlog has more clients. A client
  that aborts in the backlog leaves its record and its event behind, and `accept` may return
  its error (`gone`) or another client.
* `WSAEnumNetworkEvents` takes record and event in one step; `WaitForMultipleObjects`
  reports the lowest event that is set.
* When a connection ends, any number of the bytes in the send window still arrive.
  When the server replaces a client, those of the old client are settled at once.
* `m_ConfigEvent`, `m_ReconnectEvent` and `m_ConnectEvent` are never set by this code.
* COM calls with `bWait = TRUE` return. `Sleep` ends.

### `SocketStatus`

What a socket thread promises about `setStatus`: Processing, then Connected or not, then
Disconnected, then Processing again; Stopped only once, and last. A thread that cannot start
Winsock says nothing. It joins the two halves of the project: both builds of `Bridge` are
checked to implement it (`ImplementsStatus`), and `MainDialog` has it in place of a bridge.

### `ThreadConfig`

The objects from outside: which handles are open, which threads run, what the dialog's
thread is doing with them. The constructor and the destructor go through lists of
handles (`Created`, `Undone`, `Destroyed`), which are in the order of the code.

| Code | Model |
|------|-------|
| `new CThreadConfig` | `Construct`: the members are `"unset"`, memory of unknown content |
| `createEvent`, `CreateThread`, `createOverlappedEvent`, `comPortOpen` | `Create`, and `CreateFails` at each of them |
| the branch `if (FAILED(hr))` | `Undo` once per member, then `Thrown` |
| `SetEvent(m_CloseEvent)` in the destructor | `Destroy` |
| `waitToCloseThread`, `closeHandle` | `DestroyStep`: the thread has ended or is terminated, and may not mind |
| the end of `delete` | `Deleted` |
| the threads | `Returns` |
| a lock that a terminated thread held | `Hang`: from then on the caller does nothing more |

`TerminateThread` is asynchronous, so the thread may outlive the object; `terminated`
records that it was called. What is undefined ends in `wild`: a handle member that was
never set is closed or terminated, memory is freed under a running thread, a thread
writes through a pointer to where its setting was. The outcome may also be good: such a
step of `Undo` may or may not make the state `wild`. A terminated thread may have held the lock of
the output or of the heap, which the caller needs next: for the message after `TerminateThread`
(CThreadConfig.cpp:191, 195), for the `delete`, or in a later handler. `Hang` may therefore happen at
any point after a termination; the threads that are left go on, and so does the caller if the
lock was free.

### `MainDialog`

The dialog's thread over `ThreadConfig`. A step is what the code does between two accesses
to something that a thread writes or that Windows takes time for.

| Code | Model |
|------|-------|
| `OnInitDialog`, `readCfg`, `fillSettings` | `Init`, `ReadCfg`, `FillSettings` |
| `OnBnClickedButtonAdd`, `...Edit` | the click (`OnBnClickedButtonAdd`, `OnBnClickedButtonEdit`), then `AddAccepted`, `EditAccepted`, `EditCancelled` |
| `CDialogEdit`: `findPorts`, `OnBnClickedOk` | `Opened`, `FindString`, `Acceptable`, `OkRefused` |
| `OnBnClickedButtonDelete` | the same name |
| `OnBnClickedButtonApply` | the same name, then `NewThreadConfig`, `InConstructor`, `PushBack` or `ApplyThrows`, row by row |
| `OnBnClickedButtonStop`, `OnClose`, `stopThreads` | `StopOrClose`, then `DeleteThreadConfig`, `InDestructor`, `NextThreadConfig`, `Clear` |
| `OnTimer`, `updatePortSettings`, `isStatusChange` | `OnTimer`, `ResetFlag`, `ShowStatus` |
| `CPortSetting::setStatus` | `SetStatusFlag`, then `SetStatus` |
| `getStatus` in `comDataReadProc` (threads.cpp:183) | `GetStatus`, where there is no such setting any more; the rest is `ReaderCheck` of `Bridge` |
| `saveCfg` | `SaveCfg` |

`pointer` is `m_portSetting`: the index of the setting, or 0 once the vector has moved its
elements elsewhere. A setting that `erase` shifts leaves the pointer where it was, at
another row. `meddled` records that the user changed a row that a socket thread may write to
(`Watched`), or moved one that it or the COM read thread has its pointer to (`Used`; the COM read
thread keeps it when its socket thread has ended alone, after a bind or a WSAStartup that failed).
`missed` records the rows whose change the timer has overlooked.

Assumed of Windows, MFC and the library:

* A handler runs to its end before the next one. While the Edit dialog is shown only its
  buttons and the timer work.
* `FindString(0, s)` begins after index 0, looks at it last, ignores what follows `s`. The box
  is sorted by name.
* A vector that is full grows by half and moves its elements; one that is not does neither.
* An exception out of Apply ends the program or is swallowed on the way to the message loop.
* No two lines of the configuration file share a port or an address; `readCfg` does not look
  (AsyncComTCPDlg.cpp:314-340), and the two files in the repository meet it. `NoDuplicates` and
  `ExclusivePort` rest on it.

## Runs

| Run | Specification, bounds | Checks |
|-----|-----------------------|--------|
| `ring_tcp_to_com` | one reader that never cancels; `m_Head` stored twice | `TypeOK`, `SnapshotsHold`, `UnreadBytesIntact`, `ReadsInOrder`, refinement `ImplementsFifo` |
| `ring_com_to_tcp` | with `CancelReadBytes`, both pointers stored twice | the inductive invariant `IInv`, `SafeUnlessRaced`, `ImplementsFifoUnlessRaced` |
| `client_com_to_tcp` | COM to TCP, COM reads and sockets may fail | `TypeOK`, `ComBytesInOrder`, `ComBytesAccounted`, `SendWakeup`, `StatusTellsConnection`, refinement `ImplementsStatus` |
| `client_tcp_to_com` | TCP to COM, `WriteFile` and sockets may fail | `TcpBytesInOrder`, `TcpBytesAccounted`, `WriteWakeup` |
| `client_live` | both directions, fair, one connection fails, any call may fail | `RingIsSent`, `Reconnects`, `CloseStopsAll` |
| `server` | COM to TCP, fair, clients that abort and replace each other, COM reads and sockets may fail | `AcceptWakeup`, `AcceptFindsClient`, `StatusTellsConnection`, `SendWakeup`, `RingIsSent`, `Reconnects`, `CloseStopsAll`, refinement `ImplementsStatus` |
| `dialog` | two settings, two objects; failures, timeouts and terminations everywhere | `TypeOK`, `NoDuplicates`, `SavedIsRead`, `RowTellsThread`, `ListShowsStatus`, `UsesOpenHandles`, `AllReleased`, `ExclusivePort`, `WildOnlyIfDisturbed`, `GuiComesBack` |
| `ring_snapshot` | `CancelReadBytes`, every pointer stored once | violates `SnapshotsHold` |
| `ring_tail_stores` | `m_Tail` stored twice, no cancel | violates `ReadsInOrder` |
| `client_recv_error` | a connection reset between FD_READ and `recv` | violates `OnlyReceivedBytes` |
| `server_orphans` | a second client | violates `AcceptedAreServed` |
| `edit_port` | COM1 and COM10 in the system | violates `EditShowsPort` |

What the passing runs show:

* **The ring is a lossy FIFO** for one producer and one consumer, at every interleaving of
  byte copies and pointer stores (`ImplementsFifo`). It tolerates a build that stores
  `m_Head` twice, not one that stores `m_Tail` twice.
* **With `CancelReadBytes` it is a FIFO with put-back** until one of its two races.
* **Bytes from the COM port are in order and accounted for** over all the connections of a
  client, until a cancelled read falls inside a Write that had counted on its room: neither a
  partial send, nor a read put back at any other moment, nor a ring that overran, nor a reconnect
  swaps or repeats one. Bytes go missing where the code drops them:
  no connection, a full ring, an overrun, a `send` that failed, a connection that is gone. The
  server build has no run of its own for this: its instance would need four bytes and a second
  client at once. `ServerComInOrder` and `ServerComAccounted` prove it.
* **No wakeup is lost**: a thread that waits with bytes in its ring has its event set, or
  about to be, or the FD_WRITE that sets it under way. The exceptions are named: after a
  `send` or a `WriteFile` that failed the rest of the ring stays behind (`stranded`)
  until the next byte comes, if any does.
* **The status is true** whenever the socket thread waits, in both builds.
* **A failed connection is followed by another or by the end, and `m_CloseEvent` stops all
  three threads**, from wherever they are.
* **A server does not sleep on a client it could accept, nor accepts when none has come.** A
  client that aborts in the backlog ends the server, as the code has it; nothing else
  leaves the event of `accept` set without a client.
  The wakeup that `WSAResetEvent` wipes out is only ever that of a second client: as
  long as the first lives the second may wait in the backlog, and when the first
  has gone the loop ends, which refuses the second.
* **Both builds tell their statuses in the order `SocketStatus` allows**, over all
  connections, failures and ends.
* **The list of settings stays good**: no sequence of Add, Edit (refused, repeated, cancelled),
  Delete and Apply makes two rows share a port or an address, or a file that is read back
  short.
* **A row tells its own thread's status, and Stopped if it has no thread**, unless the user
  has changed a row with a thread, or a thread was terminated. The exceptions are real: an
  Edit puts back the status of the time when the dialog was opened, a Delete leaves the
  threads behind it writing one row too far down. Add within the vector's capacity, Edit of
  a row without a thread and Delete behind all threads are harmless, and are not excepted.
* **The list on the screen follows the rows**, unless the timer's read-and-reset of the flag
  falls between two steps of `setStatus`; which two, `missed` says. This holds whatever the
  user has changed and whichever thread was terminated.
* **Threads use open handles, and what is freed has left no event and no port open**, also
  when a constructor fails half-way or a thread is late. Handles are closed under a
  thread only by a constructor that undoes its work, or after a `TerminateThread` in vain.
* **A port is open in one object at a time**, also after an Apply that failed half-way.
* **Memory is used after it was freed only** when a constructor fails, a thread was terminated, or
  a row was changed or moved under a thread that has a pointer to it.
* **The window comes back from every handler**, however long the threads take, unless a terminated
  thread has kept a lock. No code can promise more after a `TerminateThread`; the ten seconds
  before it are the reason that nothing less is needed of the threads.

Some properties except what the code does: `stranded`, `lostCom`, `lostTcp`, `raced`, `meddled`, `missed`,
`terminated` and `hung` record an event and where it happens. Of that event such a property shows only
that nothing else has its effect. The hazards say where this is so.

### Findings

* `ring_snapshot`: the comment at ringbuffer.h:112-115 says the consumer can only increase
  the available space. `CancelReadBytes` decreases it. What becomes of it
  in the bridge, after `send` has blocked (threads.cpp:96): the COM read thread has counted the
  room for its bytes, bytes read before are given back into that room, and the copy overwrites
  them. The peer then gets, for instance, 1, 5, 3.
  ringbuffer.cpp:309 knows ("Not protected from overwriting"), the caller does not.
* `ring_tail_stores`: `m_Tail` passes through `m_End` (ringbuffer.cpp:189-196). In a build
  with both stores a reader at `m_Base` takes the empty ring for a full one.
* `client_recv_error`: the result of `recv` is used as a size unchecked (threads.cpp:26-27).
* `server_orphans`: a second client replaces the first, whose socket is never closed.
* `edit_port`: the Edit dialog of COM1 shows COM10 if the system has both
  (CDialogEdit.cpp:98), and OK stores COM10.

What the conditions of the properties admit is listed under the hazards: a vector whose
elements move under the threads (AsyncComTCPDlg.cpp:209, 220), a copy that is stored back
(234), handles closed that were never set (CThreadConfig.cpp:103), the two races of
`isStatusChange` (CPortSetting.cpp:24). No text of the repository says otherwise, so they are
no findings.

### Bounds

* Ring: 5 slots, reads of up to 3 bytes, writes of up to 5, which is more than fit, and 12
  bytes in all. The pointers go around twice and meet at every offset, writes are cut,
  reads are partial, a cancel may give back each count. More than two rounds repeat the
  same offsets; the proofs lift the bound for the safety part.
* `client_com_to_tcp`: 4 slots (capacity 3), a send buffer of 2, a window of 1, 5 bytes, one
  failing connection. The ring fills, writes are cut, sends are partial and block, and the
  bytes given back run into a ring that was filled meanwhile: the overrun happens, and so does the race.
* `client_tcp_to_com`: the same sizes, 4 bytes, two failures, so that a ring with bytes of
  two connections and a partial `WriteFile` meet.
* `client_live`, `server`: 3 slots, buffers of 1, two COM bytes, one connection that fails,
  in the server one client more than needed. Enough for a `send` to block with a byte in the
  ring, for FD_WRITE and SetEvent to meet, and for a reconnect with bytes left over.
* `dialog`: two objects and two rows, so that Apply fails after a success, a Delete shifts a
  running row, a row is added beside running ones, and two rows may clash; COM1 and COM10,
  of which one's name begins the other's, two addresses and a bad one; files with no line,
  with one, so that an Add moves the vector under running threads, and with two good lines and
  a bad one. Two statuses are enough to tell a stale one from a
  new one, and the machine of all four is checked in the bridges. `MaxEdits` lets Add or
  Edit be clicked once; Delete, Apply, Stop, OK and the timer are not counted.
* `edit_port`: the same with statuses that do not change.
* Names: `MaxCom`, `MaxTcp` bound the bytes sent, `MaxFailures` the connections that are
  refused, closed or reset, `MaxExtra` the clients that come while one is there, `MaxBytes`
  and `MaxWrite` the ring's bytes; `MaxRows`, `MaxEdits`, `Statuses` and `Configs` bound
  `MainDialog`. No variable of the program has a bound of its own.

### Fairness

Weak fairness of each thread's step: the scheduler runs every thread that can run, and every
COM call returns. Weak fairness of `Accepted` (client: an attempt ends one way or the
other), `FirstClientConnects` (server: somebody connects to a server without a client) and
`PeerReceives` (a connected peer takes what is sent). Nothing makes a device or peer send, a
connection fail, or the dialog stop the threads; no strong fairness is needed.
The peer's bytes are bounded, so the liveness results hold for a peer that falls silent now
and then. One that never pauses can starve `m_ComRcvEvent` and `m_CloseEvent`, which come
after the socket's event in the wait (threads.cpp:352).
`MainDialog` has no fairness: nothing makes a user click, the timer fire or a bridge's thread move.
`GuiComesBack` is therefore stated as what a handler needs to end: it has a next step whatever the
threads do (each wait for one ends after ten seconds), and every step brings it nearer to its end in the
order of row, stage and line. With weak fairness of the dialog's thread it ends.

## Proofs

Eight modules, each about a component and with its theorems at the end. Every invariant and
refinement that a passing run checks is stated by a theorem for all values of the constants;
the runs were there first, and the inductive invariants were checked by TLC on the instances
of the runs before they were proved. Bounds such as `MaxBytes`, `MaxCom`, `MaxRows` or
`MaxEdits` may be any numbers, so the theorems do not depend on them.

### The ring: `RingBuffer_proofs`

From `RingAssumption` only: the sizes are natural numbers, `Size` and `ReadSize` at least 1.

* `TypeCorrect`, `CancelTypeCorrect`: `TypeOK` is invariant, without and with
  `CancelReadBytes`, races included. It needs `Shape`, which adds what calls under way
  allow: a copy runs only with its pointer below `m_End`, and no read is longer than asked.
* `CancelInductive`: `IInv` is an invariant, by `HeldInit`, and one lemma per action for the
  part that holds until a race (`Held`).
* `CancelSafeUnlessRaced`: snapshots, unread bytes and order until a race, in every build.
* `SafeWithoutCancel`: without `CancelReadBytes` and with `m_Tail` stored once nothing races,
  so the same holds of every reachable state: this is `m_TcpToComBuf`. Its three parts are
  `SnapshotsHoldWithoutCancel`, `UnreadBytesIntactWithoutCancel`, `ReadsInOrderWithoutCancel`.
* `RingIsFifo`, `RingIsFifoUnlessRaced`: the ring implements `LossyFifo`, the one with
  put-back until a race. `Held` makes the queue and the write under way runs of successive
  numbers (`QueueIsRun`, `KeptIsRun`); `WriteBegin`, `WriteEnd`, `ReadBegin`, `ReadEnd` and
  `CancelReadBytes` are `Offer`, `Commit`, `Take`, `Deliver` and `PutBack`, a lemma each, and
  the copies of bytes and the second stores of pointers are steps the FIFO does not see.

`RingSafety` alone is not inductive. `PartialWriteInPlace` says that the bytes of a write in
progress are where they will be read once `m_Tail` is published; without it `WriteEnd` could
publish anything. `CancellableBytesIntact` says that the bytes of the last read are still in
memory unless the producer took their room; without it `CancelReadBytes` could give back
anything. The lemmas `TailMoves`, `HeadMoves`, `HeadMovesBack` and `Forward...` turn moves of
a pointer into renamings of distances from it, and carry all the modular arithmetic.

### The bridges: `Bytes_proofs`, `Bridge_proofs`, `ClientBridge_proofs`, `ServerBridge_proofs`

From `BridgeAssumption`: the buffers and the send window have room for a byte, the faults are
any of `FaultKinds`. `Bridged` is the inductive invariant of what the builds share, proved
once, step by step of `Bridge`; each build adds the steps of its own socket thread. Its parts:

* `Types`, `Idle`, `Sizes`: a thread's buffer is empty except between filling and emptying it.
  Without `Idle` a byte could be in a buffer whose thread will fill it again.
* `Control`: where the threads can be, which network events there can be, and which status
  goes with which place. `StatusTellsConnection` speaks of the wait only; the invariant has to
  follow status and connection through the handlers, with the events they hold in `skGot`.
* `Wakeups`: a ring with bytes in it has its event set, or about to be, or FD_WRITE on its way,
  wherever the socket thread is. It also needs that a cancelled send is followed by FD_WRITE
  (`blocked`, or recorded already), which is what `m_NeedResend` relies on; and on a connection
  that is not up `m_NeedResend` alone will do, because the next one begins with FD_WRITE.
* `ComFlow`, `TcpFlow`: the line of all bytes under way is in order and accounted for.
  `Bytes_proofs` has what concatenating, cutting and dropping does to `InOrder` and
  `Accounted`. A step that moves bytes between neighbouring buffers leaves the line as it is;
  one that drops bytes puts them among the lost; `Cancelled` is either, the overrun included. `ComFlow`
  ends with a race, and `Room` says what holds until then: while a Write is under way the ring has
  room for all it will copy. So `ReaderCopy` changes no byte of the queue, and `ReaderPublish` is an
  append; a cancel keeps `Room` unless it sets `raced`.

The theorems are the same for both builds, with the name of the build in front: `Types`,
`ComInOrder`, `ComAccounted`, `TcpInOrder`, `TcpAccounted`, `SendWakes`, `WriteWakes`,
`StatusTells`, and `ImplementsStatus`, the refinement of `SocketStatus`, of which each step is
`Tell`, `GiveUp` or a stutter. The server's invariant has `Backlog` besides: an accept event is
only set with a client there or one that has aborted, and a backlog that nobody is told of has a live connection before
it or its end recorded. `ServerAcceptFindsClient` and `ServerAcceptWakeup` follow; without the
second half of `Backlog` the `WSAResetEvent` after `accept` would be a lost wakeup.

### The objects: `ThreadConfig_proofs`

From `ConfigAssumption`: objects and ports are positive numbers. `ConfigInv` is invariant under
`ConfigSpec`, which lets any caller construct and delete in any order, so `ConfigUsesOpenHandles`
and `ConfigAllReleased` hold of every caller. `Making`, `Undoing` and `Destroying` say how far a
call has come in its list of handles; `CreatedOrder`, `UndoneOrder` and `DestroyedOrder` are
what the proofs use of the lists: every handle once, threads made after and closed before what
they use. `Outlived` says that only a `TerminateThread` leaves a thread without its object. `Hang`
can only follow a termination, and changes nothing the invariant speaks of.

### The dialogs: `DialogData_proofs`, `MainDialog_proofs`

From `DialogAssumption`: finitely many objects (memory is), "Stopped" is a status, no two lines
of a file clash, and the good lines of a file are no more than the bound `MaxRows`.

`DialogUsesObjectsAsAny` is a refinement, `Spec => ConfigSpec`: no sequence of clicks makes the
dialogs delete what does not exist or build over what does. It needs `Owned` (the vector
`threadConfigs` and the object being built are all there is, each once) and `Handled`.
`DialogInv` has further:

* `Applied`: while Apply runs each object has no port but its row's. With `NoDuplicates`
  this is why `ExclusivePort` holds when the next constructor opens its port, and why it does
  not need the rows to stay as they are afterwards.
* `PointsToRow`, `PointsAlone`, `Silent`, `Edited`: where socket threads point, what one that
  does not run has told, and what a copy in an open Edit dialog is worth. They are what
  `RowTellsThread` lacks: in itself it does not say what the next `setStatus` or OK will do.
  `PointsToRow` speaks of the COM read threads as well, which `WildOnlyIfDisturbed` needs: `GetStatus`
  is harmless as long as the pointer of each thread that runs is at a row.
* `NoteUnflagged`: a status about to be stored with its flag already taken is in `missed`, which
  `ListShowsStatus` needs for the second step of `setStatus`.

`DialogSavedIsRead` needs no more than the types: every row has a port and an address of the
valid ones, whatever was refused on the way.

`CapacityOf` is a recursive function, and what it returns is proved by induction with the set of
the numbers that a fact holds of (`Induction`), which rests on the well-foundedness of the
natural numbers, as does `LeastElement`. The latter gives the first port by name, the object
that `new` takes and the first bad line of a file.

### Model-checked only

`RingIsSent`, `Reconnects`, `CloseStopsAll`: the prover does not treat fairness. `GuiComesBack` says
`ENABLED`, which it does not treat either. The five violated claims are counterexamples and need no proof.

## Not modelled

* `m_InUse`, `ReInitialize`, `Purge`: no caller.
* The size of the COM reader's buffer against `comstat.cbInQue` (threads.cpp:170).
* Socket options, whose failure is only logged, and the wording of the log.
* What a client that was replaced at the server still does, beyond counting it.
* Which lock a terminated thread held: the dialog may hang at any point after it, or never.
* A `connect` that fails at once, as a case of its own: it is an attempt that is never answered.
* The thread handles of threads that have ended: nobody closes them, each Apply and Stop
  leaks three per port.
* The configuration file between two runs of the program, and a write that fails; `SavedIsRead`
  is about what a save of the current list would be read as.
* Escape and Enter in the main dialog, which end it without `stopThreads`; painting, the
  About box.
* MFC start-up, resources, project files: no logic of their own.
