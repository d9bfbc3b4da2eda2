# A TLA+ model of WebReal VISA

WebReal VISA is a C++20 implementation of the VISA instrument I/O API. This
directory models the parts of it in which threads, handlers and devices meet:
the handle table, the life of managers and sessions, the process-wide lock
manager, the calls of a session with cancellation and close, the byte streams of TCP
and serial sessions, the request channel of the framed network protocols, the pool of
I/O workers, the message sessions (HiSLIP, VXI-11, USBTMC, raw USB, GPIB), the shared
Prologix controller and the libusb connections; and the search expressions and aliases
of a manager. Paths below are relative to the repository root; line numbers are in
`PROJECT.json`.

## The system

| Component | State | Operations | Hard behaviour |
|---|---|---|---|
| Handle table, `src/core/handle_table.*` | vector of slots: object, type, 12-bit generation, retired | `insert`, `get`, `get_any`, `remove` | slot reuse, generation overflow, a full table |
| Lock manager, `src/core/lock_manager.*` | one `LockState` per resource, key counter, condition variable | `acquire` (blocking), `release`, `release_all`, queries, `notify_waiters` | waiting with a timeout and a cancellation, nesting, wake-ups that could be lost |
| Objects, `src/core/objects.*` | `ResourceManager`: children and configuration; `SessionObject`: attributes, registered operations, `closed_`; `FindListObject`: matches and cursor | open, find, close, `lock`, `unlock`, I/O, `cancel_operations` | `viClose` against `viOpen`, I/O, locks and the manager's close |
| Operation, `src/runtime/operation.*` | one-shot result, cancel handler | `try_complete`, `request_cancel`, `request_timeout` | races between completion, time and cancellation |
| I/O runtime, `src/runtime/io_runtime.*` | Asio `io_context`, two to four threads | construct, destroy | handlers that block a worker |
| Request channel, `src/backends/asio/request_channel.*` | socket, strand, queue of requests | `connect`, `exchange`, `close` | cancel, timeout and close at every point of an exchange |
| VXI-11 and HiSLIP, `src/backends/vxi11`, `src/backends/hislip` | two channels each, message ids, recovery flags, `remote_locked_` | read, write, status, trigger, clear, lock, unlock, close | recovery after a cancelled transfer; the lock on the device |
| Byte streams, `src/backends/asio/async_stream.h`, TCP, serial | queues of reads and writes, read-ahead | read, write, flush, close | partial reads, cancellations between two reads |
| USB, `src/backends/usb` | leases of interfaces, shared connections, endpoint gates, USBTMC tags, read-ahead, libusb event thread | open, transfer, abort, clear, close, hotplug | devices that leave at any time, leases that expire while they are claimed, a thread stopped by what it runs |
| GPIB and Prologix, `src/backends/gpib` | one controller per adapter: active owner, cached address and EOI, connection; a response buffer per session | read, write, clear, trigger, poll, cancel, close | sharing one adapter, giving a connection up, cancelling somebody else's request |
| Parser and find expressions, `src/resource` | none | pure functions | boundary cases of the grammar |
| Configuration of a manager, `src/core/objects.*` | serial paths, two maps of aliases, service ports, providers | set, resolve, discover | two maps that must stay inverse; lists walked while resources are added |
| API, `src/api/visa_api.cpp` | none | the C functions | order of lookup, registration and undo |

An API call looks its object up in the handle table and keeps a shared pointer to
it. A session method checks the lock manager, registers an `Operation`, and waits
in a backend. A backend of the framed protocols posts a request to the strand of
a channel and waits for a promise; handlers run on the workers of the runtime.
Whoever completes the `Operation` first (a status, the time, `viTerminate`,
`viClose`) decides the result. Closing a session completes its operations, closes
the backend, wakes the lock waiters, waits until its operations have finished, and
drops its locks. Closing a manager removes and closes its children.

What makes the components correct: a handle never stands for another object; an
object is closed once and no child outlives its manager; lock levels agree with
what callers were told and no waiter is forgotten; close leaves nothing behind; a
cancelled call returns; a response goes to the request it answers, bytes keep their
order and messages their ends; a command reaches the instrument it was meant for; a USB
session keeps its claim and knows when its device is gone; a search
returns what its expression means; the runtime always has a worker for the handlers
that others wait for. `PROJECT.json` lists
the hazards behind these, line by line.

## Modules

    LockState ------ LockManager ----------------- MCLockManager   (implements ResourceLock)
        |--------- Session
    HandleTable ---- ObjectLifecycle
    ResourceAliases                                                (implements AliasDirectory)
        `----------.
    FindExpression - FindGrammar --- Discovery --- MCDiscovery
    AsyncStream, IoRuntime, RequestChannel, MessageSession
    Prologix --------------------------------- MCPrologix
    Libusb ----------------------------------- MCLibusb

    CoreProofs             about ResourceAliases, HandleTable, ObjectLifecycle, LockManager
    LockStateProofs        about LockState; used by CoreProofs and SessionProofs
    SessionProofs          about Session
    AsioProofs             about AsyncStream, IoRuntime
    RequestChannelProofs   about RequestChannel
    MessageSessionProofs   about MessageSession
    LibusbProofs           about Libusb
    PrologixProofs         about Prologix

Modules whose proofs are in one module have names of their own for what most of them call
`Init`, `Next` and `Spec`: `TableSpec`, `AliasSpec`, `LockSpec`, `PoolSpec`.

**LockState** has the data of one lock and what `can_grant`, the end of `acquire`,
`release`, `release_all` and the queries compute on it, as operators without
variables, so that `LockManager` and `Session` share them.

**LockManager** lets threads call these functions. `mutex_` is explicit because of one
interval: a waiter evaluates its predicate and then goes to sleep, while an `Operation`
is completed without that mutex. `Sleep`, `Expire`, `ReturnTimeout`, `ReturnCancelled`
and `ReturnGranted` are the parts of the wait loop; `Terminate`, `RequestCancel`,
`CancelDone` and `NotifyWaiters` are `cancel_operations`. `at` is where each thread is,
and `held` a history variable: the levels the callers of a session believe they own.
**ResourceLock** is the abstract specification: a reentrant lock per resource, exclusive
or shared, without keys, waiting or threads.

**HandleTable** keeps the bit layout of handles (`type * 2^28 + generation * 2^16 +
index + 1`), first-fit reuse of slots and their retirement. `kMaxSlots` and
`kGenerationMask` are constants. `issued` is a history variable.

**ObjectLifecycle** uses the table for `viOpenDefaultRM`, `viOpen`, `viFindRsrc`
and `viClose`. Each step is one critical section, or the write of `handle_`, which
nothing guards; between `insert`, `add_child` and `set_handle` other threads may
close the manager or the child.

**Session** has the calls of several threads on sessions of one resource. A step
is a critical section, a compare-and-swap of an `Operation`, or a call of the
backend. The device's lock is external: it is granted unless another link is in
the way, and its answers may come too late (`LoseAnswers`). `backend` is chosen in
the initial state: HiSLIP locks the device in both modes, VXI-11 for exclusive
locks only, the others not at all. How `acquire` waits is `LockManager`'s subject;
here it is one step. The history variable `disturbed` collects sessions whose lock
calls were cancelled, overlapped, or lost an answer. `TryComplete` is the compare-and-swap:
an exchange with the device that failed or timed out has completed the `Operation`, and
`lock()` then gives its level back a second time (`CompleteLockLoses`).

**AsyncStream** has the reads and writes of a byte stream. A byte is where the code
has it: with the device, in the system (`inbound`), in the buffer of a read
(`scratch`), in its `data`, in `read_ahead`, or with a caller. The handlers are
steps; the loops of `start_next_read` and `start_next_write` that follow them are one
step per iteration, with no other handler in between, as another thread can complete
an `Operation` at any point of them. `overtaken` collects the reads whose cancellation
came between the end of their operation on the stream and its handler.

**RequestChannel** has one step per handler of the strand. A socket operation is
`busy`, then `ready` when the system has carried it out, and its handler runs
later: the interval in which a cancellation no longer reaches it. A response is a
header and a payload, as in both framings. HiSLIP reads are exchanges with an empty
request (`Empty`), which go straight to `begin_response`; a header that announces too much
(`Oversized`), or what is read in place of one, is rejected, and the rest of the response
stays in the socket. `drain_on_cancel` is chosen in the
initial state. `finish` calls `start_next`, which starts or drops requests, all in
one step (`Settle`). Once `start_next` has restarted an active request, two writes
of it overlap and the strand is not followed any further (`restarted`). The cancel
observer is a part of `CancelActive`; `IoRuntime` has it in detail.

**IoRuntime** has the strands of the two channels of every session and the workers
that run their handlers. A handler that does not wait is one step; the cancel
observer (`request_abort`, `request_async_clear`) keeps its worker until its
exchange on the other channel has ended. That exchange is a write and then reads of
headers and payloads on a channel that does not drain: a cancellation that comes when a
read has been carried out and its handler is in the queue is lost (`ReadsOn`).

**MessageSession** has the five sessions that exchange messages: which of them runs is
chosen in the initial state (`kind`). `io_mutex_` makes one `pc` enough; a cancellation
can come at any step, `flush` of HiSLIP and VXI-11 and the last statement of
`Vxi11BackendSession::clear` beside any. A byte is a number that tells whose answer it
belongs to and where; it is in `output` (the instrument's), `data`, `read_ahead`,
`delivered` or `dropped`. The recoveries are those of the code: the device clear of
HiSLIP with its three flags and message ids, abort and clear of USBTMC (`AbortBulkIn`
drops output of the instrument, `AbortBulkOut` what it has of the message being written),
none for the others. A write that fails without being cancelled may leave a part of its
message at the instrument (`failed`), and a USBTMC session goes on after it. `lost` notes that a clear or recovery has failed, `torn` the END marks a
cancelled read has not put back.

**Prologix** has the owners of one `PrologixController`: the gate, `transact` with its
steps, the tasks on the strand of `AsioPrologixIo`, and `cancel`, whose three parts
(look, mark, interrupt) other threads may come between. The adapter is external: it
executes commands in order, late ones too, and can be switched off and on. A connect may
survive the close that its cancellation has posted: the handler of a name that is already
resolved starts `async_connect` all the same.

**Libusb** has `open_impl` in the steps between which devices may leave, the arbiter's
claims, the endpoint gates, transfers, `close_handle` with the join of the event thread,
and `device_left`, which holds references while it marks connections. References are
counted, and the destructors run on whatever thread drops the last one, with the mutexes
it holds: `device_left` may be that thread, and so may an `open_impl` that has only looked
at a connection (`Peek`, under `open_mutex_` and `mutex_`). The life of a connection has
the steps of `~LibusbConnection`: from "expired", when no weak pointer leads to it and its
lease can still be shared, over "ending" to "dead".

**FindExpression** is the parser and the matcher of `find_expression.cpp`;
**FindGrammar** says what an expression means without parsing it left to right (a
language by its productions, character classes excepted), as the reference.
**ResourceAliases** has the two alias maps, **AliasDirectory** is what they promise: a
one-to-one relation of the latest assignments, in which an assigned alias is always found
until the manager is closed. **Discovery** composes them: a caller
types an expression piece by piece, searches, and walks the list while ports are added
and the manager is closed.

Definitions called "Faulty variant" are plausible mistakes in the definition below
them. No specification uses them; they serve to test that the properties notice.

## Runs

| Run | Instance | States | Shows |
|---|---|---|---|
| `lock_manager` | 2 threads, 3 sessions on 2 resources, 3 acquires | 131 459 | levels, lost wake-ups, refinement, `acquire` returns |
| `object_lifecycle` | 2 threads, 4 objects, 3 slots, 2 generations | 290 014 | handles, closing once, no orphans, what is removed is closed |
| `session` | 2 threads, 2 sessions, 3 calls and 2 closes, 3 backends | 1 241 753 | close leaves nothing, device and session agree, blocked calls return |
| `async_stream` | serial port, 2 reads of 3 bytes or 2 writes, 1 flush or clear | 315 757 | bytes in order, queues served, writes whole, cancelled calls return |
| `request_channel` | 4 exchanges: a call whose header may be rejected, one silent, one with an empty request, one outside `io_mutex_`; both kinds of channel | 398 639 | one answer, one request on the wire, draining, cancelled exchanges return |
| `io_runtime` | 3 workers, 2 sessions | 57 013 | cancelled calls return unless their observer reads on |
| `message_session` | 5 kinds, answers of 3 bytes, counts 2 and 4 | 2 648 682 | bytes in order, messages and writes apart, own answers and status bytes, clears announced |
| `prologix` | 2 sessions, 3 calls, 2 connections, 1 fault, TCP and serial | 402 419 | right instrument and EOI, own response, cancelled calls return |
| `libusb` | 2 sessions with equal or different alternate settings, 2 device structures, 1 transfer each, 1 termination | 537 876 | claims kept, one transfer at a time, no late open, events served, terminate and close return |
| `discovery` | expressions of up to 4 pieces, filters of up to 4 pieces, 8 resources, 3 aliases, 3 names | 2 116 154 | searches find what the grammar denotes, aliases implement their directory |

The bounds make the interesting cases happen. Two threads and three calls are
enough for a waiter, a holder and a canceller, one after the other in two threads;
three sessions on two resources for two owners of one lock and a key of another.
Four objects in three slots of two generations reuse a slot, retire one and fill
the table. Three
bytes, reads of two and a termchar in the middle make a read end by number or by
termchar, leave a byte over, and be cancelled with one byte in hand; reads and writes
share only the strand and the end of the stream, so `Scenarios` takes them one kind at
a time. The exchanges of `request_channel` are three that follow each other, with an
answer, without one, and without a request (a HiSLIP read), and one beside them, as `viClose`
makes it, which reads what the others may have left in the socket. Answers of three bytes, read two or four at a time,
the first equal to the termination character, leave bytes and END marks behind in every
place a session can have them; two connections and one fault let a Prologix connection
be given up and its successor meet what it has left; two sessions and a device that comes
back make the handle and thread of the first overlap those of the second. `MaxDepth` and
`MaxExpression` of `discovery` are small, so that both limits are met. Behaviours end when
the calls are used up, hence `CHECK_DEADLOCK FALSE`; the liveness properties say
what may not get stuck. Those of `Session`, `RequestChannel` and `Libusb` have the form
`[]<>` of "nobody waits who must not": what a call waits for ends only with its return, so
that this implies that each of them returns.

Every type invariant holds in these instances too and can be added to their configurations;
`NoOrphanLock`, `KeysOpenOneLock`, `OneWorkerPerSession` and `WorkerLeft` are proved (see
below) and not run.

### Runs that end in a violation

Each checks one sentence of the repository's documentation or comments and finds a
behaviour of the code that contradicts it.

- `request_channel_stale` (`NoStaleResponse`). `requirements.md`: later requests are
  never matched with an old response. `begin_response` gives up a request that was
  cancelled while it was written, and its response stays in the socket, on a
  draining channel too.
- `libusb_hotplug` (`HotplugDoesNotBlock`). A comment in `device_left`: "The hotplug
  callback intentionally performs no blocking descriptor, handle, or interface
  operations." If the last session closes while `device_left` holds its connection, the
  event thread releases the interface, closes the handle and, if it was the last one,
  joins itself.

### Other divergences, with configurations that show them

Each of these configurations ends in a violation; run it with
`tlc -config X.cfg M`.

| Configuration | Module | Property | What it shows |
|---|---|---|---|
| `SessionRemoteLock.cfg` | `Session` | `RemoteLockFollowsLocal` | ADR 0007 and `overview.md`: the last unlock releases the remote lock. If `viTerminate` completes the `Operation` after the device has granted its lock, `lock()` gives the local level back and does not unlock the device. |
| `SessionNotLocked.cfg` | `Session` | `NotLockedMeansNoLock` | `viStatusDesc`: "The session does not own a lock." On VXI-11, `viUnlock` of a shared lock asks the device to unlock what it never locked, returns `VI_ERROR_SESN_NLOCKED` and keeps the lock. |
| `RequestChannelRestart.cfg` | `RequestChannel` | `ActiveNotRestarted` | ADR 0007: nothing is scheduled before recovery has ended. `finish` of a request behind the active one calls `start_next`, which starts the active one again. |
| `IoRuntimeBlocked.cfg` | `IoRuntime` | `CancelReturns` (under fairness) | `requirements.md`: `viTerminate` and `viClose` wake blocked I/O. As many sessions cancelled together as there are workers hold all of them, and the handlers they wait for never run. |
| `IoRuntimeLost.cfg` | `IoRuntime` | `TerminateWakes` (under fairness) | The same sentence. The timeout of the observer's exchange comes between two of its reads and is lost; the observer waits for the device, and the cancelled call for the observer, though workers are free. |
| `LibusbLease.cfg` | `MCLibusb` | `HandleClaims` | USB slice 4: sessions of one interface share device reference, handle and claim. A session opened between the expiry of a connection and the end of its lease opens a handle of its own and shares the old lease: its handle never claims the interface. |
| `LibusbJoin.cfg` | `MCLibusb` | `EventThreadStops` (under fairness) | `overview.md`: the event thread stops after the last handle is closed. An `open_impl` with another alternate setting, or of a device that has left, looks at a connection whose last session closes meanwhile: it runs the destructors and joins the event thread under `mutex_`, for which that thread waits in `device_left`. |
| `MessageSessionRaw.cfg` | `MessageSession` | `RawBytesInOrder` | USB slice 5: raw reads follow the common semantics of termination characters and read-ahead. What follows a termination character is put behind bytes that were read ahead before it. |
| `MessageSessionFailed.cfg` | `MessageSession` | `FailedWritesDoNotMix` | A short or failed `bulk_out` of USBTMC returns `VI_ERROR_IO` without recovery, and the session stays usable: the next write joins what has arrived of the message before. |
| `PrologixSerial.cfg` | `MCPrologix` | `OwnResponseOnAnyLine` | ADR 0012: no command on an unknown state of the stream. On a serial line the version line of an abandoned handshake may come after the new one and ends in the next answer. |

Three more follow from what the properties exclude, and have no configuration.
`requirements.md` and `overview.md` say that bytes of a cancelled read return to
read-ahead; the recoveries of USBTMC and HiSLIP empty it. HiSLIP and USBTMC lose the END
mark of a read that is cancelled after its last byte (`torn`). A HiSLIP recovery or
`viClear` that fails leaves its flags set, and the next cancelled transfer takes them for
its own (`lost`).

## Fairness

- `LockManager`: strong fairness of a thread's own steps, as a mutex that is free
  again and again goes to everybody who keeps asking, and of `Expire`, as a deadline
  passes however often the waiter is woken. Nobody has to make a call.
- `ObjectLifecycle`: weak fairness of the steps inside a call.
- `Session`: weak fairness of steps that need nobody else. A thread that waits for a
  lock or a device gets weak fairness only once its `Operation` is completed: then
  `acquire` returns (`AcquireReturns`) and the backend does
  (`CancelledExchangeReturns`, and `CancelReturns` while workers are left and no observer
  reads on). That the other backends do is assumed here.
- `AsyncStream`: weak fairness of the handlers, of a thread that is about to post its
  request, and of the notice that the stream has ended. No byte has to arrive or to be
  taken by the device.
- `RequestChannel`: weak fairness of the handlers, of the recovery timer and of the
  notice of a broken connection. The device need not answer, nor a write end.
- `Prologix`: weak fairness of callers, of the threads that cancel, and of the tasks and
  failed requests on the strand. The adapter need not answer, no connection be made, and
  no deadline pass. A TCP connect of a completed `Operation` is sure to end only when the
  close posted for it has run (`Ends`): the resolver, the system's own connect timeout or
  the timer of `connect_tcp` then ends it.
- `Libusb`: weak fairness of the threads inside the library, of the event threads, and of
  the completion of a cancelled transfer, which libusb promises. The device need not
  answer, callers need not close. A waiter for a gate wakes by its deadline, or every
  50 ms (`EndpointGate::acquire`).
- `MessageSession` and `Discovery` state safety only.
- `IoRuntime`: weak fairness of the two timers and of the handlers of each session
  as long as a worker can take them. Neither application nor device need act.

## Theorems

Checked by TLAPS for every value of the constants.

- **CoreProofs**, locks: the type invariant, `NoOrphanLock`,
  `LevelsMatchCallers`, `KeysOpenOneLock`, `NoLostCancel`, `NoLostRelease` and
  `LockSpec => ImplementsResourceLock`, for any number of threads, sessions, resources
  and calls. The inductive invariant `LockInv` adds to the types that `mutex` is held
  exactly by a thread that has checked and not yet slept, that a thread has
  arguments exactly inside `acquire`, that every lock is well formed, and that depths
  equal `held`; without the last, `release` could take `held` below zero. `NoLostRelease` needs
  a strengthening on top of it, `NoMissedWake`: a lock a waiter sleeps on can admit it
  neither by its state nor by its key.
  **LockStateProofs** has the lemmas: what granting and releasing do to depths, types
  and well-formedness.
- **CoreProofs**, handles: for every `MaxSlots <= 65535` and
  `MaxGeneration <= 4095`, handles name their objects and dead handles stay
  dead. `HandleInv` says of every issued handle where its slot is and that the slot's
  generation has not fallen behind (equal only while it is alive or its slot is
  retired); the rest is arithmetic on the three bit fields.
- **CoreProofs**, objects: for any number of threads and objects and every table, the
  type invariant, `ClosedOnceAndUnreachable`, `NoOrphan`, `ChildrenAreAlive` and `Spec =>
  TableSpec`: opening and closing use the table only through `Insert` and `Remove`, so
  that handles name their objects and stay dead in the composed system as well. None of
  the three invariants is inductive. `LifeInv` adds what each thread has in hand between
  two critical sections: an object is in the hands of one thread (`Alone`); between
  `insert` and `set_handle` its opener is the only one who knows some of it (`Opens`);
  every other child in the table is in `children_` of an open manager or on the list of a
  `close()` (`KeptInv`); and `children_` and those lists name registered children only
  (`ListedInv`, `TodoInv`). That handles are issued once is taken from the table.
- **RequestChannelProofs** proves, for any number of requests and both kinds of channel,
  the type invariant, `AnsweredOnce`, `OneRequestOnTheWire` and `ResponsesDrained`. The
  conjuncts of `ChannelInv` beyond these say that a request is posted once (`PostedInv`),
  that the queue holds each unanswered request once (`QueueInv`), that its front is active
  and nothing else (`WireInv`), what the device still owes at each point of an exchange
  (`StreamInv`) and that the parts read so far belong to the active request (`PartInv`).
  They hold until `start_next` restarts an active request, which `OneRequestOnTheWire`
  allows for and `RequestChannelRestart.cfg` shows; `AnsweredOnce` and `ResponsesDrained`
  are proved without that proviso. `Settle`, the loop of `start_next`, is handled by what
  it does to the queue: a prefix of completed requests is dropped and answered, and the
  next one is started.
- **SessionProofs** proves, for any number of threads, sessions and calls and all
  backends, the type invariant, `ClosedIsQuiet` and `QuietSessionsAgree`. `SessionInv` has
  three parts. `ThreadInv`: a call that has looked at its `Operation` and goes on is in
  `operations_`, and a pending `Operation` belongs to a session that is not closed; this
  is what makes `close()` wait for the right threads. `CloseInv` follows a session from
  the removal of its handle to the end of `close()`. `QuietInv` says, for each point of
  `lock()` and `unlock()`, how far depth, device and the backend's belief are from the
  agreement between calls, as long as the session is undisturbed.
- **CoreProofs**, aliases: for any names and any folding of their case, the
  two maps stay inverse (`AliasInv`) and `AliasSpec` implements `AliasDirectory`, whose
  look-ups find every assigned alias, in every spelling, until the manager is closed. The
  steps of `Discovery` are steps of `AliasSpec` or leave its variables alone; `Discovery`
  itself extends a module with recursive operators and is out of the prover's reach.
- **AsioProofs**, workers: a session holds at most one worker and more
  workers than sessions always leave one free. `PoolInv` says that a waiting worker
  waits in the main strand of a cancelled call, and no two in the same; then the free
  worker follows by counting.
- **AsioProofs**, stream: for any reads, writes, sizes and bounds, the type invariant,
  `BytesInOrder`, `QueueIsServed` and `WritesDoNotMix`. All bytes between the device and the
  callers form one sequence, `Stream`: what was delivered, what the active read has in hand,
  `read_ahead` and `inbound`. A step moves a boundary in it, appends to it or takes a part
  out of it, and a part is taken out only together with an entry in `discarded`. That needs
  to know that at most one read has anything in hand, which is `ServedInv` (the first request
  of a queue is active, the others are not), which in turn rests on `QueueInv` (each request
  that waits is in its queue, once) and `PostedInv` (it is posted once). `IoInv` says that
  only active requests have operations on the stream, `ReadInv` that a read that goes on has
  met neither its count nor its termchar; `WireInv` and `CountInv` do for writes what
  `Stream` does for reads.
- **MessageSessionProofs**: for all five sessions and any bounds, `BytesInOrder`,
  `MessagesSeparate`, `OwnAnswer`, `ClearIsAnnounced`, `WritesDoNotMix` and `StatusByteIsOwn`.
  `MessageInv` has a part for each. `OrderInv` and `AnswerInv` say that `delivered`, `data`,
  `read_ahead`, `output` and the answers still to come follow one another, the latter because
  a message is answered once. It includes that a read that asks the device for more has used
  up `read_ahead`; raw USB violates this, which is the violation of
  `MessageSessionRaw.cfg`. `SeparateInv` says where unmarked ends of messages can be held.
  `OutputInv` and `IdInv` say that answers to earlier writes have smaller message ids, so that
  the check of ids in HiSLIP's read rejects them (`OwnInv`). `MixInv` says who is about to
  finish or take back an unfinished message (parts of failed writes, which nobody takes back,
  are excepted), `AnnounceInv` whose flags of a clear are set.
  `StatusInv` says that the tag of a status request is new: this is under the assumption
  `MaxCalls < LastStatusTag`, as the tags of the code go round after 126 calls.
- **LibusbProofs**: for any number of sessions and devices and any bounds, `EventsServed`,
  `NoLateOpen`, `UsesClaim` and `OneTransfer`. `Served` (and `ThreadsStarted`) follow the
  count of handles through the windows in which the last one is closed while a new one is
  opened. `LeftInv` says that a connected connection is registered with `device_left` or
  already in its hands, which makes `NoLateOpen` inductive together with `GoneInv`, what is
  known to have departed is gone as long as a session refers to it. `MutexInv` says who is in
  `open_impl` and with which mutexes, `DyingInv` that a connection past its last reference is
  in the hands of the one thread that destroys it. `SharedInv` says that at most one
  connection of a device is connected, and it is the one `open_impl` finds under
  `open_mutex_`; `LeaseInv`, `ReleaseInv` and `ClaimInv` say that nobody who ends a lease or
  closes a handle takes the claim away from a connection that shares it, which gives
  `UsesClaim`. `OneTransfer` needs `GateInv` (who transfers has the gate of its connection)
  and `SharedInv`.
- **PrologixProofs**: for any owners, addresses, plans of calls, connections and faults,
  `RightInstrument` and `OwnResponse`. For the first, `Trusted` says that the cached address
  and EOI are what the adapter will have set once it has executed everything under way to it.
  It holds only when the caches are not in doubt: after a failed transaction the active owner
  still has to invalidate them (`Doubt`), and nobody else can write before it has left the gate
  (`GateInv`). `ReadyInv` says that commands go out on a connection that was found to work and
  nothing is cached before, `StepInv` that a command is written when the caches agree with its
  owner. For the second, `AnswerInv` says that on an open TCP connection not in doubt nothing
  is on its way but what the active owner waits for (`OnItsWay`): a version line or the rest of
  one answer; and that what callers have gathered is theirs (`GatheredInv`). On a serial line
  bytes survive the connection, which is the violation of `PrologixSerial.cfg`.

The inductive invariants were model-checked on the instances of the runs, and
`SessionInv` with one call more, before they were proved. In each proof the step of every
action is a lemma of its own, and the other threads, sessions or requests are dealt with
once, by a lemma about steps that leave them alone (`FrameInv`, `StepInv` in
`SessionProofs`).

Assumptions are the named `ASSUME`s of the modules: model values are outside the sets
they are added to, limits are within the bits of the code, worker and session sets
are finite, each session has a resource, backends are the three kinds of the code. `Libusb`
assumes a device and that event threads are not sessions, `MessageSession` that one message
may be written and the tags of status requests do not go round, `Prologix` that plans are
made of the calls of `IGpibTransport`.

Only model-checked: every liveness property (fairness and `ENABLED` are out of the
prover's reach), and `WalkFindsDenoted`: what `FindExpression` computes is recursive, and
would need induction over expressions. Every other invariant and action property of the runs
is proved.

## Not modelled

- In `LockManager`, spurious wake-ups: they lead to the predicate and back.
- In `AsyncStream`, the connection of a socket, the opening of a port, attributes, and
  what `flush` discards on the way out.
- In `Session`, attributes and buffers, and the text of access keys: one assignment or
  copy under one mutex each. In `RequestChannel`, `connect` and more than one fragment of an
  RPC record.
  In `IoRuntime`, what the exchanges carry, and the start and stop of its threads.
- In `MessageSession`, the opening handshakes, message ids of `UINT32_MAX`, capabilities
  and bTags of USBTMC, its status byte without an interrupt endpoint, writes without END,
  control transfers, `read_stb` of HiSLIP, VXI-11 and GPIB. What RequestChannel does
  inside an exchange is one step here. `Receive` takes a frame in one step, where HiSLIP and
  VXI-11 take `read_ahead_mutex_` for each byte and again for END, so that a `flush` may take
  away a part of the frame; the 12 bytes that ask a USBTMC instrument for data are sent or not.
- In `Prologix`, the escaping of data, secondary addresses, the pool's keys; a controller
  is one and stays. In `Libusb`, inspection of descriptors, `clear_halt`, discovery, and
  the provider's own end; requests of all endpoints pass one gate.
- In `FindExpression`, spaces, and the spelling of identifiers and literals in a filter:
  a relation is one token. The limits of 512 and 256 nodes are out of reach of expressions
  of at most 255 characters.
- `resource_parser.cpp`: it splits strings and formats numbers; the modules take names as
  parsed. The maps of service ports, providers and raw configurations: one assignment
  under `mutex_` each. The packing of VXI-11, HiSLIP and USBTMC headers: conversions
  without state.
- Serial discovery and the mock session: I/O without control, and test code.

## Plan

1. `AsyncStream`: connecting. `StreamCallsReturn` excludes overtaken reads: a read that
   times out just when a part of its data has arrived waits until more data comes or the
   session is closed, although `requirements.md` says that `viTerminate` wakes blocked I/O;
   `IoRuntimeLost.cfg` shows the same of the request channel.
2. `MessageSession` over `RequestChannel` instead of over exchanges in one step; late
   answers to `read_stb` and lock requests on HiSLIP's asynchronous channel.
3. The resource parser as an operator, against the grammar of resource names.
