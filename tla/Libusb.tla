------------------------------- MODULE Libusb -------------------------------
(***************************************************************************)
(* The libusb provider (src/backends/usb/libusb_provider.cpp) and the      *)
(* interface arbiter (usb_provider.cpp): sessions open one interface of a  *)
(* device, share a LibusbConnection, its handle and its claim, transfer    *)
(* through the gate of an endpoint, and close, while devices come and go   *)
(* and an event thread, started with the first handle and stopped with the *)
(* last one, runs the callbacks of libusb.                                 *)
(*                                                                         *)
(* A connection and its handle carry the name of the session that made     *)
(* them.  shared_ptr and weak_ptr become references that can be counted    *)
(* (Users, Lessees): what drops the last one runs the destructors, on the  *)
(* thread that drops it, be it the event thread or an open_impl that only  *)
(* looked, and with the mutexes that thread holds.                         *)
(*                                                                         *)
(* libusb and the kernel (external): claims exclude each other, a device   *)
(* structure is reused only when nobody refers to it, hotplug events and   *)
(* completions are delivered on an event thread.                           *)
(***************************************************************************)
EXTENDS Naturals, Sequences, FiniteSets

CONSTANTS
    Sessions,        \* each opens the interface once
    Devices,         \* device structures of libusb
    None,
    Settings,        \* the alternate settings the sessions ask for: a set of functions
    Threads,         \* event threads, 1 .. n in the order they are started
    MaxPlugs,        \* bounds of the model: devices plugged in,
    MaxTransfers,    \* transfers of each session
    MaxTerminates    \* terminations

ASSUME NameAssumption ==
    /\ None \notin Sessions \cup Devices
    /\ IsFiniteSet(Sessions) /\ Sessions \cap Threads = {}
    /\ Devices # {}
ASSUME ThreadAssumption == Threads = 1 .. Cardinality(Sessions)
ASSUME BoundAssumption == {MaxPlugs, MaxTransfers, MaxTerminates} \subseteq Nat

VARIABLES
    plugged, hotplug, plugs,      \* external: the device present; events not delivered yet
    departed_devices,             \* LibusbProvider
    connections, registered,      \* connections_; the connections in device_connections_
    open_mutex, mutex,            \* who is in open_impl past open_mutex_; who has mutex_ for several steps
    open_handles, events_running, events_thread,   \* LibusbRuntime
    at,                           \* where each session and each event thread is
    alternate,                    \* the alternate setting each session asks for
    target,                       \* the device a session has found in the list
    uses,                         \* the connection of each transport
    made, connected, lease,       \* the connections: how far their lives are; whose claim they share
    claimed,                      \* external: the handle that has claimed the interface of a device
    dropping, closing, joining,   \* destructors: of the connection, handles to close, thread to join
    held,                         \* references of device_left and of open_impl while it looks
    gate,                         \* EndpointGate: who is in, of each connection
    op, transfer, transfers,      \* the Operation of a session, its transfer, how many it made
    terminating, terminates,      \* sessions whose transport is being cancelled
    crashed                       \* std::terminate was called: the end of the program, if not of the model

deviceVars == <<plugged, hotplug, plugs, alternate>>
mutexVars == <<open_mutex, mutex>>
providerVars == <<departed_devices, connections, registered, mutexVars>>
runtimeVars == <<open_handles, events_running, events_thread>>
connectionVars == <<made, connected, lease>>
dtorVars == <<dropping, closing, joining>>
ioVars == <<gate, op, transfer, transfers>>
cancelVars == <<terminating, terminates>>
vars == <<deviceVars, providerVars, runtimeVars, at, target, uses, connectionVars, claimed,
          dtorVars, held, ioVars, cancelVars, crashed>>

Actors == Sessions \cup Threads

Init ==
    /\ plugged = (CHOOSE d \in Devices : TRUE) /\ hotplug = <<>> /\ plugs = 1
    /\ departed_devices = {}
    /\ connections = [d \in Devices |-> None]
    /\ registered = {}
    /\ open_mutex = None /\ mutex = None
    /\ open_handles = 0 /\ events_running = FALSE /\ events_thread = 0
    /\ at = [a \in Actors |-> IF a \in Sessions THEN "new" ELSE "none"]
    /\ alternate \in Settings
    /\ target = [s \in Sessions |-> None]
    /\ uses = [s \in Sessions |-> None]
    /\ made = [s \in Sessions |-> "no"]
    /\ connected = [s \in Sessions |-> FALSE]
    /\ lease = [s \in Sessions |-> None]
    /\ claimed = [d \in Devices |-> None]
    /\ dropping = [a \in Actors |-> None]
    /\ closing = [a \in Actors |-> {}]
    /\ joining = [a \in Actors |-> 0]
    /\ held = [a \in Actors |-> {}]
    /\ gate = [s \in Sessions |-> None]
    /\ op = [s \in Sessions |-> "none"]
    /\ transfer = [s \in Sessions |-> "none"]
    /\ transfers = [s \in Sessions |-> 0]
    /\ terminating = {} /\ terminates = 0
    /\ crashed = FALSE

Go(a, where) == at' = [at EXCEPT ![a] = where]

\* Who keeps connection c alive, and who the lease of handle h.  A connection is
\* "live" as long as a weak_ptr to it can be locked, "expired" while its destructor
\* has not come to its lease, "ending" until its lease and its handle are given
\* back, and then "dead".
Users(c) == {s \in Sessions : uses[s] = c} \cup {a \in Actors : c \in held[a]}
Leased(c) == made[c] \in {"live", "expired"}
Lessees(h) == {c \in Sessions : Leased(c) /\ lease[c] = h}

-----------------------------------------------------------------------------
\* open_impl.  The device is found in the list.
List(s) ==
    /\ at[s] = "new"
    /\ IF plugged = None THEN Go(s, "gone") /\ UNCHANGED target
                         ELSE Go(s, "lookup") /\ target' = [target EXCEPT ![s] = plugged]
    /\ UNCHANGED <<deviceVars, providerVars, runtimeVars, uses, connectionVars, claimed,
                   dtorVars, held, ioVars, cancelVars, crashed>>

\* Under open_mutex_ and mutex_: the connection of the identity, if it is alive, is
\* referred to while open_impl looks at it; otherwise it is forgotten.
Lookup(s) ==
    LET c == connections[target[s]] IN
    /\ at[s] = "lookup" /\ open_mutex = None /\ mutex = None
    /\ open_mutex' = s
    /\ IF c # None /\ made[c] = "live"
       THEN /\ held' = [held EXCEPT ![s] = {c}]
            /\ mutex' = s /\ Go(s, "peek")
            /\ UNCHANGED connections
       ELSE /\ connections' = [connections EXCEPT ![target[s]] = None]
            /\ Go(s, "handle")
            /\ UNCHANGED <<held, mutex>>
    /\ UNCHANGED <<deviceVars, departed_devices, registered, runtimeVars, target, uses,
                   connectionVars, claimed, dtorVars, ioVars, cancelVars, crashed>>

\* ~LibusbConnection begins, when actor a has dropped the last reference to c:
\* mark_disconnected runs, no weak_ptr leads to c any more, and its lease is still there.
Destroy(a, c) ==
    /\ made' = [made EXCEPT ![c] = "expired"]
    /\ connected' = [connected EXCEPT ![c] = FALSE]
    /\ dropping' = [dropping EXCEPT ![a] = c]
    /\ Go(a, "expired")

\* Faulty variant of Shareable: every session makes a connection of its own.
NeverShareable(c) == FALSE

\* A connection that is known under an identity may be used again.
Shareable(c) == connected[c]

\* Still under both mutexes: a connection that is connected is shared, unless it has
\* another alternate setting; one that is not is forgotten.  The reference taken to
\* look at it may be the last one, and then the destructors run under both mutexes.
Peek(s) ==
    LET c == connections[target[s]] IN
    /\ at[s] = "peek"
    /\ held' = [held EXCEPT ![s] = {}]
    /\ IF Shareable(c) /\ alternate[c] = alternate[s]
       THEN /\ uses' = [uses EXCEPT ![s] = c]
            /\ open_mutex' = None /\ mutex' = None /\ Go(s, "open")
            /\ UNCHANGED <<connections, made, connected, dropping>>
       ELSE /\ connections' = IF Shareable(c) THEN connections
                              ELSE [connections EXCEPT ![target[s]] = None]
            /\ IF Users(c) = {s}
               THEN Destroy(s, c) /\ UNCHANGED mutexVars
               ELSE /\ mutex' = None
                    /\ IF Shareable(c) THEN Go(s, "gone") /\ open_mutex' = None
                                       ELSE Go(s, "handle") /\ UNCHANGED open_mutex
                    /\ UNCHANGED <<made, connected, dropping>>
            /\ UNCHANGED uses
    /\ UNCHANGED <<deviceVars, departed_devices, registered, runtimeVars, target, lease, claimed,
                   closing, joining, ioVars, cancelVars, crashed>>

\* libusb_open, which fails when the device is gone, unless read_serial has opened it
\* already; and LibusbHandle: retain_handle starts the event thread.
OpenHandle(s) ==
    /\ at[s] = "handle"
    /\ \/ /\ plugged # target[s]
          /\ Go(s, "gone") /\ open_mutex' = None
          /\ UNCHANGED runtimeVars
       \/ /\ open_handles' = open_handles + 1
          /\ IF open_handles = 0
             THEN LET t == CHOOSE t \in Threads : at[t] = "none" /\ \A u \in 1 .. t - 1 : at[u] # "none"
                  IN  /\ events_running' = TRUE /\ events_thread' = t
                      /\ at' = [at EXCEPT ![s] = "claim", ![t] = "loop"]
             ELSE Go(s, "claim") /\ UNCHANGED <<events_running, events_thread>>
          /\ UNCHANGED open_mutex
    /\ UNCHANGED <<deviceVars, departed_devices, connections, registered, mutex, target, uses,
                   connectionVars, claimed, dtorVars, held, ioVars, cancelVars, crashed>>

\* UsbInterfaceArbiter::acquire: a lease that is alive is shared, be its connection
\* expired, otherwise the interface is claimed, which fails when the device is gone.
\* A claim that has lost its last owner and is not released yet makes the kernel
\* answer that the interface is busy.
Claim(s) ==
    LET d      == target[s]
        shared == {c \in Sessions : Leased(c) /\ target[c] = d}
    IN  /\ at[s] = "claim"
        /\ IF shared = {} /\ (claimed[d] # None \/ plugged # d)
           THEN /\ Go(s, "close") /\ closing' = [closing EXCEPT ![s] = {s}]
                /\ UNCHANGED <<connectionVars, claimed>>
           ELSE /\ Go(s, "register")
                /\ made' = [made EXCEPT ![s] = "live"]
                /\ connected' = [connected EXCEPT ![s] = TRUE]
                /\ lease' = [lease EXCEPT ![s] = IF shared = {} THEN s
                                                 ELSE lease[CHOOSE c \in shared : TRUE]]
                /\ claimed' = IF shared = {} THEN [claimed EXCEPT ![d] = s] ELSE claimed
                /\ UNCHANGED closing
        /\ UNCHANGED <<deviceVars, providerVars, runtimeVars, target, uses, dropping, joining,
                       held, ioVars, cancelVars, crashed>>

\* Faulty variant of HasLeft: nobody asks whether the device has left meanwhile.
NeverHasLeft(d) == FALSE

HasLeft(d) == d \in departed_devices

\* The connection becomes known, under mutex_, unless its device has left.
Register(s) ==
    /\ at[s] = "register" /\ mutex = None
    /\ IF HasLeft(target[s])
       THEN Destroy(s, s) /\ UNCHANGED <<connections, registered, uses, open_mutex>>
       ELSE /\ connections' = [connections EXCEPT ![target[s]] = s]
            /\ registered' = registered \cup {s}
            /\ uses' = [uses EXCEPT ![s] = s]
            /\ open_mutex' = None /\ Go(s, "open")
            /\ UNCHANGED <<made, connected, dropping>>
    /\ UNCHANGED <<deviceVars, departed_devices, mutex, runtimeVars, target, lease, claimed,
                   closing, joining, held, ioVars, cancelVars, crashed>>

-----------------------------------------------------------------------------
\* Faulty variant of LastLessee: whoever leaves releases the claim.
AnyLessee(c) == TRUE

LastLessee(c) == Lessees(lease[c]) = {c}

\* The destructors.  lease_.reset: until now the lease could be shared.  The last
\* reference to it runs ~UsbInterfaceLease, which keeps the claim for one step more.
EndLease(a) ==
    LET c == dropping[a] IN
    /\ at[a] = "expired"
    /\ made' = [made EXCEPT ![c] = "ending"]
    /\ lease' = IF LastLessee(c) THEN lease ELSE [lease EXCEPT ![c] = None]
    /\ Go(a, "release")
    /\ UNCHANGED <<deviceVars, providerVars, runtimeVars, target, uses, connected, claimed,
                   dtorVars, held, ioVars, cancelVars, crashed>>

\* UsbInterfaceLease releases the claim, and handle_.reset follows: the handle of
\* the claim and the handle of c are closed, each if nothing refers to it any more.
Release(a) ==
    LET c == dropping[a] IN
    /\ at[a] = "release"
    /\ claimed' = [d \in Devices |-> IF claimed[d] = lease[c] THEN None ELSE claimed[d]]
    /\ made' = [made EXCEPT ![c] = "dead"]
    /\ lease' = [lease EXCEPT ![c] = None]
    /\ closing' = [closing EXCEPT ![a] =
          {h \in {c, lease[c]} \ {None} : made'[h] = "dead" /\ \A x \in Sessions : lease'[x] # h}]
    /\ dropping' = [dropping EXCEPT ![a] = None]
    /\ Go(a, "close")
    /\ UNCHANGED <<deviceVars, providerVars, runtimeVars, target, uses, connected, joining,
                   held, ioVars, cancelVars, crashed>>

\* Where actor a goes on when the destructors are done: device_left drops the next
\* connection, an open_impl that has forgotten the connection opens a handle, and
\* other open_impls and viClose end.
Resume(a) ==
    LET more == mutex = a /\ connections[target[a]] = None IN
    /\ Go(a, CASE a \in Threads -> "drop" [] a \in Sessions /\ more -> "handle" [] OTHER -> "gone")
    /\ mutex' = IF mutex = a THEN None ELSE mutex
    /\ open_mutex' = IF open_mutex = a /\ ~more THEN None ELSE open_mutex

\* Faulty variants: the last but one handle stops the thread; the thread is not
\* told to stop.
LastHandleEarly == open_handles <= 2
StopEventsNot == UNCHANGED events_running

\* close_handle's last, and the flag it stores.
LastHandle == open_handles = 1
StopEvents == events_running' = FALSE

\* close_handle: the last handle stops the event thread and joins it.  A thread
\* that joins itself throws in a noexcept function.
CloseHandle(a) ==
    /\ at[a] = "close"
    /\ IF closing[a] = {}
       THEN Resume(a) /\ UNCHANGED <<runtimeVars, closing, joining, crashed>>
       ELSE /\ closing' = [closing EXCEPT ![a] = @ \ {CHOOSE h \in @ : TRUE}]
            /\ open_handles' = open_handles - 1
            /\ IF LastHandle
               THEN /\ StopEvents /\ events_thread' = 0
                    /\ joining' = [joining EXCEPT ![a] = events_thread]
                    /\ Go(a, "join")
                    /\ crashed' = (crashed \/ a = events_thread)
               ELSE UNCHANGED <<at, events_running, events_thread, joining, crashed>>
            /\ UNCHANGED mutexVars
    /\ UNCHANGED <<deviceVars, departed_devices, connections, registered, target, uses,
                   connectionVars, claimed, dropping, held, ioVars, cancelVars>>

Join(a) ==
    /\ at[a] = "join" /\ at[joining[a]] = "exited"
    /\ joining' = [joining EXCEPT ![a] = 0]
    /\ Go(a, "close")
    /\ UNCHANGED <<deviceVars, providerVars, runtimeVars, target, uses, connectionVars, claimed,
                   dropping, closing, held, ioVars, cancelVars, crashed>>

\* viClose of session s, none of whose operations is under way: the transport
\* drops its connection.
Close(s) ==
    /\ at[s] = "open" /\ s \notin terminating
    /\ uses' = [uses EXCEPT ![s] = None]
    /\ IF Users(uses[s]) = {s}
       THEN Destroy(s, uses[s])
       ELSE Go(s, "gone") /\ UNCHANGED <<made, connected, dropping>>
    /\ UNCHANGED <<deviceVars, providerVars, runtimeVars, target, lease, claimed, closing, joining,
                   held, ioVars, cancelVars, crashed>>

-----------------------------------------------------------------------------
\* The transfers: bulk_in, bulk_out, control and interrupt requests on one
\* endpoint.  acquire looks at the gate and at the Operation under its mutex_,
\* and then goes to sleep; notify does not take the mutex.
Begin(s) ==
    /\ at[s] = "open" /\ transfers[s] < MaxTransfers /\ s \notin terminating
    /\ transfers' = [transfers EXCEPT ![s] = @ + 1]
    /\ op' = [op EXCEPT ![s] = "pending"]
    /\ Go(s, "gate")
    /\ UNCHANGED <<deviceVars, providerVars, runtimeVars, target, uses, connectionVars, claimed,
                   dtorVars, held, gate, transfer, cancelVars, crashed>>

\* The call of s returns.
Returns(s) == op' = [op EXCEPT ![s] = "none"]

Acquire(s) ==
    LET c == uses[s] IN
    /\ at[s] = "gate"
    /\ \/ op[s] = "completed" /\ Go(s, "open") /\ Returns(s) /\ UNCHANGED gate
       \/ /\ op[s] = "pending" /\ gate[c] = None
          /\ gate' = [gate EXCEPT ![c] = s] /\ Go(s, "submit") /\ UNCHANGED op
       \/ op[s] = "pending" /\ gate[c] # None /\ Go(s, "dozing") /\ UNCHANGED <<gate, op>>
    /\ UNCHANGED <<deviceVars, providerVars, runtimeVars, target, uses, connectionVars, claimed,
                   dtorVars, held, transfer, transfers, cancelVars, crashed>>

FallAsleep(s) ==
    /\ at[s] = "dozing"
    /\ Go(s, "asleep")
    /\ UNCHANGED <<deviceVars, providerVars, runtimeVars, target, uses, connectionVars, claimed,
                   dtorVars, held, ioVars, cancelVars, crashed>>

\* The deadline of a call that waits for the gate, or the 50 ms poll of one that
\* has none.
WakeByItself(s) ==
    /\ at[s] = "asleep"
    /\ Go(s, "gate")
    /\ op' \in {op, [op EXCEPT ![s] = "completed"]}
    /\ UNCHANGED <<deviceVars, providerVars, runtimeVars, target, uses, connectionVars, claimed,
                   dtorVars, held, gate, transfer, transfers, cancelVars, crashed>>

\* notify_gates wakes every sleeper of connection c.
Notified(c, where) ==
    [a \in Actors |-> IF a \in Sessions /\ where[a] = "asleep" /\ uses[a] = c THEN "gate" ELSE where[a]]

\* EndpointGate::release wakes one sleeper.
ReleaseGate(s, where) ==
    LET c == uses[s]
        asleep == {a \in Sessions : where[a] = "asleep" /\ uses[a] = c}
    IN  /\ gate' = [gate EXCEPT ![c] = None]
        /\ IF asleep = {} THEN at' = where
                          ELSE \E a \in asleep : at' = [where EXCEPT ![a] = "gate"]

\* Faulty variant of MaySubmit: the Operation is looked at before, not under
\* state_mutex_.
MaySubmitAnyway(s) == connected[uses[s]]

MaySubmit(s) == connected[uses[s]] /\ op[s] = "pending"

\* submit_and_wait, under state_mutex_.  A device that is gone refuses the
\* transfer, which marks the connection and wakes the other sleepers.
Submit(s) ==
    LET c == uses[s] IN
    /\ at[s] = "submit"
    /\ CASE ~MaySubmit(s) ->
              /\ ReleaseGate(s, [at EXCEPT ![s] = "open"]) /\ Returns(s)
              /\ UNCHANGED <<transfer, connected>>
         [] MaySubmit(s) /\ plugged # target[c] ->
              /\ ReleaseGate(s, Notified(c, [at EXCEPT ![s] = "open"])) /\ Returns(s)
              /\ connected' = [connected EXCEPT ![c] = FALSE]
              /\ UNCHANGED transfer
         [] OTHER ->
              /\ transfer' = [transfer EXCEPT ![s] = "active"]
              /\ Go(s, "wait")
              /\ UNCHANGED <<gate, op, connected>>
    /\ UNCHANGED <<deviceVars, providerVars, runtimeVars, target, uses, made, lease, claimed,
                   dtorVars, held, transfers, cancelVars, crashed>>

\* submit_and_wait goes on after the callback; the transfer leaves
\* active_transfers_ and is freed, and the gate is given back.
Finish(s) ==
    LET c == uses[s] IN
    /\ at[s] = "wait" /\ transfer[s] \in {"done", "lost"}
    /\ transfer' = [transfer EXCEPT ![s] = "none"]
    /\ Returns(s)
    /\ IF transfer[s] = "lost" /\ op[s] = "pending"
       THEN /\ connected' = [connected EXCEPT ![c] = FALSE]
            /\ ReleaseGate(s, Notified(c, [at EXCEPT ![s] = "open"]))
       ELSE ReleaseGate(s, [at EXCEPT ![s] = "open"]) /\ UNCHANGED connected
    /\ UNCHANGED <<deviceVars, providerVars, runtimeVars, target, uses, made, lease, claimed,
                   dtorVars, held, transfers, cancelVars, crashed>>

\* viTerminate: request_cancel, and then LibusbTransport::cancel, which cancels the
\* active transfer under state_mutex_ and wakes the sleepers.
Terminate(s) ==
    /\ at[s] \in {"gate", "dozing", "asleep", "submit", "wait"} /\ s \notin terminating
    /\ terminates < MaxTerminates
    /\ terminates' = terminates + 1
    /\ terminating' = terminating \cup {s}
    /\ op' = [op EXCEPT ![s] = "completed"]
    /\ UNCHANGED <<deviceVars, providerVars, runtimeVars, at, target, uses, connectionVars, claimed,
                   dtorVars, held, gate, transfer, transfers, crashed>>

Cancel(s) ==
    /\ s \in terminating
    /\ terminating' = terminating \ {s}
    /\ transfer' = [transfer EXCEPT ![s] = IF @ = "active" THEN "cancelled" ELSE @]
    /\ at' = Notified(uses[s], at)
    /\ UNCHANGED <<deviceVars, providerVars, runtimeVars, target, uses, connectionVars, claimed,
                   dtorVars, held, gate, op, transfers, terminates, crashed>>

-----------------------------------------------------------------------------
\* The event threads.  event_loop ends when it finds events_running_ false.
Exit(t) ==
    /\ at[t] = "loop" /\ ~events_running
    /\ Go(t, "exited")
    /\ UNCHANGED <<deviceVars, providerVars, runtimeVars, target, uses, connectionVars, claimed,
                   dtorVars, held, ioVars, cancelVars, crashed>>

\* transfer_complete: a cancelled transfer, and one to a device that is gone, are
\* always completed; others when the device or the timeout of the transfer says so.
Complete(t, s) ==
    /\ at[t] = "loop"
    /\ transfer[s] \in {"active", "cancelled"}
    /\ transfer' = [transfer EXCEPT ![s] = IF plugged # target[uses[s]] THEN "lost" ELSE "done"]
    /\ UNCHANGED <<deviceVars, providerVars, runtimeVars, at, target, uses, connectionVars, claimed,
                   dtorVars, held, gate, op, transfers, cancelVars, crashed>>

\* libusb calls hotplug_callback on one thread at a time: that thread is past the
\* test of events_running_, and waits for mutex_.
Callback(t) ==
    /\ at[t] = "loop" /\ hotplug # <<>> /\ \A u \in Threads : at[u] # "callback"
    /\ Go(t, "callback")
    /\ UNCHANGED <<deviceVars, providerVars, runtimeVars, target, uses, connectionVars, claimed,
                   dtorVars, held, ioVars, cancelVars, crashed>>

\* hotplug_callback.  device_left takes the connections of the device, under
\* mutex_, and marks them afterwards; device_arrived forgets that it had left.
Hotplug(t) ==
    LET d == hotplug[1][2] IN
    /\ at[t] = "callback" /\ mutex = None /\ hotplug # <<>>
    /\ hotplug' = Tail(hotplug)
    /\ IF hotplug[1][1] = "left"
       THEN /\ departed_devices' = departed_devices \cup {d}
            /\ held' = [held EXCEPT ![t] = {c \in registered : target[c] = d /\ made[c] = "live"}]
            /\ registered' = {c \in registered : target[c] # d}
            /\ Go(t, "mark")
       ELSE /\ departed_devices' = departed_devices \ {d}
            /\ Go(t, "loop")
            /\ UNCHANGED <<held, registered>>
    /\ UNCHANGED <<plugged, plugs, alternate, connections, mutexVars, runtimeVars, target, uses,
                   connectionVars, claimed, dtorVars, ioVars, cancelVars, crashed>>

MarkDisconnected(t) ==
    /\ at[t] = "mark"
    /\ connected' = [c \in Sessions |-> connected[c] /\ c \notin held[t]]
    /\ at' = [a \in Actors |->
                CASE a = t -> "drop"
                  [] a \in Sessions /\ at[a] = "asleep" /\ uses[a] \in held[t] -> "gate"
                  [] OTHER -> at[a]]
    /\ UNCHANGED <<deviceVars, providerVars, runtimeVars, target, uses, made, lease, claimed,
                   dtorVars, held, ioVars, cancelVars, crashed>>

\* device_left returns, and drops its references one after the other.
Drop(t) ==
    /\ at[t] = "drop"
    /\ IF held[t] = {}
       THEN Go(t, "loop") /\ UNCHANGED <<held, made, connected, dropping>>
       ELSE \E c \in held[t] :
              /\ held' = [held EXCEPT ![t] = @ \ {c}]
              /\ IF Users(c) = {t} THEN Destroy(t, c)
                                    ELSE UNCHANGED <<at, made, connected, dropping>>
    /\ UNCHANGED <<deviceVars, providerVars, runtimeVars, target, uses, lease, claimed, closing,
                   joining, ioVars, cancelVars, crashed>>

\* External: the device is unplugged, and plugged in again.  Its structure is used
\* again only when nobody refers to it any more.
Unplug ==
    /\ plugged # None
    /\ plugged' = None
    /\ hotplug' = Append(hotplug, <<"left", plugged>>)
    /\ UNCHANGED <<plugs, alternate, providerVars, runtimeVars, at, target, uses, connectionVars, claimed,
                   dtorVars, held, ioVars, cancelVars, crashed>>

Plug(d) ==
    /\ plugged = None /\ plugs < MaxPlugs
    /\ \A s \in Sessions : target[s] = d => at[s] = "gone" /\ made[s] \in {"no", "dead"}
    /\ \A i \in DOMAIN hotplug : hotplug[i][2] # d
    /\ plugged' = d /\ plugs' = plugs + 1
    /\ hotplug' = Append(hotplug, <<"arrived", d>>)
    /\ UNCHANGED <<alternate, providerVars, runtimeVars, at, target, uses, connectionVars, claimed,
                   dtorVars, held, ioVars, cancelVars, crashed>>

Destructors(a) == EndLease(a) \/ Release(a) \/ CloseHandle(a) \/ Join(a)

\* What a thread inside the library does without being asked.
SessionStep(s) ==
    \/ List(s) \/ Lookup(s) \/ Peek(s) \/ OpenHandle(s) \/ Claim(s) \/ Register(s)
    \/ Acquire(s) \/ FallAsleep(s) \/ WakeByItself(s) \/ Submit(s) \/ Finish(s)
    \/ Destructors(s)

EventStep(t) ==
    \/ Exit(t) \/ Callback(t) \/ Hotplug(t) \/ MarkDisconnected(t) \/ Drop(t) \/ Destructors(t)

Next ==
    \/ \E s \in Sessions : SessionStep(s) \/ Cancel(s) \/ Begin(s) \/ Terminate(s) \/ Close(s)
    \/ \E t \in Threads : EventStep(t) \/ \E s \in Sessions : Complete(t, s)
    \/ Unplug
    \/ \E d \in Devices : Plug(d)

Spec == Init /\ [][Next]_vars

\* Threads run, and libusb delivers events and the end of cancelled transfers.
\* Nothing is assumed of the device and of the callers.
FairSpec ==
    /\ Spec
    /\ \A s \in Sessions : WF_vars(SessionStep(s)) /\ WF_vars(Cancel(s))
    /\ \A t \in Threads :
          /\ WF_vars(EventStep(t))
          /\ \A s \in Sessions : WF_vars(transfer[s] = "cancelled" /\ Complete(t, s))

-----------------------------------------------------------------------------
\* The claim a transport relies on is held as long as it has its connection and its
\* device is there, through every order of opening, closing and unplugging: only
\* the last lease releases it, although a new connection may share the lease of one
\* that is being destroyed (UsbInterfaceArbiter::acquire, ~LibusbConnection).
UsesClaim ==
    \A s \in Sessions :
        LET c == uses[s] IN
        c # None /\ plugged = target[c] => lease[c] # None /\ claimed[plugged] = lease[c]

\* Two sessions never have transfers on the endpoint of one device at a time: each
\* connection has gates of its own, and open_impl never leaves two connections that
\* transfer to the same device (EndpointGate, open_impl).
OneTransfer ==
    \A s, t \in Sessions :
        transfer[s] # "none" /\ transfer[t] # "none" /\ target[uses[s]] = target[uses[t]] => s = t

\* "Several sessions of one physical interface share the device reference, the
\* handle, the claim": a connected transport works on the handle that has the claim.
HandleClaims ==
    \A s \in Sessions :
        LET c == uses[s] IN
        c # None /\ connected[c] /\ plugged = target[c] => claimed[plugged] = c

\* A session opened while its device leaves is marked as disconnected: either
\* device_left finds its connection or open_impl finds that the device has left.
NoLateOpen ==
    \A s \in Sessions :
        LET c == uses[s] IN
        c # None /\ target[c] \in departed_devices =>
            ~connected[c] \/ \E t \in Threads : c \in held[t] /\ at[t] = "mark"

\* While a handle is open there is an event thread that will not stop: transfers
\* and hotplug events are served whatever the order in which handles come and go
\* (retain_handle, close_handle).
EventsServed == open_handles > 0 => events_running /\ events_thread # 0 /\ at[events_thread] # "exited"

\* A terminated call returns although the device is silent: the cancellation finds
\* either no transfer or the active one, and the gate does not hold it for ever.  So
\* there is always a time at which no terminated call is left.
TerminatedReturns == []<>(crashed \/ \A s \in Sessions : op[s] # "completed")

\* viClose of the last handle waits for the event thread, no longer than until
\* another handle is opened: from then on events_running_ is true again for the
\* old thread too, and viClose may wait until that handle is closed.  Nor does it
\* return when an open_impl joins an event thread under mutex_ (EventThreadStops).
CloseReturns ==
    []<>(\/ \A s \in Sessions : at[s] # "join"
         \/ open_handles > 0 \/ crashed
         \/ mutex # None /\ at[mutex] = "join")

\* "The first libusb handle starts the event thread, which stops after the last one
\* is closed."
EventThreadStops ==
    \A t \in Threads :
        at[t] \notin {"none", "exited"} /\ open_handles = 0 ~>
            at[t] = "exited" \/ open_handles > 0 \/ crashed

\* "The hotplug callback intentionally performs no blocking descriptor, handle, or
\* interface operations": the event thread never closes a handle.
HotplugDoesNotBlock == \A t \in Threads : at[t] \notin {"release", "close", "join"}
====
