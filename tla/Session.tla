------------------------------ MODULE Session ------------------------------
(***************************************************************************)
(* SessionObject (src/core/objects.cpp) and Operation                      *)
(* (src/runtime/operation.cpp): the calls of several threads on sessions   *)
(* of one resource, with the process-wide lock, the lock on the device     *)
(* behind the HiSLIP and VXI-11 backends, cancellation and close.          *)
(*                                                                         *)
(* A step is one critical section of operations_mutex_ or of the lock      *)
(* manager, one compare-and-swap of an Operation, or one call of the       *)
(* backend.  LockManager shows how acquire waits; here it is one step that *)
(* is taken when the lock can be granted, or when the wait is over.        *)
(***************************************************************************)
EXTENDS LockState, FiniteSets

CONSTANTS
    Threads,
    Backends,       \* kinds of backend to consider
    LoseAnswers,    \* whether an answer of the device may come too late
    MaxCalls        \* bound: calls of the API in a behaviour

ASSUME BackendsAssumption == Backends \subseteq {"hislip", "vxi11", "local"}
ASSUME LoseAnswersAssumption == LoseAnswers \in BOOLEAN
ASSUME MaxCallsAssumption == MaxCalls \in Nat

VARIABLES
    lock,         \* locks_[resource] of the lock manager
    nextKey,      \* next_key_id_
    backend,      \* the backend behind the resource's sessions
    remote,       \* the lock each session's link has on the device
    believed,     \* remote_locked_ of the HiSLIP backend
    connected,    \* the backend has not been closed
    alive,        \* the session's handle is in the handle table
    closed,       \* closed_
    operations,   \* operations_ : the threads with a registered Operation
    op,           \* result_ of the thread's Operation
    pc, call,     \* where each thread is, and its local variables
    toCancel,     \* the snapshot cancel_operations still has to work through
    held,         \* history: levels granted to callers and not given back
    disturbed,    \* history: sessions whose lock() or unlock() was cancelled,
                  \* lost an answer, or overlapped another one
    calls

lockVars == <<lock, nextKey, held>>
deviceVars == <<backend, remote, believed, connected>>
sessionVars == <<alive, closed, operations>>
vars == <<lockVars, deviceVars, sessionVars, op, pc, call, toCancel, disturbed, calls>>

NoCall == [session |-> NoSession, type |-> "none", depth |-> 0, status |-> "none"]

Locking   == {"lock", "depth", "acquire", "remote", "rollback", "complete"}
Unlocking == {"unlock", "nested", "begin", "device", "answer", "release"}
Io        == {"access", "io", "io_check", "io_busy"}
Closing   == {"close", "backend", "drain", "forget"}
PCs == Locking \cup Unlocking \cup Io \cup Closing
          \cup {"idle", "finish", "terminate", "cancelling"}

\* transfer: read, write and usb_control;  command: clear, flush, read_stb and
\* assert_trigger.
IoKinds == {"transfer", "command"}

\* What a call may report: success, VI_ERROR_SESN_NLOCKED, another error.
Statuses == {"none", "ok", "nlocked", "error"}

\* One type invariant for sessions, operations and threads.
TypeOK ==
    /\ lock \in LockStates
    /\ nextKey \in Nat \ {0}
    /\ backend \in Backends
    /\ remote \in [Sessions -> LockTypes \cup {"none"}]
    /\ believed \in [Sessions -> BOOLEAN]
    /\ connected \in [Sessions -> BOOLEAN]
    /\ alive \in [Sessions -> BOOLEAN]
    /\ closed \in [Sessions -> BOOLEAN]
    /\ operations \in [Sessions -> SUBSET Threads]
    /\ op \in [Threads -> {"none", "pending", "aborted", "done"}]
    /\ pc \in [Threads -> PCs]
    /\ call \in [Threads -> [session : Sessions \cup {NoSession},
                             type    : LockTypes \cup IoKinds \cup {"none"},
                             depth   : Nat,
                             status  : Statuses]]
    /\ toCancel \in [Threads -> SUBSET Threads]
    /\ held \in [Sessions -> Nat]
    /\ disturbed \in SUBSET Sessions
    /\ calls \in Nat

Init ==
    /\ lock = NoLock
    /\ nextKey = 1
    /\ backend \in Backends
    /\ remote = [s \in Sessions |-> "none"]
    /\ believed = [s \in Sessions |-> FALSE]
    /\ connected = [s \in Sessions |-> TRUE]
    /\ alive = [s \in Sessions |-> TRUE]
    /\ closed = [s \in Sessions |-> FALSE]
    /\ operations = [s \in Sessions |-> {}]
    /\ op = [t \in Threads |-> "none"]
    /\ pc = [t \in Threads |-> "idle"]
    /\ call = [t \in Threads |-> NoCall]
    /\ toCancel = [t \in Threads |-> {}]
    /\ held = [s \in Sessions |-> 0]
    /\ disturbed = {}
    /\ calls = 0

Session(t) == call[t].session
Depth(s) == OwnedLockDepth(lock, s)
Goto(t, place) == pc' = [pc EXCEPT ![t] = place]
Report(t, status) == call' = [call EXCEPT ![t].status = status]

\* try_complete: the first status of an Operation stays.
TryComplete(t) == op' = [op EXCEPT ![t] = IF @ = "pending" THEN "done" ELSE @]

-----------------------------------------------------------------------------
\* The API finds the session behind a handle and calls the method.  The object
\* stays usable for this thread even if the handle is closed meanwhile.
CallApi(t, s, method, lockType) ==
    /\ pc[t] = "idle"
    /\ alive[s]
    /\ calls < MaxCalls
    /\ calls' = calls + 1
    /\ Goto(t, method)
    /\ call' = [call EXCEPT ![t] = [NoCall EXCEPT !.session = s, !.type = lockType]]
    /\ disturbed' = IF /\ method \in {"lock", "unlock"}
                       /\ \E u \in Threads : /\ Session(u) = s
                                             /\ pc[u] \in Locking \cup Unlocking
                      THEN disturbed \cup {s}
                      ELSE disturbed
    /\ UNCHANGED <<lockVars, deviceVars, sessionVars, op, toCancel>>

\* viClose takes the handle out of the table first.
CallClose(t, s) ==
    /\ pc[t] = "idle"
    /\ alive[s]
    /\ alive' = [alive EXCEPT ![s] = FALSE]
    /\ Goto(t, "close")
    /\ call' = [call EXCEPT ![t] = [NoCall EXCEPT !.session = s]]
    /\ UNCHANGED <<lockVars, deviceVars, closed, operations, op, toCancel, disturbed, calls>>

\* begin_operation: on a closed session the Operation is born cancelled and is
\* not registered.
BeginOperation(t, place) ==
    LET s == Session(t) IN
    /\ op' = [op EXCEPT ![t] = IF closed[s] THEN "aborted" ELSE "pending"]
    /\ operations' = [operations EXCEPT ![s] = IF closed[s] THEN @ ELSE @ \cup {t}]
    /\ Goto(t, place)
    /\ UNCHANGED <<lockVars, deviceVars, alive, closed, call, toCancel, disturbed, calls>>

\* finish_operation, run by OperationFinish when the method returns.
FinishOperation(t) ==
    /\ pc[t] = "finish"
    /\ operations' = [s \in Sessions |-> operations[s] \ {t}]
    /\ op' = [op EXCEPT ![t] = "none"]
    /\ toCancel' = [u \in Threads |-> toCancel[u] \ {t}]
    /\ call' = [call EXCEPT ![t] = NoCall]
    /\ Goto(t, "idle")
    /\ UNCHANGED <<lockVars, deviceVars, alive, closed, disturbed, calls>>

-----------------------------------------------------------------------------
\* lock(): begin_operation, and back at once if the session is closed.
BeginLock(t) ==
    /\ pc[t] = "lock"
    /\ BeginOperation(t, "depth")

LockOnClosed(t) ==
    /\ pc[t] = "depth"
    /\ op[t] # "pending"
    /\ Goto(t, "finish")
    /\ Report(t, "error")
    /\ UNCHANGED <<lockVars, deviceVars, sessionVars, op, toCancel, disturbed, calls>>

\* previous_depth is read before the lock is asked for.
PreviousDepth(t) ==
    /\ pc[t] = "depth"
    /\ op[t] = "pending"
    /\ call' = [call EXCEPT ![t].depth = Depth(Session(t))]
    /\ Goto(t, "acquire")
    /\ UNCHANGED <<lockVars, deviceVars, sessionVars, op, toCancel, disturbed, calls>>

\* LockManager::acquire succeeds; a shared request carries the lock's key or
\* none.
Acquire(t, key) ==
    LET s == Session(t) IN
    /\ pc[t] = "acquire"
    /\ op[t] = "pending"
    /\ CanGrant(lock, s, call[t].type, key)
    /\ lock' = Grant(lock, s, call[t].type, nextKey)
    /\ nextKey' = IF UsesFreshKey(lock, call[t].type) THEN nextKey + 1 ELSE nextKey
    /\ Goto(t, IF call[t].depth = 0 THEN "remote" ELSE "complete")
    /\ Report(t, "ok")
    /\ UNCHANGED <<deviceVars, sessionVars, op, toCancel, held, disturbed, calls>>

\* acquire comes back without a lock, because the Operation was cancelled or the
\* time is up; the status loses against an earlier completion.
AcquireFails(t) ==
    /\ pc[t] = "acquire"
    /\ TryComplete(t)
    /\ Goto(t, "finish")
    /\ Report(t, "error")
    /\ UNCHANGED <<lockVars, deviceVars, sessionVars, toCancel, disturbed, calls>>

\* The device grants s a lock if no other link is in the way.
DeviceFree(s, lockType) ==
    \A o \in Sessions \ {s} :
        remote[o] = "none" \/ (lockType = "shared" /\ remote[o] = "shared")

\* HiSLIP locks the device in both modes, VXI-11 exclusively only, and the other
\* backends not at all.
LocksDevice(t) ==
    \/ backend = "hislip"
    \/ backend = "vxi11" /\ call[t].type = "exclusive"

RemoteLock(t) ==
    LET s == Session(t) IN
    /\ pc[t] = "remote"
    /\ Goto(t, "complete")
    /\ IF LocksDevice(t)
         THEN /\ connected[s]
              /\ DeviceFree(s, call[t].type)
              /\ remote' = [remote EXCEPT ![s] = call[t].type]
              /\ believed' = [believed EXCEPT ![s] = backend = "hislip"]
         ELSE UNCHANGED <<remote, believed>>
    /\ UNCHANGED <<lockVars, backend, connected, sessionVars, op, call, toCancel, disturbed, calls>>

\* backend->lock fails.  The device has refused, or the exchange failed or timed out,
\* which completes the Operation: the device may have granted the lock all the same,
\* in an answer that came after the request was given up.
RemoteLockFails(t) ==
    LET s == Session(t) IN
    /\ pc[t] = "remote"
    /\ LocksDevice(t)
    /\ Goto(t, "rollback")
    /\ Report(t, "error")
    /\ \/ UNCHANGED <<remote, disturbed, op>>
       \/ TryComplete(t) /\ UNCHANGED <<remote, disturbed>>
       \/ /\ LoseAnswers
          /\ connected[s]
          /\ DeviceFree(s, call[t].type)
          /\ remote' = [remote EXCEPT ![s] = call[t].type]
          /\ disturbed' = disturbed \cup {s}
          /\ TryComplete(t)
    /\ UNCHANGED <<lockVars, backend, believed, connected, sessionVars, toCancel, calls>>

\* Faulty variant of Rollback: the local level is kept.
RollbackNothing(t) ==
    /\ pc[t] = "rollback"
    /\ Goto(t, "complete")
    /\ UNCHANGED <<lockVars, deviceVars, sessionVars, op, call, toCancel, disturbed, calls>>

\* The local level is given back when the device refuses.
Rollback(t) ==
    /\ pc[t] = "rollback"
    /\ lock' = Release(lock, Session(t))
    /\ Goto(t, "complete")
    /\ UNCHANGED <<nextKey, held, deviceVars, sessionVars, op, call, toCancel, disturbed, calls>>

\* try_complete at the end of lock(): the caller has the lock, or its status.
CompleteLock(t) ==
    LET s == Session(t) IN
    /\ pc[t] = "complete"
    /\ op[t] = "pending"
    /\ op' = [op EXCEPT ![t] = "done"]
    /\ held' = [held EXCEPT ![s] = IF call[t].status = "ok" THEN @ + 1 ELSE @]
    /\ Goto(t, "finish")
    /\ UNCHANGED <<lock, nextKey, deviceVars, sessionVars, call, toCancel, disturbed, calls>>

\* try_complete loses against a cancellation or a failed exchange: one level is
\* released, after a rollback too, and the device is not told.
CompleteLockLoses(t) ==
    /\ pc[t] = "complete"
    /\ op[t] # "pending"
    /\ lock' = Release(lock, Session(t))
    /\ Goto(t, "finish")
    /\ Report(t, "error")
    /\ UNCHANGED <<nextKey, held, deviceVars, sessionVars, op, toCancel, disturbed, calls>>

-----------------------------------------------------------------------------
\* unlock(): by the depth it reads first, nothing to do, one of several levels,
\* or the last level.
UnlockDepth(t) ==
    LET d == Depth(Session(t)) IN
    /\ pc[t] = "unlock"
    /\ Goto(t, CASE d = 0 -> "finish" [] d = 1 -> "begin" [] OTHER -> "nested")
    /\ Report(t, IF d = 0 THEN "nlocked" ELSE "ok")
    /\ UNCHANGED <<lockVars, deviceVars, sessionVars, op, toCancel, disturbed, calls>>

\* Faulty variant of ReleaseLevel: the owner of the lock is not compared.
ReleaseAnyLevel(t) ==
    LET s == Session(t) IN
    /\ pc[t] \in {"nested", "release"}
    /\ lock' = [lock EXCEPT !.exclusive_depth = @ - 1]
    /\ held' = [held EXCEPT ![s] = IF @ > 0 THEN @ - 1 ELSE @]
    /\ Report(t, "ok")
    /\ Goto(t, "finish")
    /\ UNCHANGED <<nextKey, deviceVars, sessionVars, op, toCancel, disturbed, calls>>

\* LockManager::release at the end of unlock().
ReleaseLevel(t) ==
    LET s == Session(t) IN
    /\ pc[t] \in {"nested", "release"}
    /\ lock' = Release(lock, s)
    /\ held' = [held EXCEPT ![s] = IF @ > 0 /\ Depth(s) > 0 THEN @ - 1 ELSE @]
    /\ Report(t, IF Depth(s) = 0 THEN "nlocked" ELSE "ok")
    /\ Goto(t, "finish")
    /\ UNCHANGED <<nextKey, deviceVars, sessionVars, op, toCancel, disturbed, calls>>

BeginUnlock(t) ==
    /\ pc[t] = "begin"
    /\ BeginOperation(t, "device")

\* backend->unlock succeeds: the HiSLIP backend sends nothing unless it believes
\* the device is locked.
RemoteUnlock(t) ==
    LET s == Session(t) IN
    /\ pc[t] = "device"
    /\ \/ /\ \/ backend = "local"
             \/ backend = "hislip" /\ ~believed[s]
          /\ UNCHANGED <<remote, believed>>
       \/ /\ connected[s]
          /\ remote[s] # "none"
          /\ backend = "hislip" => believed[s]
          /\ remote' = [remote EXCEPT ![s] = "none"]
          /\ believed' = [believed EXCEPT ![s] = FALSE]
    /\ Report(t, "ok")
    /\ Goto(t, "answer")
    /\ UNCHANGED <<lockVars, backend, connected, sessionVars, op, toCancel, disturbed, calls>>

\* backend->unlock fails: a link that has no lock is told so (error 12 of
\* VXI-11), a broken link or a cancelled request ends in another error, and the
\* answer to a request that did unlock the device may be lost.
RemoteUnlockFails(t) ==
    LET s == Session(t) IN
    /\ pc[t] = "device"
    /\ backend # "local"
    /\ backend = "hislip" => believed[s]
    /\ \/ /\ connected[s]
          /\ remote[s] = "none"
          /\ Report(t, "nlocked")
          /\ UNCHANGED <<remote, disturbed, op>>
       \/ /\ Report(t, "error")
          /\ TryComplete(t)
          /\ UNCHANGED <<remote, disturbed>>
       \/ /\ LoseAnswers
          /\ connected[s]
          /\ remote' = [remote EXCEPT ![s] = "none"]
          /\ disturbed' = disturbed \cup {s}
          /\ TryComplete(t)
          /\ Report(t, "error")
    /\ Goto(t, "answer")
    /\ UNCHANGED <<lockVars, backend, believed, connected, sessionVars, toCancel, calls>>

\* try_complete in unlock(): the local level is released only if the device is
\* unlocked and the call was not cancelled.
CompleteUnlock(t) ==
    /\ pc[t] = "answer"
    /\ TryComplete(t)
    /\ IF op[t] = "pending" /\ call[t].status = "ok"
         THEN Goto(t, "release") /\ UNCHANGED call
         ELSE /\ Goto(t, "finish")
              /\ Report(t, IF op[t] = "pending" THEN call[t].status ELSE "error")
    /\ UNCHANGED <<lockVars, deviceVars, sessionVars, toCancel, disturbed, calls>>

-----------------------------------------------------------------------------
\* Permission is looked at once, before the Operation exists.
CheckAccess(t) ==
    /\ pc[t] = "access"
    /\ IF CanAccess(lock, Session(t))
         THEN Goto(t, "io") /\ UNCHANGED call
         ELSE Goto(t, "finish") /\ Report(t, "error")
    /\ UNCHANGED <<lockVars, deviceVars, sessionVars, op, toCancel, disturbed, calls>>

BeginIo(t) ==
    /\ pc[t] = "io"
    /\ BeginOperation(t, "io_check")

\* A transfer returns if its Operation is completed already; a command goes on to
\* the backend all the same.
CheckIo(t) ==
    /\ pc[t] = "io_check"
    /\ Goto(t, IF call[t].type = "transfer" /\ op[t] # "pending" THEN "finish" ELSE "io_busy")
    /\ UNCHANGED <<lockVars, deviceVars, sessionVars, op, call, toCancel, disturbed, calls>>

\* The backend ends the transfer, for data, an error, the time or a cancellation,
\* and the status is the Operation's unless that was completed before.
IoReturns(t) ==
    /\ pc[t] = "io_busy"
    /\ TryComplete(t)
    /\ Goto(t, "finish")
    /\ UNCHANGED <<lockVars, deviceVars, sessionVars, call, toCancel, disturbed, calls>>

-----------------------------------------------------------------------------
\* Operation::request_cancel on the Operations of a set of threads.
Abort(us) ==
    op' = [u \in Threads |-> IF u \in us /\ op[u] = "pending" THEN "aborted" ELSE op[u]]

\* cancel_operations: the snapshot, then one operation after the other.
Snapshot(t) ==
    /\ pc[t] = "terminate"
    /\ toCancel' = [toCancel EXCEPT ![t] = operations[Session(t)]]
    /\ Goto(t, "cancelling")
    /\ UNCHANGED <<lockVars, deviceVars, sessionVars, op, call, disturbed, calls>>

RequestCancel(t, u) ==
    /\ pc[t] = "cancelling"
    /\ u \in toCancel[t]
    /\ Abort({u})
    /\ toCancel' = [toCancel EXCEPT ![t] = @ \ {u}]
    /\ disturbed' = IF op[u] = "pending" /\ pc[u] \in Locking \cup Unlocking
                      THEN disturbed \cup {Session(u)}
                      ELSE disturbed
    /\ UNCHANGED <<lockVars, deviceVars, sessionVars, pc, call, calls>>

TerminateDone(t) ==
    /\ pc[t] = "cancelling"
    /\ toCancel[t] = {}
    /\ Goto(t, "finish")
    /\ UNCHANGED <<lockVars, deviceVars, sessionVars, op, call, toCancel, disturbed, calls>>

\* Faulty variant of BeginClose: the operations in flight are not cancelled.
BeginCloseQuietly(t) ==
    /\ pc[t] = "close"
    /\ closed' = [closed EXCEPT ![Session(t)] = TRUE]
    /\ Goto(t, "backend")
    /\ UNCHANGED <<lockVars, deviceVars, alive, operations, op, call, toCancel, disturbed, calls>>

\* close(): closed_ and the cancellation of everything registered in one critical
\* section.
BeginClose(t) ==
    LET s == Session(t) IN
    /\ pc[t] = "close"
    /\ closed' = [closed EXCEPT ![s] = TRUE]
    /\ Abort(operations[s])
    /\ Goto(t, "backend")
    /\ UNCHANGED <<lockVars, deviceVars, alive, operations, call, toCancel, disturbed, calls>>

\* backend->close: the link is gone, and with it its lock on the device.
CloseBackend(t) ==
    LET s == Session(t) IN
    /\ pc[t] = "backend"
    /\ connected' = [connected EXCEPT ![s] = FALSE]
    /\ remote' = [remote EXCEPT ![s] = "none"]
    /\ Goto(t, "drain")
    /\ UNCHANGED <<lockVars, backend, believed, sessionVars, op, call, toCancel, disturbed, calls>>

\* Faulty variant of Drain: close() does not wait.
DrainNothing(t) ==
    /\ pc[t] = "drain"
    /\ Goto(t, "forget")
    /\ UNCHANGED <<lockVars, deviceVars, sessionVars, op, call, toCancel, disturbed, calls>>

\* Wait until operations_ is empty.
Drain(t) ==
    /\ pc[t] = "drain"
    /\ operations[Session(t)] = {}
    /\ Goto(t, "forget")
    /\ UNCHANGED <<lockVars, deviceVars, sessionVars, op, call, toCancel, disturbed, calls>>

\* release_all.
ForgetLocks(t) ==
    LET s == Session(t) IN
    /\ pc[t] = "forget"
    /\ lock' = ReleaseAll(lock, s)
    /\ held' = [held EXCEPT ![s] = 0]
    /\ Goto(t, "finish")
    /\ UNCHANGED <<nextKey, deviceVars, sessionVars, op, call, toCancel, disturbed, calls>>

-----------------------------------------------------------------------------
\* Steps that come to pass without anybody else.
Step(t) ==
    \/ BeginLock(t) \/ LockOnClosed(t) \/ PreviousDepth(t)
    \/ Rollback(t) \/ CompleteLock(t) \/ CompleteLockLoses(t)
    \/ UnlockDepth(t) \/ ReleaseLevel(t) \/ BeginUnlock(t) \/ CompleteUnlock(t)
    \/ CheckAccess(t) \/ BeginIo(t) \/ CheckIo(t)
    \/ Snapshot(t) \/ (\E u \in Threads : RequestCancel(t, u)) \/ TerminateDone(t)
    \/ BeginClose(t) \/ CloseBackend(t) \/ Drain(t) \/ ForgetLocks(t)
    \/ FinishOperation(t)

\* Steps in which a thread may wait for a lock or for the device.
Wait(t) ==
    \/ \E key \in {NoKey, lock.shared_key} : Acquire(t, key)
    \/ AcquireFails(t)
    \/ RemoteLock(t) \/ RemoteLockFails(t)
    \/ RemoteUnlock(t) \/ RemoteUnlockFails(t)
    \/ IoReturns(t)

Call(t) ==
    \E s \in Sessions :
        \/ \E lockType \in LockTypes : CallApi(t, s, "lock", lockType)
        \/ CallApi(t, s, "unlock", "none")
        \/ \E kind \in IoKinds : CallApi(t, s, "access", kind)
        \/ CallApi(t, s, "terminate", "none")
        \/ CallClose(t, s)

Next == \E t \in Threads : Step(t) \/ Wait(t) \/ Call(t)

Spec == Init /\ [][Next]_vars

\* Threads inside a call go on.  Nobody has to answer a waiting thread, until
\* its Operation is completed: then acquire and the backend return.
Fairness ==
    \A t \in Threads :
        /\ WF_vars(Step(t))
        /\ WF_vars(op[t] = "aborted" /\ Wait(t))

FairSpec == Spec /\ Fairness

-----------------------------------------------------------------------------
Inside(s) == {t \in Threads : Session(t) = s}

\* When close() has returned, the session owns no level of the lock, has no
\* Operation that anybody could wait for, has no lock on the device, and no
\* thread is in the backend for one of its locks, reads or writes.
ClosedIsQuiet ==
    \A s \in Sessions :
        ~alive[s] /\ (\A t \in Inside(s) : pc[t] \notin Closing) =>
            /\ Depth(s) = 0
            /\ operations[s] = {}
            /\ remote[s] = "none"
            /\ \A t \in Inside(s) :
                  /\ pc[t] \notin {"acquire", "remote", "rollback", "complete"}
                  /\ pc[t] = "io_busy" => call[t].type = "command"

\* ADR 0007 for a session that one thread at a time locks and unlocks, that is
\* not cancelled there and that loses no answer: between calls, the device is
\* locked exactly while the session owns the lock, in the mode the backend can
\* map, and the depth is what the callers were told.
QuietSessionsAgree ==
    \A s \in Sessions \ disturbed :
        alive[s] /\ (\A t \in Inside(s) : pc[t] \notin Locking \cup Unlocking) =>
            /\ Depth(s) = held[s]
            /\ remote[s] = CASE backend = "hislip" -> OwnedLockType(lock, s)
                             [] backend = "vxi11" /\ OwnsExclusive(lock, s) -> "exclusive"
                             [] OTHER -> "none"

MustReturn(t) ==
    \/ pc[t] \in Closing
    \/ pc[t] # "idle" /\ Session(t) # NoSession /\ closed[Session(t)]
    \/ op[t] = "aborted"

\* close() returns, however many calls are blocked in the session; so does every
\* call whose Operation was cancelled or whose session is closed.  A call that must
\* return must do so until it has: there is always a time at which none is left.
BlockedCallsReturn == []<>(\A t \in Threads : ~MustReturn(t))

-----------------------------------------------------------------------------
\* ADR 0007, "the last unlock releases the remote lock": between calls, a session
\* that owns no level of the lock has no lock on the device either.
RemoteLockFollowsLocal ==
    \A s \in Sessions :
        alive[s] /\ Inside(s) = {} /\ Depth(s) = 0 => remote[s] = "none"

\* viStatusDesc on VI_ERROR_SESN_NLOCKED, "The session does not own a lock.":
\* that is so when unlock() returns it, with no other thread around.
NotLockedMeansNoLock ==
    \A t \in Threads :
        pc[t] = "finish" /\ call[t].status = "nlocked" => Depth(Session(t)) = 0
=============================================================================
