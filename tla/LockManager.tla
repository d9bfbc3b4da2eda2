---------------------------- MODULE LockManager ----------------------------
(***************************************************************************)
(* LockManager (src/core/lock_manager.cpp): threads that wait in acquire   *)
(* on condition_, and threads that release, cancel or close.               *)
(*                                                                         *)
(* mutex_ is a variable because of the one interval that is not atomic: a  *)
(* waiter evaluates its predicate and then goes to sleep, holding mutex_   *)
(* in between, while an Operation is completed without mutex_.  Every      *)
(* other critical section of the class is one step taken while mutex_ is   *)
(* free.  condition_.wait releases mutex_ and sleeps atomically.           *)
(*                                                                         *)
(* Callers are SessionObject's: acquire is always given an Operation       *)
(* (objects.cpp lock()), a session locks its own resource only, a          *)
(* canceller snapshots the session's registered operations, completes them *)
(* one by one and then calls notify_waiters (cancel_operations()), and     *)
(* release_all comes after every operation of the session has finished     *)
(* (close()).                                                              *)
(***************************************************************************)
EXTENDS LockState, FiniteSets

CONSTANTS
    Callers,      \* threads of the program
    Resources,    \* canonical resource names
    ResourceOf,   \* the resource each session was opened on
    NoThread,
    MaxCalls      \* bound: calls of acquire in a behaviour

ASSUME ResourceOfAssumption == ResourceOf \in [Sessions -> Resources]
ASSUME NoThreadAssumption == NoThread \notin Callers
ASSUME MaxCallsAssumption == MaxCalls \in Nat

VARIABLES
    locks,        \* locks_ : NoLock where the map has no entry
    nextKey,      \* next_key_id_
    mutex,        \* the thread that holds mutex_ across a step, or NoThread
    at,           \* where each thread is
    call,         \* arguments of the thread's acquire
    completed,    \* the thread's Operation has been completed by a canceller
    toCancel,     \* operations a canceller still has to complete
    held,         \* history: levels the callers of each session were granted
                  \* and have not given back
    calls         \* number of calls of acquire so far

lockVars == <<locks, nextKey, mutex, at, call, completed, toCancel, held, calls>>

\* Access keys a caller may present: none, issued ones, and guesses.
Keys == 0 .. MaxCalls

NoCall == [session |-> NoSession, type |-> "none", key |-> NoKey, timed |-> FALSE]

Calls ==
    [session : Sessions, type : LockTypes, key : Keys, timed : BOOLEAN]
        \cup {NoCall}

\* enter     waiting for mutex_ on the way into acquire
\* checked   predicate was false; holds mutex_, about to sleep
\* asleep    in condition_.wait or wait_until
\* woken     notified, waiting for mutex_ to evaluate the predicate again
\* expired   deadline passed, waiting for mutex_ for the last evaluation
\* cancelling, notify   inside cancel_operations
Acquiring == {"enter", "checked", "asleep", "woken", "expired"}
LockPCs == Acquiring \cup {"idle", "cancelling", "notify"}

\* One type invariant: the shape of every variable of LockManager and of its
\* callers.
LockTypeOK ==
    /\ locks \in [Resources -> LockStates]
    /\ nextKey \in Nat \ {0}
    /\ mutex \in Callers \cup {NoThread}
    /\ at \in [Callers -> LockPCs]
    /\ call \in [Callers -> Calls]
    /\ completed \in [Callers -> BOOLEAN]
    /\ toCancel \in [Callers -> SUBSET Callers]
    /\ held \in [Sessions -> Nat]
    /\ calls \in Nat

LockInit ==
    /\ locks = [r \in Resources |-> NoLock]
    /\ nextKey = 1
    /\ mutex = NoThread
    /\ at = [t \in Callers |-> "idle"]
    /\ call = [t \in Callers |-> NoCall]
    /\ completed = [t \in Callers |-> FALSE]
    /\ toCancel = [t \in Callers |-> {}]
    /\ held = [s \in Sessions |-> 0]
    /\ calls = 0

ResourceOfCall(t) == ResourceOf[call[t].session]

Grantable(t) ==
    CanGrant(locks[ResourceOfCall(t)], call[t].session, call[t].type, call[t].key)

\* The wait predicate of acquire.
Predicate(t) == completed[t] \/ Grantable(t)

\* condition_.notify_all(), as an update of at.
WakeAll(p) == [t \in Callers |-> IF p[t] = "asleep" THEN "woken" ELSE p[t]]

-----------------------------------------------------------------------------
\* SessionObject::lock() registers a fresh Operation and calls acquire.  An
\* exclusive request that carries a key is refused before mutex_ is taken and
\* changes nothing.
CallAcquire(t, s, lockType, key, timed) ==
    /\ at[t] = "idle"
    /\ calls < MaxCalls
    /\ lockType = "exclusive" => key = NoKey
    /\ call' = [call EXCEPT ![t] =
                   [session |-> s, type |-> lockType, key |-> key, timed |-> timed]]
    /\ completed' = [completed EXCEPT ![t] = FALSE]
    /\ at' = [at EXCEPT ![t] = "enter"]
    /\ calls' = calls + 1
    /\ UNCHANGED <<locks, nextKey, mutex, toCancel, held>>

\* acquire returns: the Operation leaves the session's table, so a canceller
\* that still has it in its snapshot completes an object nobody looks at.
Return(t) ==
    /\ call' = [call EXCEPT ![t] = NoCall]
    /\ completed' = [completed EXCEPT ![t] = FALSE]
    /\ toCancel' = [u \in Callers |-> toCancel[u] \ {t}]
    /\ at' = [at EXCEPT ![t] = "idle"]

AtPredicate(t) ==
    /\ at[t] \in {"enter", "woken", "expired"}
    /\ mutex = NoThread

\* Predicate false and the deadline has not passed: keep mutex_, then sleep.
CheckFails(t) ==
    /\ AtPredicate(t)
    /\ ~Predicate(t)
    /\ at[t] # "expired"
    /\ mutex' = t
    /\ at' = [at EXCEPT ![t] = "checked"]
    /\ UNCHANGED <<locks, nextKey, call, completed, toCancel, held, calls>>

\* Faulty variant of Sleep: the waiter releases mutex_ before it is asleep.
SleepUnlocked(t) ==
    /\ at[t] = "checked"
    /\ \/ /\ mutex = t
          /\ mutex' = NoThread
          /\ at' = at
       \/ /\ mutex = NoThread
          /\ mutex' = NoThread
          /\ at' = [at EXCEPT ![t] = "asleep"]
    /\ UNCHANGED <<locks, nextKey, call, completed, toCancel, held, calls>>

Sleep(t) ==
    /\ at[t] = "checked"
    /\ mutex' = NoThread
    /\ at' = [at EXCEPT ![t] = "asleep"]
    /\ UNCHANGED <<locks, nextKey, call, completed, toCancel, held, calls>>

\* The deadline passes (only a call with a finite timeout has one).
Expire(t) ==
    /\ at[t] = "asleep"
    /\ call[t].timed
    /\ at' = [at EXCEPT ![t] = "expired"]
    /\ UNCHANGED <<locks, nextKey, mutex, call, completed, toCancel, held, calls>>

\* VI_ERROR_TMO.
ReturnTimeout(t) ==
    /\ AtPredicate(t)
    /\ ~Predicate(t)
    /\ at[t] = "expired"
    /\ Return(t)
    /\ UNCHANGED <<locks, nextKey, mutex, held, calls>>

\* The Operation was completed by a canceller: its result is returned and no
\* lock is taken, grantable or not.
ReturnCancelled(t) ==
    /\ AtPredicate(t)
    /\ completed[t]
    /\ Return(t)
    /\ UNCHANGED <<locks, nextKey, mutex, held, calls>>

\* Faulty variant of NextKey: the counter is not advanced.
SameKey(t) == nextKey

NextKey(t) ==
    IF UsesFreshKey(locks[ResourceOfCall(t)], call[t].type)
      THEN nextKey + 1
      ELSE nextKey

ReturnGranted(t) ==
    /\ AtPredicate(t)
    /\ Grantable(t)
    /\ ~completed[t]
    /\ locks' = [locks EXCEPT ![ResourceOfCall(t)] =
                    Grant(@, call[t].session, call[t].type, nextKey)]
    /\ nextKey' = NextKey(t)
    /\ held' = [held EXCEPT ![call[t].session] = @ + 1]
    /\ Return(t)
    /\ UNCHANGED <<mutex, calls>>

-----------------------------------------------------------------------------
\* Faulty variant of CallRelease: the caller is not asked to own a level.
CallReleaseUnowned(t, s) ==
    LET r == ResourceOf[s] IN
    /\ at[t] = "idle"
    /\ mutex = NoThread
    /\ locks' = [locks EXCEPT ![r] = Release(@, s)]
    /\ held' = [held EXCEPT ![s] = @ - 1]
    /\ at' = IF locks'[r] = NoLock THEN WakeAll(at) ELSE at
    /\ UNCHANGED <<nextKey, mutex, call, completed, toCancel, calls>>

\* release() by a thread that is not inside another call.  Waiters are
\* notified only when the entry is erased.  A session that owns nothing gets
\* VI_ERROR_SESN_NLOCKED and changes nothing.
CallRelease(t, s) ==
    LET r == ResourceOf[s] IN
    /\ at[t] = "idle"
    /\ mutex = NoThread
    /\ OwnedLockDepth(locks[r], s) > 0
    /\ locks' = [locks EXCEPT ![r] = Release(@, s)]
    /\ held' = [held EXCEPT ![s] = @ - 1]
    /\ at' = IF locks'[r] = NoLock THEN WakeAll(at) ELSE at
    /\ UNCHANGED <<nextKey, mutex, call, completed, toCancel, calls>>

\* release_all() from close(): every Operation the session still has is
\* completed, so none of its waiters can be granted a lock any more.
CallReleaseAll(t, s) ==
    LET r == ResourceOf[s] IN
    /\ at[t] = "idle"
    /\ mutex = NoThread
    /\ OwnedLockDepth(locks[r], s) > 0
    /\ \A u \in Callers : call[u].session = s => completed[u]
    /\ locks' = [locks EXCEPT ![r] = ReleaseAll(@, s)]
    /\ held' = [held EXCEPT ![s] = 0]
    /\ at' = WakeAll(at)
    /\ UNCHANGED <<nextKey, mutex, call, completed, toCancel, calls>>

\* cancel_operations(): the snapshot taken under operations_mutex_.
Terminate(t, s) ==
    /\ at[t] = "idle"
    /\ toCancel' = [toCancel EXCEPT ![t] = {u \in Callers : call[u].session = s}]
    /\ at' = [at EXCEPT ![t] = "cancelling"]
    /\ UNCHANGED <<locks, nextKey, mutex, call, completed, held, calls>>

\* Operation::request_cancel on one of them, without mutex_.
RequestCancel(t, u) ==
    /\ at[t] = "cancelling"
    /\ u \in toCancel[t]
    /\ completed' = [completed EXCEPT ![u] = TRUE]
    /\ toCancel' = [toCancel EXCEPT ![t] = @ \ {u}]
    /\ UNCHANGED <<locks, nextKey, mutex, at, call, held, calls>>

CancelDone(t) ==
    /\ at[t] = "cancelling"
    /\ toCancel[t] = {}
    /\ at' = [at EXCEPT ![t] = "notify"]
    /\ UNCHANGED <<locks, nextKey, mutex, call, completed, toCancel, held, calls>>

\* Faulty variant of NotifyWaiters: notify_all without taking mutex_.
NotifyWithoutMutex(t) ==
    /\ at[t] = "notify"
    /\ at' = WakeAll([at EXCEPT ![t] = "idle"])
    /\ UNCHANGED <<locks, nextKey, mutex, call, completed, toCancel, held, calls>>

NotifyWaiters(t) ==
    /\ at[t] = "notify"
    /\ mutex = NoThread
    /\ at' = WakeAll([at EXCEPT ![t] = "idle"])
    /\ UNCHANGED <<locks, nextKey, mutex, call, completed, toCancel, held, calls>>

-----------------------------------------------------------------------------
\* What a thread does by itself once it is inside acquire or
\* cancel_operations.
LockStep(t) ==
    \/ CheckFails(t)
    \/ Sleep(t)
    \/ Expire(t)
    \/ ReturnTimeout(t)
    \/ ReturnCancelled(t)
    \/ ReturnGranted(t)
    \/ \E u \in Callers : RequestCancel(t, u)
    \/ CancelDone(t)
    \/ NotifyWaiters(t)

\* The calls a thread may make next.
LockCall(t) ==
    \E s \in Sessions :
        \/ \E lockType \in LockTypes, key \in Keys, timed \in BOOLEAN :
              CallAcquire(t, s, lockType, key, timed)
        \/ CallRelease(t, s)
        \/ CallReleaseAll(t, s)
        \/ Terminate(t, s)

LockNext == \E t \in Callers : LockStep(t) \/ LockCall(t)

LockSpec == LockInit /\ [][LockNext]_lockVars

\* A thread inside a call keeps running, and a thread that keeps asking for
\* mutex_ gets it (strong fairness: mutex_ is free again and again, never for
\* good).  A deadline passes even if the waiter is woken over and over.
\* Nobody is obliged to make a call.
LockFairness == \A t \in Callers : SF_lockVars(LockStep(t)) /\ SF_lockVars(Expire(t))

LockFairSpec == LockSpec /\ LockFairness

-----------------------------------------------------------------------------
\* A lock in locks_ always has an owner who can give it back: a session with
\* depth > 0, the only one if the lock is exclusive.  (Were the last shared
\* owner's entry kept, no session could ever lock the resource again.)
NoOrphanLock ==
    \A r \in Resources :
        /\ locks[r].type # "none" =>
              \E s \in Sessions : OwnedLockDepth(locks[r], s) > 0
        /\ locks[r].type = "exclusive" =>
              \A s \in Sessions : locks[r].shared_owners[s] = 0

\* The lock manager agrees with its callers: a session's depth is the number
\* of successful acquires of all its threads that were not released, and no
\* session has a level while another one has an exclusive level.
LevelsMatchCallers ==
    \A s \in Sessions :
        /\ OwnedLockDepth(locks[ResourceOf[s]], s) = held[s]
        /\ held[s] > 0 /\ locks[ResourceOf[s]].type = "exclusive" =>
              \A o \in Sessions \ {s} : ResourceOf[o] = ResourceOf[s] => held[o] = 0

\* A key that next_key() issued opens one lock: two resources never carry the
\* same key, and no lock carries a key that is still to be issued.
KeysOpenOneLock ==
    \A r \in Resources : locks[r].type = "shared" =>
        /\ locks[r].shared_key \in 1 .. nextKey - 1
        /\ \A q \in Resources \ {r} :
              locks[q].type = "shared" => locks[q].shared_key # locks[r].shared_key

\* The comment in notify_waiters: a cancellation wake-up is never lost.  A
\* waiter that has been cancelled and sleeps, or is about to, has a canceller
\* that still is to notify it.
NoLostCancel ==
    \A t \in Callers :
        at[t] \in {"checked", "asleep"} /\ completed[t] =>
            \E u \in Callers : at[u] \in {"cancelling", "notify"}

\* Nobody sleeps through a release.  A sleeping request is grantable only
\* through a lock its own session already shares: another thread of the
\* session joined that lock with its key, and joining notifies nobody.
NoLostRelease ==
    \A t \in Callers :
        at[t] \in {"checked", "asleep"} /\ Grantable(t) =>
            /\ call[t].type = "shared"
            /\ OwnsShared(locks[ResourceOfCall(t)], call[t].session)

\* The abstract lock this class implements, read through owned_lock_type and
\* owned_lock_depth.
Abstract == INSTANCE ResourceLock WITH
    mode  <- [r \in Resources |-> [s \in Sessions |-> OwnedLockType(locks[r], s)]],
    depth <- [r \in Resources |-> [s \in Sessions |-> OwnedLockDepth(locks[r], s)]]

\* Every step of the lock manager is a lock, an unlock, a release of all
\* levels by one session, or invisible to the sessions.
ImplementsResourceLock == Abstract!Spec

\* acquire comes back if it was given a finite timeout or its Operation is
\* cancelled, whatever the other threads do.
AcquireReturns ==
    \A t \in Callers :
        at[t] \in Acquiring /\ (call[t].timed \/ completed[t]) ~> at[t] = "idle"
=============================================================================
