--------------------------- MODULE SessionProofs ---------------------------
(***************************************************************************)
(* Proofs about Session, for any number of threads, sessions and calls.    *)
(*                                                                         *)
(* ThreadInv is about one thread: a call that may still lock or read has   *)
(* its Operation in operations_, and on a closed session that Operation is *)
(* not pending.  CloseInv follows a session from viClose to the end of     *)
(* close().  QuietInv says, for every point of lock() and unlock(), how    *)
(* far the depth, the lock on the device and what the backend believes are *)
(* from the agreement that QuietSessionsAgree states between calls.        *)
(***************************************************************************)
EXTENDS Session, LockStateProofs

\* Calls that have looked at their Operation and go on.
Registered(t) ==
    \/ pc[t] \in {"acquire", "remote", "rollback", "complete"}
    \/ pc[t] = "io_busy" /\ call[t].type = "transfer"
    \/ op[t] = "pending"

ThreadInv(t) ==
    /\ pc[t] = "idle" => Session(t) = NoSession
    /\ pc[t] # "idle" => Session(t) \in Sessions
    /\ pc[t] \in Locking => call[t].type \in LockTypes
    /\ pc[t] \in Io => call[t].type \in IoKinds
    /\ Registered(t) => pc[t] # "idle" /\ t \in operations[Session(t)]
    /\ \A s \in Sessions : t \in operations[s] => Session(t) = s
    /\ op[t] = "pending" => ~closed[Session(t)]

\* From viClose on: the handle is dead, then the session is closed, then the link
\* to the device, then the Operations are gone, then the lock.
CloseInv(s) ==
    /\ closed[s] => ~alive[s]
    /\ ~connected[s] => closed[s] /\ remote[s] = "none"
    /\ \A t \in Inside(s) :
          /\ pc[t] \in Closing => ~alive[s] /\ \A u \in Inside(s) : pc[u] \in Closing => u = t
          /\ pc[t] \in {"backend", "drain", "forget"} => closed[s]
          /\ pc[t] \in {"drain", "forget"} => ~connected[s]
          /\ pc[t] = "forget" => operations[s] = {}
    /\ ~alive[s] /\ (\A t \in Inside(s) : pc[t] \notin Closing) =>
          closed[s] /\ ~connected[s] /\ operations[s] = {} /\ Depth(s) = 0

Mode(s) == OwnedLockType(lock, s)

\* The lock the device has for a session that owns a lock of type mode.
Mapped(mode) == IF backend = "hislip" \/ (backend = "vxi11" /\ mode = "exclusive") THEN mode ELSE "none"

\* What the device has, and what the backend thinks it has.
Device(s, mode) == remote[s] = mode /\ (believed[s] <=> backend = "hislip" /\ mode # "none")

Agree(s) == Depth(s) = held[s] /\ Device(s, Mapped(Mode(s)))

\* The state of session s while thread t is in lock() or unlock().
Doing(t, s) ==
    /\ pc[t] \in {"lock", "unlock"} => Agree(s)
    /\ pc[t] = "depth" => Agree(s) /\ op[t] = "pending"
    /\ pc[t] = "acquire" => Agree(s) /\ op[t] = "pending" /\ call[t].depth = Depth(s)
    /\ pc[t] = "remote" =>
          /\ op[t] = "pending" /\ call[t].status = "ok"
          /\ held[s] = 0 /\ Depth(s) = 1 /\ Mode(s) = call[t].type /\ Device(s, "none")
    /\ pc[t] = "rollback" =>
          /\ call[t].status = "error"
          /\ held[s] = 0 /\ Depth(s) = 1 /\ Device(s, "none")
    /\ pc[t] = "complete" =>
          IF call[t].status = "ok"
            THEN op[t] = "pending" /\ Depth(s) = held[s] + 1 /\ Device(s, Mapped(Mode(s)))
            ELSE Agree(s) /\ Depth(s) = 0
    /\ pc[t] = "nested" => Agree(s) /\ Depth(s) > 1
    /\ pc[t] = "begin" => Agree(s) /\ Depth(s) = 1
    /\ pc[t] = "device" => Agree(s) /\ Depth(s) = 1 /\ op[t] = "pending"
    /\ pc[t] = "answer" =>
          IF call[t].status = "ok"
            THEN op[t] = "pending" /\ held[s] = 1 /\ Depth(s) = 1 /\ Device(s, "none")
            ELSE Agree(s)
    /\ pc[t] = "release" => held[s] = 1 /\ Depth(s) = 1 /\ Device(s, "none")

Lockers(s) == {t \in Threads : Session(t) = s /\ pc[t] \in Locking \cup Unlocking}

QuietInv(s) ==
    s \notin disturbed /\ alive[s] =>
        /\ \A t, u \in Lockers(s) : t = u
        /\ Lockers(s) = {} => Agree(s)
        /\ \A t \in Lockers(s) : Doing(t, s)

SessionInv ==
    /\ TypeOK
    /\ WellFormed(lock)
    /\ \A t \in Threads : ThreadInv(t)
    /\ \A s \in Sessions : CloseInv(s) /\ QuietInv(s)

USE NoSessionAssumption

-----------------------------------------------------------------------------
\* What a session is to the rest: a step that leaves all of it alone.
SameLock(s) ==
    /\ Depth(s)' = Depth(s) /\ Mode(s)' = Mode(s) /\ held'[s] = held[s]
    /\ remote'[s] = remote[s] /\ believed'[s] = believed[s]

SameSession(s) ==
    /\ SameLock(s)
    /\ alive'[s] = alive[s] /\ closed'[s] = closed[s] /\ connected'[s] = connected[s]
    /\ operations'[s] = operations[s]
    /\ s \in disturbed => s \in disturbed'

\* A step of thread t in session s: other threads and other sessions stay as they
\* are, but for a cancellation.
Moves(t, s) ==
    /\ backend' = backend
    /\ Session(t) \in {s, NoSession} /\ Session(t)' \in {s, NoSession}
    /\ \A u \in Threads \ {t} :
          /\ pc'[u] = pc[u] /\ call'[u] = call[u]
          /\ \A o \in Sessions : u \in operations'[o] <=> u \in operations[o]
          /\ op'[u] = op[u] \/ (op[u] = "pending" /\ op'[u] = "aborted")
          /\ pc[u] \in Locking \cup Unlocking =>
                op'[u] = op[u] \/ Session(u) = s \/ Session(u) \in disturbed'
          /\ op'[u] = "pending" => closed'[Session(u)] = closed[Session(u)]
    /\ \A o \in Sessions \ {s} : SameSession(o)

\* The other threads and the other sessions after a step.
LEMMA FrameInv ==
    ASSUME SessionInv, TypeOK', NEW t \in Threads, NEW s \in Sessions, Moves(t, s)
    PROVE  /\ \A u \in Threads \ {t} : ThreadInv(u)'
           /\ \A o \in Sessions \ {s} : CloseInv(o)' /\ QuietInv(o)'
<1>1. ASSUME NEW u \in Threads \ {t} PROVE ThreadInv(u)'
  <2>1. ThreadInv(u) /\ Session(u)' = Session(u)
    BY DEF SessionInv, Moves, Session
  <2>. QED
    BY <2>1 DEF Moves, ThreadInv, Registered
<1>2. ASSUME NEW o \in Sessions \ {s} PROVE CloseInv(o)' /\ QuietInv(o)'
  <2>1. /\ CloseInv(o) /\ QuietInv(o) /\ SameSession(o) /\ backend' = backend
    BY DEF SessionInv, Moves
  <2>2. t \notin Inside(o) /\ t \notin Inside(o)'
    BY DEF Moves, Inside
  <2>3. \A u \in Threads : (u \in Inside(o)' <=> u \in Inside(o)) /\ (u \in Inside(o) => pc'[u] = pc[u])
    BY <2>2 DEF Moves, Inside, Session
  <2>4. CloseInv(o)'
    BY <2>1, <2>3 DEF CloseInv, SameSession, SameLock, Inside
  <2>5. \A u \in Threads : u \in Lockers(o)' <=> u \in Lockers(o)
    BY <2>3 DEF Lockers, Inside
  <2>6. Mapped(Mode(o))' = Mapped(Mode(o))
    BY <2>1 DEF Mapped, SameSession, SameLock
  <2>7. \A m : Device(o, m)' <=> Device(o, m)
    BY <2>1 DEF Device, SameSession, SameLock
  <2>8. Agree(o)' <=> Agree(o)
    BY <2>1, <2>6, <2>7 DEF Agree, Device, SameSession, SameLock
  <2>9. ASSUME o \notin disturbed', NEW u \in Lockers(o), Doing(u, o) PROVE Doing(u, o)'
    <3>1. pc'[u] = pc[u] /\ call'[u] = call[u] /\ op'[u] = op[u]
      BY <2>2, <2>9 DEF Lockers, Moves, Inside
    <3>. QED
      BY <2>1, <2>6, <2>8, <2>9, <3>1 DEF Doing, SameSession, SameLock, Device
  <2>10. QuietInv(o)'
    <3>. SUFFICES ASSUME o \notin disturbed', alive'[o]
                  PROVE  /\ \A u, v \in Lockers(o)' : u = v
                         /\ Lockers(o)' = {} => Agree(o)'
                         /\ \A u \in Lockers(o)' : Doing(u, o)'
      BY DEF QuietInv
    <3>1. o \notin disturbed /\ alive[o]
      BY <2>1 DEF SameSession
    <3>2. Lockers(o)' = Lockers(o)
      BY <2>5 DEF Lockers
    <3>. QED
      BY <2>1, <2>8, <2>9, <3>1, <3>2 DEF QuietInv
  <2>. QED
    BY <2>4, <2>10
<1>. QED
  BY <1>1, <1>2

\* The session of the step itself: the thread is in lock() or unlock() afterwards,
\* has just left it, or had nothing to do with the lock.
MovesQuietly(t, s) ==
    s \notin disturbed' /\ alive'[s] =>
        /\ s \notin disturbed /\ alive[s]
        /\ \/ t \in Lockers(s)' /\ Doing(t, s)' /\ (\A u \in Lockers(s) : u = t)
           \/ t \notin Lockers(s)' /\ t \in Lockers(s) /\ Agree(s)'
           \/ /\ t \notin Lockers(s)' /\ t \notin Lockers(s) /\ SameLock(s)
              /\ \A u \in Lockers(s) : op'[u] = op[u]

LEMMA StepInv ==
    ASSUME SessionInv, TypeOK', WellFormed(lock)', NEW t \in Threads, NEW s \in Sessions,
           Moves(t, s), MovesQuietly(t, s), ThreadInv(t)', CloseInv(s)'
    PROVE  SessionInv'
<1>1. QuietInv(s)'
  <2>. SUFFICES ASSUME s \notin disturbed', alive'[s]
                PROVE  /\ \A u, v \in Lockers(s)' : u = v
                       /\ Lockers(s)' = {} => Agree(s)'
                       /\ \A u \in Lockers(s)' : Doing(u, s)'
    BY DEF QuietInv
  <2>1. s \notin disturbed /\ alive[s]
    BY DEF MovesQuietly
  <2>2. /\ \A u, v \in Lockers(s) : u = v
        /\ Lockers(s) = {} => Agree(s)
        /\ \A u \in Lockers(s) : Doing(u, s)
    BY <2>1 DEF SessionInv, QuietInv
  <2>3. \A u \in Threads : u # t => (u \in Lockers(s)' <=> u \in Lockers(s))
    BY DEF Lockers, Moves, Session
  <2>4. \A u \in Lockers(s)' : u \in Threads
    BY DEF Lockers
  <2>5. CASE t \in Lockers(s)' /\ Doing(t, s)' /\ (\A u \in Lockers(s) : u = t)
    BY <2>3, <2>4, <2>5
  <2>6. CASE t \notin Lockers(s)' /\ t \in Lockers(s) /\ Agree(s)'
    BY <2>2, <2>3, <2>4, <2>6
  <2>7. CASE /\ t \notin Lockers(s)' /\ t \notin Lockers(s) /\ SameLock(s)
             /\ \A u \in Lockers(s) : op'[u] = op[u]
    <3>1. Lockers(s)' = Lockers(s)
      BY <2>3, <2>7 DEF Lockers
    <3>2. Mapped(Mode(s))' = Mapped(Mode(s))
      BY <2>7 DEF Mapped, SameLock, Moves
    <3>3. Agree(s)' <=> Agree(s)
      BY <2>7, <3>2 DEF Agree, Device, SameLock, Moves
    <3>4. ASSUME NEW u \in Lockers(s), Doing(u, s) PROVE Doing(u, s)'
      <4>1. pc'[u] = pc[u] /\ call'[u] = call[u] /\ op'[u] = op[u]
        BY <2>7, <3>4 DEF Lockers, Moves
      <4>. QED
        BY <2>7, <3>2, <3>3, <3>4, <4>1 DEF Doing, SameLock, Device, Moves
    <3>. QED
      BY <2>2, <3>1, <3>3, <3>4
  <2>. QED
    BY <2>1, <2>5, <2>6, <2>7 DEF MovesQuietly
<1>. QED
  BY <1>1, FrameInv DEF SessionInv

\* A step that is not one of close() leaves a session as closed as it was.
LEMMA CloseKept ==
    ASSUME SessionInv, NEW t \in Threads, NEW s \in Sessions, Moves(t, s),
           alive'[s] = alive[s], closed'[s] = closed[s], connected'[s] = connected[s],
           t \in Inside(s) => pc[t] \notin Closing,
           t \in Inside(s)' => pc'[t] \notin Closing,
           ~connected[s] => remote'[s] = "none",
           closed[s] /\ operations[s] = {} => operations'[s] = {} /\ (Depth(s) = 0 => Depth(s)' = 0)
    PROVE  CloseInv(s)'
<1>1. CloseInv(s)
  BY DEF SessionInv
<1>2. \A u \in Threads : u # t => (u \in Inside(s)' <=> u \in Inside(s)) /\ pc'[u] = pc[u]
  BY DEF Inside, Moves, Session
<1>3. \A u \in Inside(s)' : u \in Threads
  BY DEF Inside
<1>4. (\A u \in Inside(s)' : pc'[u] \notin Closing) <=> (\A u \in Inside(s) : pc[u] \notin Closing)
  BY <1>2, <1>3 DEF Inside
<1>5. \A u \in Inside(s)' : pc'[u] \in Closing => u \in Inside(s) /\ pc[u] \in Closing /\ pc'[u] = pc[u]
  BY <1>2, <1>3
<1>6. \A u \in Inside(s)' :
          /\ pc'[u] \in Closing => ~alive'[s] /\ \A v \in Inside(s)' : pc'[v] \in Closing => v = u
          /\ pc'[u] \in {"backend", "drain", "forget"} => closed'[s]
          /\ pc'[u] \in {"drain", "forget"} => ~connected'[s]
          /\ pc'[u] = "forget" => operations'[s] = {}
  BY <1>1, <1>5 DEF CloseInv, Closing
<1>. QED
  BY <1>1, <1>4, <1>6 DEF CloseInv

-----------------------------------------------------------------------------
\* A step of thread t, in a call on session s, outside close().
InCall(t, s) ==
    /\ backend' = backend /\ alive' = alive /\ closed' = closed /\ connected' = connected
    /\ Session(t) \in {s, NoSession} /\ Session(t)' \in {s, NoSession}
    /\ \A u \in Threads \ {t} :
          /\ pc'[u] = pc[u] /\ call'[u] = call[u] /\ op'[u] = op[u]
          /\ \A o \in Sessions : u \in operations'[o] <=> u \in operations[o]
    /\ \A o \in Sessions \ {s} : SameLock(o) /\ operations'[o] = operations[o]
    /\ disturbed \subseteq disturbed'
    /\ pc[t] \notin Closing /\ pc'[t] \notin Closing
    /\ ~connected[s] => remote'[s] = "none"
    /\ closed[s] /\ operations[s] = {} => operations'[s] = {} /\ (Depth(s) = 0 => Depth(s)' = 0)

LEMMA CallInv ==
    ASSUME SessionInv, TypeOK', WellFormed(lock)', NEW t \in Threads, NEW s \in Sessions,
           InCall(t, s), MovesQuietly(t, s), ThreadInv(t)'
    PROVE  SessionInv'
<1>1. \A o \in Sessions \ {s} : SameSession(o)
  BY DEF InCall, SameSession
<1>2. Moves(t, s)
  <2>1. \A u \in Threads \ {t} : op'[u] = "pending" => closed'[Session(u)] = closed[Session(u)]
    BY DEF InCall
  <2>. QED
    BY <1>1, <2>1 DEF InCall, Moves
<1>3. CloseInv(s)'
  BY <1>2, CloseKept DEF InCall
<1>. QED
  BY <1>2, <1>3, StepInv

\* The lock's side of a step inside lock() or unlock().
Proceeds(t, s) ==
    s \notin disturbed' /\ alive[s] /\ Doing(t, s) =>
        IF pc'[t] \in Locking \cup Unlocking THEN Session(t)' = s /\ Doing(t, s)'
                                             ELSE Agree(s)'

LEMMA LockerMoves ==
    ASSUME SessionInv, NEW t \in Threads, NEW s \in Sessions, InCall(t, s),
           Session(t) = s, pc[t] \in Locking \cup Unlocking, Proceeds(t, s)
    PROVE  MovesQuietly(t, s)
<1>. SUFFICES ASSUME s \notin disturbed', alive'[s] PROVE MovesQuietly(t, s)
  BY DEF MovesQuietly
<1>1. s \notin disturbed /\ alive[s] /\ t \in Lockers(s)
  BY DEF InCall, Lockers
<1>2. Doing(t, s) /\ \A u \in Lockers(s) : u = t
  BY <1>1 DEF SessionInv, QuietInv
<1>3. CASE pc'[t] \in Locking \cup Unlocking
  <2>1. Session(t)' = s /\ Doing(t, s)'
    BY <1>1, <1>2, <1>3 DEF Proceeds
  <2>2. t \in Lockers(s)'
    BY <1>3, <2>1 DEF Lockers
  <2>. QED
    BY <1>1, <1>2, <2>1, <2>2 DEF MovesQuietly
<1>4. CASE pc'[t] \notin Locking \cup Unlocking
  <2>1. Agree(s)' /\ t \notin Lockers(s)'
    BY <1>1, <1>2, <1>4 DEF Proceeds, Lockers
  <2>. QED
    BY <1>1, <2>1 DEF MovesQuietly
<1>. QED
  BY <1>3, <1>4

LEMMA OtherMoves ==
    ASSUME SessionInv, NEW t \in Threads, NEW s \in Sessions, InCall(t, s),
           pc[t] \notin Locking \cup Unlocking, pc'[t] \notin Locking \cup Unlocking, SameLock(s)
    PROVE  MovesQuietly(t, s)
<1>1. t \notin Lockers(s) /\ t \notin Lockers(s)'
  BY DEF Lockers
<1>2. \A u \in Lockers(s) : op'[u] = op[u]
  BY <1>1 DEF Lockers, InCall
<1>. QED
  BY <1>1, <1>2 DEF MovesQuietly, InCall

\* Where the lock and the device stay as they are.
LEMMA SameLocks ==
    ASSUME UNCHANGED <<lockVars, deviceVars>>
    PROVE  /\ \A s \in Sessions : SameLock(s)
           /\ WellFormed(lock) => WellFormed(lock)'
           /\ \A s \in Sessions : Agree(s) => Agree(s)'
           /\ \A s \in Sessions : Depth(s)' = Depth(s) /\ Mode(s)' = Mode(s)
           /\ \A s \in Sessions : \A m : Device(s, m)' <=> Device(s, m)
           /\ \A s \in Sessions : Mapped(Mode(s))' = Mapped(Mode(s))
<1>1. lock' = lock /\ held' = held /\ backend' = backend /\ remote' = remote /\ believed' = believed
  BY DEF lockVars, deviceVars
<1>2. \A s \in Sessions : Depth(s)' = Depth(s) /\ Mode(s)' = Mode(s)
  BY <1>1 DEF Depth, Mode
<1>3. \A s \in Sessions : \A m : Device(s, m)' <=> Device(s, m)
  BY <1>1 DEF Device
<1>4. \A s \in Sessions : Mapped(Mode(s))' = Mapped(Mode(s))
  BY <1>1, <1>2 DEF Mapped
<1>5. \A s \in Sessions : Agree(s) => Agree(s)'
  BY <1>1, <1>2, <1>3, <1>4 DEF Agree
<1>6. WellFormed(lock) => WellFormed(lock)'
  BY <1>1
<1>. QED
  BY <1>1, <1>2, <1>3, <1>4, <1>5, <1>6 DEF SameLock

\* A step of thread t that only moves t on.
Local(t) ==
    /\ UNCHANGED <<lockVars, deviceVars, sessionVars, disturbed>>
    /\ \A u \in Threads \ {t} : pc'[u] = pc[u] /\ call'[u] = call[u] /\ op'[u] = op[u]
    /\ pc[t] # "idle" /\ Session(t)' = Session(t)
    /\ pc[t] \notin Closing /\ pc'[t] \notin Closing

LEMMA LocalInv ==
    ASSUME SessionInv, TypeOK', NEW t \in Threads, NEW s \in Sessions, Session(t) = s,
           Local(t), ThreadInv(t)',
           \/ pc[t] \in Locking \cup Unlocking /\ Proceeds(t, s)
           \/ pc[t] \notin Locking \cup Unlocking /\ pc'[t] \notin Locking \cup Unlocking
    PROVE  SessionInv'
<1>1. CloseInv(s)
  BY DEF SessionInv, ThreadInv, Local
<1>2. WellFormed(lock)' /\ \A o \in Sessions : SameLock(o)
  BY SameLocks DEF SessionInv, Local
<1>3. InCall(t, s)
  BY <1>1, <1>2 DEF InCall, Local, deviceVars, sessionVars, CloseInv, SameLock
<1>4. MovesQuietly(t, s)
  BY <1>1, <1>2, <1>3, LockerMoves, OtherMoves
<1>. QED
  BY <1>1, <1>2, <1>3, <1>4, CallInv

Calls == [session : Sessions \cup {NoSession}, type : LockTypes \cup IoKinds \cup {"none"},
          depth : Nat, status : Statuses]

LEMMA ReportType ==
    ASSUME TypeOK, NEW t \in Threads, NEW status \in Statuses, Report(t, status)
    PROVE  call' \in [Threads -> Calls]
<1>1. call \in [Threads -> Calls]
  BY DEF TypeOK, Calls
<1>2. call[t] \in Calls
  BY <1>1
<1>3. [call[t] EXCEPT !.status = status] \in Calls
  BY <1>2 DEF Calls
<1>4. call' = [call EXCEPT ![t] = [call[t] EXCEPT !.status = status]]
  BY DEF Report
<1>. QED
  BY <1>1, <1>3, <1>4

LEMMA LocalType ==
    ASSUME TypeOK, UNCHANGED <<lockVars, deviceVars, sessionVars, disturbed, toCancel, calls>>,
           op' \in [Threads -> {"none", "pending", "aborted", "done"}],
           pc' \in [Threads -> PCs], call' \in [Threads -> Calls]
    PROVE  TypeOK'
BY DEF TypeOK, lockVars, deviceVars, sessionVars, Calls

LEMMA LockOnClosedInv ==
    ASSUME SessionInv, NEW t \in Threads, LockOnClosed(t) PROVE SessionInv'
<1>0. PICK s \in Sessions : Session(t) = s
  BY DEF SessionInv, ThreadInv, LockOnClosed
<1>1. TypeOK /\ ThreadInv(t)
  BY DEF SessionInv
<1>2. TypeOK'
  BY <1>1, SMTT(60) DEF TypeOK, LockOnClosed, Goto, Report, lockVars, deviceVars, sessionVars, PCs, Statuses
<1>3. Local(t) /\ pc'[t] = "finish" /\ op' = op /\ operations' = operations /\ closed' = closed
  BY <1>1 DEF TypeOK, Local, LockOnClosed, Goto, Report, Session, Closing, lockVars, deviceVars, sessionVars
<1>4. ThreadInv(t)'
  BY <1>1, <1>3 DEF ThreadInv, Registered, Local, LockOnClosed, Locking, Io
<1>5. pc[t] \in Locking /\ Proceeds(t, s)
  BY DEF Proceeds, Doing, LockOnClosed, Locking
<1>. QED
  BY <1>0, <1>2, <1>3, <1>4, <1>5, LocalInv

LEMMA PreviousDepthInv ==
    ASSUME SessionInv, NEW t \in Threads, PreviousDepth(t) PROVE SessionInv'
<1>0. PICK s \in Sessions : Session(t) = s
  BY DEF SessionInv, ThreadInv, PreviousDepth
<1>1. TypeOK /\ ThreadInv(t) /\ WellFormed(lock)
  BY DEF SessionInv
<1>2. Depth(s) \in Nat
  BY <1>1, OwnedTypeAndDepth DEF TypeOK, ThreadInv, PreviousDepth, Depth
<1>3. TypeOK'
  <2>1. [call[t] EXCEPT !.depth = Depth(s)] \in Calls /\ call \in [Threads -> Calls]
    <3>1. call \in [Threads -> Calls]
      BY <1>1 DEF TypeOK, Calls
    <3>2. call[t] \in Calls
      BY <3>1
    <3>3. \A d \in Nat : [call[t] EXCEPT !.depth = d] \in Calls
      BY <3>2 DEF Calls
    <3>. QED
      BY <1>2, <3>1, <3>3
  <2>2. call' = [call EXCEPT ![t] = [call[t] EXCEPT !.depth = Depth(s)]]
    BY <1>0 DEF PreviousDepth
  <2>3. call' \in [Threads -> Calls]
    BY <2>1, <2>2
  <2>4. pc' \in [Threads -> PCs] /\ op' = op
    BY <1>1 DEF TypeOK, PreviousDepth, Goto, PCs, Locking
  <2>. QED
    BY <1>1, <2>3, <2>4, LocalType DEF PreviousDepth, TypeOK
<1>4. /\ Local(t) /\ pc'[t] = "acquire" /\ op' = op /\ operations' = operations /\ closed' = closed
      /\ call'[t].depth = Depth(s) /\ call'[t].type = call[t].type
  BY <1>0, <1>1 DEF TypeOK, Local, PreviousDepth, Goto, Session, Closing, lockVars, deviceVars, sessionVars
<1>5. ThreadInv(t)'
  BY <1>1, <1>4 DEF ThreadInv, Registered, Local, PreviousDepth, Locking, Io
<1>6. pc[t] \in Locking /\ Proceeds(t, s)
  <2>1. Agree(s) => Agree(s)' /\ Depth(s)' = Depth(s)
    BY <1>4, SameLocks DEF Local
  <2>. QED
    BY <1>0, <1>4, <2>1 DEF Proceeds, Doing, PreviousDepth, Locking, Local
<1>. QED
  BY <1>0, <1>3, <1>4, <1>5, <1>6, LocalInv

LEMMA AcquireFailsInv ==
    ASSUME SessionInv, NEW t \in Threads, AcquireFails(t) PROVE SessionInv'
<1>0. PICK s \in Sessions : Session(t) = s
  BY DEF SessionInv, ThreadInv, AcquireFails
<1>1. TypeOK /\ ThreadInv(t)
  BY DEF SessionInv
<1>2. TypeOK'
  BY <1>1, SMTT(60) DEF TypeOK, AcquireFails, TryComplete, Goto, Report, lockVars, deviceVars, sessionVars, PCs, Statuses
<1>3. Local(t) /\ pc'[t] = "finish" /\ op'[t] # "pending" /\ operations' = operations
  BY <1>1 DEF TypeOK, Local, AcquireFails, TryComplete, Goto, Report, Session, Closing, lockVars, deviceVars, sessionVars
<1>4. ThreadInv(t)'
  BY <1>1, <1>3 DEF ThreadInv, Registered, Local, AcquireFails, Locking, Io
<1>5. pc[t] \in Locking
  BY DEF AcquireFails, Locking
<1>6. Proceeds(t, s)
  BY <1>3, SameLocks DEF Proceeds, Doing, AcquireFails, Locking, Unlocking, Local
<1>. QED
  BY <1>0, <1>2, <1>3, <1>4, <1>5, <1>6, LocalInv

LEMMA UnlockDepthInv ==
    ASSUME SessionInv, NEW t \in Threads, UnlockDepth(t) PROVE SessionInv'
<1>0. PICK s \in Sessions : Session(t) = s
  BY DEF SessionInv, ThreadInv, UnlockDepth
<1>. DEFINE d == Depth(s)
<1>1. TypeOK /\ ThreadInv(t) /\ WellFormed(lock)
  BY DEF SessionInv
<1>2. d \in Nat
  BY <1>1, OwnedTypeAndDepth DEF TypeOK, ThreadInv, UnlockDepth, Depth
<1>. HIDE DEF d
<1>3. PICK next \in {"finish", "begin", "nested"} :
          /\ Goto(t, next)
          /\ next = "finish" => d = 0
          /\ next = "begin" => d = 1
          /\ next = "nested" => d > 1
  BY <1>0, <1>2 DEF UnlockDepth, d
<1>4. PICK status \in {"nlocked", "ok"} : Report(t, status)
  BY DEF UnlockDepth
<1>5. TypeOK'
  <2>1. call' \in [Threads -> Calls]
    BY <1>1, <1>4, ReportType DEF Statuses
  <2>2. pc' \in [Threads -> PCs]
    BY <1>1, <1>3 DEF TypeOK, Goto, PCs, Unlocking
  <2>3. op' \in [Threads -> {"none", "pending", "aborted", "done"}]
    BY <1>1 DEF TypeOK, UnlockDepth
  <2>. QED
    BY <1>1, <2>1, <2>2, <2>3, LocalType DEF UnlockDepth
<1>6. /\ Local(t) /\ pc'[t] = next /\ op' = op /\ operations' = operations /\ closed' = closed
      /\ call'[t].type = call[t].type
  BY <1>1, <1>3, <1>4
     DEF TypeOK, Local, UnlockDepth, Goto, Report, Session, Closing, lockVars, deviceVars, sessionVars
<1>7. ThreadInv(t)'
  BY <1>1, <1>6 DEF ThreadInv, Registered, Local, UnlockDepth, Locking, Io
<1>8. pc[t] \in Unlocking /\ Proceeds(t, s)
  <2>1. Agree(s) => Agree(s)' /\ Depth(s)' = d
    BY <1>6, SameLocks DEF Local, d
  <2>. QED
    BY <1>0, <1>3, <1>6, <2>1 DEF Proceeds, Doing, UnlockDepth, Unlocking, Local
<1>. QED
  BY <1>0, <1>5, <1>6, <1>7, <1>8, LocalInv

LEMMA CompleteUnlockInv ==
    ASSUME SessionInv, NEW t \in Threads, CompleteUnlock(t) PROVE SessionInv'
<1>0. PICK s \in Sessions : Session(t) = s
  BY DEF SessionInv, ThreadInv, CompleteUnlock
<1>1. TypeOK /\ ThreadInv(t)
  BY DEF SessionInv
<1>2. TypeOK'
  <2>1. call' \in [Threads -> Calls]
    <3>1. call[t].status \in Statuses
      BY <1>1 DEF TypeOK
    <3>. QED
      BY <1>1, <3>1, ReportType DEF CompleteUnlock, Statuses, TypeOK, Calls
  <2>2. pc' \in [Threads -> PCs]
    <3>1. PICK place \in PCs : pc' = [pc EXCEPT ![t] = place]
      <4>1. {"release", "finish"} \subseteq PCs
        BY DEF PCs, Unlocking
      <4>. QED
        BY <4>1 DEF CompleteUnlock, Goto
    <3>. QED
      BY <1>1, <3>1 DEF TypeOK
  <2>3. op' \in [Threads -> {"none", "pending", "aborted", "done"}]
    BY <1>1 DEF TypeOK, CompleteUnlock, TryComplete
  <2>. QED
    BY <1>1, <2>1, <2>2, <2>3, LocalType DEF CompleteUnlock
<1>3. /\ Local(t) /\ operations' = operations
      /\ op'[t] # "pending"
      /\ pc'[t] = IF op[t] = "pending" /\ call[t].status = "ok" THEN "release" ELSE "finish"
  BY <1>1 DEF TypeOK, Local, CompleteUnlock, TryComplete, Goto, Report, Session, Closing, lockVars, deviceVars, sessionVars
<1>4. ThreadInv(t)'
  BY <1>1, <1>3 DEF ThreadInv, Registered, Local, CompleteUnlock, Locking, Io
<1>5. pc[t] \in Unlocking
  BY DEF CompleteUnlock, Unlocking
<1>6. Proceeds(t, s)
  <2>. SUFFICES ASSUME Doing(t, s)
                PROVE  IF pc'[t] \in Locking \cup Unlocking THEN Session(t)' = s /\ Doing(t, s)'
                                                            ELSE Agree(s)'
    BY DEF Proceeds
  <2>1. SameLock(s) /\ (Agree(s) => Agree(s)')
        /\ (Device(s, "none")' <=> Device(s, "none"))
    BY <1>3, SameLocks DEF Local
  <2>2. pc[t] = "answer"
    BY DEF CompleteUnlock
  <2>3. CASE op[t] = "pending" /\ call[t].status = "ok"
    <3>1. held[s] = 1 /\ Depth(s) = 1 /\ Device(s, "none")
      BY <2>2, <2>3 DEF Doing
    <3>. QED
      BY <1>0, <1>3, <2>1, <2>3, <3>1 DEF Doing, Local, Unlocking, SameLock
  <2>4. CASE ~(op[t] = "pending" /\ call[t].status = "ok")
    <3>1. Agree(s)
      BY <2>2, <2>4 DEF Doing
    <3>. QED
      BY <1>3, <2>1, <2>4, <3>1 DEF Locking, Unlocking
  <2>. QED
    BY <2>3, <2>4
<1>. QED
  BY <1>0, <1>2, <1>3, <1>4, <1>5, <1>6, LocalInv

LEMMA CheckAccessInv ==
    ASSUME SessionInv, NEW t \in Threads, CheckAccess(t) PROVE SessionInv'
<1>0. PICK s \in Sessions : Session(t) = s
  BY DEF SessionInv, ThreadInv, CheckAccess
<1>1. TypeOK /\ ThreadInv(t)
  BY DEF SessionInv
<1>2. TypeOK'
  <2>1. call' \in [Threads -> Calls]
    BY <1>1, ReportType DEF CheckAccess, Statuses, TypeOK, Calls
  <2>2. pc' \in [Threads -> PCs]
    <3>1. PICK place \in {"io", "finish"} : Goto(t, place)
      BY DEF CheckAccess
    <3>. QED
      BY <1>1, <3>1 DEF TypeOK, Goto, PCs, Io
  <2>3. op' \in [Threads -> {"none", "pending", "aborted", "done"}]
    BY <1>1 DEF TypeOK, CheckAccess
  <2>. QED
    BY <1>1, <2>1, <2>2, <2>3, LocalType DEF CheckAccess
<1>3. /\ Local(t) /\ operations' = operations /\ closed' = closed
      /\ pc'[t] \in {"io", "finish"} /\ op' = op /\ call'[t].type = call[t].type
  BY <1>1 DEF TypeOK, Local, CheckAccess, Goto, Report, Session, Closing, lockVars, deviceVars, sessionVars
<1>4. ThreadInv(t)'
  BY <1>1, <1>3 DEF ThreadInv, Registered, Local, CheckAccess, Locking, Io
<1>5. pc[t] \notin Locking \cup Unlocking /\ pc'[t] \notin Locking \cup Unlocking
  BY <1>3 DEF CheckAccess, Locking, Unlocking
<1>. QED
  BY <1>0, <1>2, <1>3, <1>4, <1>5, LocalInv

LEMMA CheckIoInv ==
    ASSUME SessionInv, NEW t \in Threads, CheckIo(t) PROVE SessionInv'
<1>0. PICK s \in Sessions : Session(t) = s
  BY DEF SessionInv, ThreadInv, CheckIo
<1>1. TypeOK /\ ThreadInv(t)
  BY DEF SessionInv
<1>2. TypeOK'
  BY <1>1 DEF TypeOK, ThreadInv, CheckIo, Goto, Report, lockVars, deviceVars, sessionVars, PCs, Statuses, Io
<1>3. /\ Local(t) /\ operations' = operations /\ closed' = closed
      /\ pc'[t] \in {"finish", "io_busy"} /\ op' = op /\ call' = call
      /\ pc'[t] = "io_busy" /\ call[t].type = "transfer" => op[t] = "pending"
  BY <1>1 DEF TypeOK, Local, CheckIo, Goto, Report, Session, Closing, lockVars, deviceVars, sessionVars
<1>4. ThreadInv(t)'
  BY <1>1, <1>3 DEF ThreadInv, Registered, Local, CheckIo, Locking, Io
<1>5. pc[t] \notin Locking \cup Unlocking /\ pc'[t] \notin Locking \cup Unlocking
  BY <1>3 DEF CheckIo, Locking, Unlocking
<1>. QED
  BY <1>0, <1>2, <1>3, <1>4, <1>5, LocalInv

LEMMA IoReturnsInv ==
    ASSUME SessionInv, NEW t \in Threads, IoReturns(t) PROVE SessionInv'
<1>0. PICK s \in Sessions : Session(t) = s
  BY DEF SessionInv, ThreadInv, IoReturns
<1>1. TypeOK /\ ThreadInv(t)
  BY DEF SessionInv
<1>2. TypeOK'
  BY <1>1 DEF TypeOK, ThreadInv, IoReturns, TryComplete, Goto, Report, lockVars, deviceVars, sessionVars, PCs, Statuses, Io
<1>3. /\ Local(t) /\ operations' = operations /\ closed' = closed
      /\ pc'[t] = "finish" /\ op'[t] # "pending"
  BY <1>1 DEF TypeOK, Local, IoReturns, TryComplete, Goto, Report, Session, Closing, lockVars, deviceVars, sessionVars
<1>4. ThreadInv(t)'
  BY <1>1, <1>3 DEF ThreadInv, Registered, Local, IoReturns, Locking, Io
<1>5. pc[t] \notin Locking \cup Unlocking /\ pc'[t] \notin Locking \cup Unlocking
  BY <1>3 DEF IoReturns, Locking, Unlocking
<1>. QED
  BY <1>0, <1>2, <1>3, <1>4, <1>5, LocalInv

LEMMA SnapshotInv ==
    ASSUME SessionInv, NEW t \in Threads, Snapshot(t) PROVE SessionInv'
<1>0. PICK s \in Sessions : Session(t) = s
  BY DEF SessionInv, ThreadInv, Snapshot
<1>1. TypeOK /\ ThreadInv(t)
  BY DEF SessionInv
<1>2. TypeOK'
  BY <1>1 DEF TypeOK, ThreadInv, Snapshot, Goto, Report, lockVars, deviceVars, sessionVars, PCs, Statuses, Io
<1>3. /\ Local(t) /\ operations' = operations /\ closed' = closed
      /\ pc'[t] = "cancelling" /\ op' = op
  BY <1>1 DEF TypeOK, Local, Snapshot, Goto, Report, Session, Closing, lockVars, deviceVars, sessionVars
<1>4. ThreadInv(t)'
  BY <1>1, <1>3 DEF ThreadInv, Registered, Local, Snapshot, Locking, Io
<1>5. pc[t] \notin Locking \cup Unlocking /\ pc'[t] \notin Locking \cup Unlocking
  BY <1>3 DEF Snapshot, Locking, Unlocking
<1>. QED
  BY <1>0, <1>2, <1>3, <1>4, <1>5, LocalInv

LEMMA TerminateDoneInv ==
    ASSUME SessionInv, NEW t \in Threads, TerminateDone(t) PROVE SessionInv'
<1>0. PICK s \in Sessions : Session(t) = s
  BY DEF SessionInv, ThreadInv, TerminateDone
<1>1. TypeOK /\ ThreadInv(t)
  BY DEF SessionInv
<1>2. TypeOK'
  BY <1>1 DEF TypeOK, ThreadInv, TerminateDone, Goto, Report, lockVars, deviceVars, sessionVars, PCs, Statuses, Io
<1>3. /\ Local(t) /\ operations' = operations /\ closed' = closed
      /\ pc'[t] = "finish" /\ op' = op
  BY <1>1 DEF TypeOK, Local, TerminateDone, Goto, Report, Session, Closing, lockVars, deviceVars, sessionVars
<1>4. ThreadInv(t)'
  BY <1>1, <1>3 DEF ThreadInv, Registered, Local, TerminateDone, Locking, Io
<1>5. pc[t] \notin Locking \cup Unlocking /\ pc'[t] \notin Locking \cup Unlocking
  BY <1>3 DEF TerminateDone, Locking, Unlocking
<1>. QED
  BY <1>0, <1>2, <1>3, <1>4, <1>5, LocalInv

-----------------------------------------------------------------------------
\* A thread outside any call has no Operation.
LEMMA IdleThread ==
    ASSUME SessionInv, NEW t \in Threads, pc[t] = "idle"
    PROVE  Session(t) = NoSession /\ op[t] # "pending" /\ \A o \in Sessions : t \notin operations[o]
BY DEF SessionInv, ThreadInv, Registered

LEMMA CallApiInv ==
    ASSUME SessionInv, NEW t \in Threads, NEW s \in Sessions, NEW method, NEW lockType,
           \/ method = "lock" /\ lockType \in LockTypes
           \/ method = "access" /\ lockType \in IoKinds
           \/ method \in {"unlock", "terminate"} /\ lockType = "none",
           CallApi(t, s, method, lockType)
    PROVE  SessionInv'
<1>. DEFINE c == [NoCall EXCEPT !.session = s, !.type = lockType]
<1>1. TypeOK /\ ThreadInv(t) /\ WellFormed(lock) /\ CloseInv(s) /\ QuietInv(s)
  BY DEF SessionInv
<1>2. c \in Calls /\ c.session = s /\ c.type = lockType
  BY DEF Calls, NoCall, Statuses
<1>. HIDE DEF c
<1>3. /\ call' = [call EXCEPT ![t] = c] /\ pc' = [pc EXCEPT ![t] = method]
      /\ UNCHANGED <<lockVars, deviceVars, sessionVars, op, toCancel>>
      /\ calls' = calls + 1
      /\ disturbed \subseteq disturbed' /\ disturbed' \subseteq disturbed \cup {s}
      /\ method \in {"lock", "unlock"} /\ s \notin disturbed' => Lockers(s) = {}
  BY DEF CallApi, Goto, Lockers, c
<1>4. /\ call \in [Threads -> Calls] /\ pc \in [Threads -> PCs] /\ method \in PCs
      /\ call'[t] = c /\ pc'[t] = method
      /\ \A u \in Threads \ {t} : pc'[u] = pc[u] /\ call'[u] = call[u]
      /\ method \notin Closing /\ method # "idle" /\ pc[t] = "idle"
  BY <1>1, <1>3 DEF TypeOK, Calls, PCs, Locking, Unlocking, Io, Closing, CallApi
<1>5. TypeOK'
  <2>1. call' \in [Threads -> Calls] /\ pc' \in [Threads -> PCs]
    BY <1>2, <1>3, <1>4
  <2>2. calls' \in Nat /\ disturbed' \in SUBSET Sessions
    BY <1>1, <1>3 DEF TypeOK
  <2>. QED
    BY <1>1, <1>3, <2>1, <2>2 DEF TypeOK, lockVars, deviceVars, sessionVars, Calls
<1>6. Session(t) = NoSession /\ Session(t)' = s /\ op[t] # "pending" /\ (\A o \in Sessions : t \notin operations[o])
  BY <1>2, <1>4, IdleThread DEF Session
<1>7. WellFormed(lock)' /\ \A o \in Sessions : SameLock(o) /\ (Agree(o) => Agree(o)')
  BY <1>1, <1>3, SameLocks
<1>8. InCall(t, s)
  BY <1>1, <1>3, <1>4, <1>6, <1>7 DEF InCall, deviceVars, sessionVars, CloseInv, SameLock, Closing
<1>9. ThreadInv(t)'
  <2>1. op' = op /\ operations' = operations
    BY <1>3 DEF sessionVars
  <2>2. ~Registered(t)'
    BY <1>4, <1>6, <2>1 DEF Registered
  <2>3. pc'[t] \in Locking => lockType \in LockTypes
    BY <1>4 DEF Locking
  <2>4. pc'[t] \in Io => lockType \in IoKinds
    BY <1>4 DEF Io
  <2>. QED
    BY <1>2, <1>4, <1>6, <2>1, <2>2, <2>3, <2>4 DEF ThreadInv
<1>10. MovesQuietly(t, s)
  <2>1. CASE method \in {"lock", "unlock"}
    <3>. SUFFICES ASSUME s \notin disturbed', alive'[s] PROVE MovesQuietly(t, s)
      BY DEF MovesQuietly
    <3>1. s \notin disturbed /\ alive[s] /\ Lockers(s) = {} /\ t \in Lockers(s)'
      BY <1>3, <1>4, <1>6, <2>1 DEF sessionVars, Lockers, Locking, Unlocking
    <3>2. Agree(s)'
      BY <1>1, <1>7, <3>1 DEF QuietInv
    <3>3. Doing(t, s)'
      BY <1>4, <2>1, <3>2 DEF Doing
    <3>. QED
      BY <3>1, <3>3 DEF MovesQuietly
  <2>2. CASE method \notin {"lock", "unlock"}
    <3>1. pc[t] \notin Locking \cup Unlocking /\ pc'[t] \notin Locking \cup Unlocking
      BY <1>4, <2>2 DEF Locking, Unlocking
    <3>. QED
      BY <1>7, <1>8, <3>1, OtherMoves
  <2>. QED
    BY <2>1, <2>2
<1>. QED
  BY <1>5, <1>7, <1>8, <1>9, <1>10, CallInv

\* begin_operation, wherever it is called.
LEMMA BeginOperationInv ==
    ASSUME SessionInv, NEW t \in Threads, NEW place, BeginOperation(t, place),
           \/ pc[t] = "lock" /\ place = "depth"
           \/ pc[t] = "begin" /\ place = "device"
           \/ pc[t] = "io" /\ place = "io_check"
    PROVE  SessionInv'
<1>0. PICK s \in Sessions : Session(t) = s
  BY DEF SessionInv, ThreadInv
<1>1. TypeOK /\ ThreadInv(t) /\ WellFormed(lock)
  BY DEF SessionInv
<1>2. CloseInv(s)
  BY DEF SessionInv
<1>3. /\ op' = [op EXCEPT ![t] = IF closed[s] THEN "aborted" ELSE "pending"]
      /\ operations' = [operations EXCEPT ![s] = IF closed[s] THEN @ ELSE @ \cup {t}]
      /\ pc' = [pc EXCEPT ![t] = place]
      /\ UNCHANGED <<lockVars, deviceVars, alive, closed, call, toCancel, disturbed, calls>>
  BY <1>0 DEF BeginOperation, Goto
<1>4. /\ pc'[t] = place /\ op'[t] = (IF closed[s] THEN "aborted" ELSE "pending") /\ call' = call
      /\ ~closed[s] => t \in operations'[s]
      /\ closed[s] => operations'[s] = operations[s]
      /\ \A o \in Sessions \ {s} : operations'[o] = operations[o]
      /\ \A u \in Threads \ {t} : /\ pc'[u] = pc[u] /\ op'[u] = op[u]
                                  /\ \A o \in Sessions : u \in operations'[o] <=> u \in operations[o]
      /\ Session(t) = s /\ Session(t)' = s
      /\ place \in {"depth", "device", "io_check"}
  BY <1>0, <1>1, <1>3 DEF TypeOK, Session
<1>5. TypeOK'
  BY <1>1, <1>2, <1>3, <1>4 DEF TypeOK, lockVars, deviceVars, PCs, Locking, Unlocking, Io
<1>6. /\ WellFormed(lock)'
      /\ \A o \in Sessions : SameLock(o) /\ (Agree(o) => Agree(o)') /\ Depth(o)' = Depth(o)
  BY <1>1, <1>3, SameLocks
<1>7. pc[t] \notin Closing /\ pc'[t] \notin Closing
  BY <1>4 DEF Closing
<1>8. InCall(t, s)
  <2>1. /\ backend' = backend /\ alive' = alive /\ closed' = closed /\ connected' = connected
        /\ remote' = remote /\ disturbed' = disturbed
    BY <1>3 DEF deviceVars
  <2>2. ~connected[s] => remote'[s] = "none"
    BY <1>2, <2>1 DEF CloseInv
  <2>3. Depth(s)' = Depth(s) /\ \A o \in Sessions \ {s} : SameLock(o)
    BY <1>2, <1>6 DEF SameLock
  <2>. QED
    BY <1>4, <1>7, <2>1, <2>2, <2>3 DEF InCall
<1>9. ThreadInv(t)'
  <2>1. \A o \in Sessions : t \in operations'[o] => o = s
    BY <1>1, <1>4 DEF ThreadInv
  <2>2. Registered(t)' => ~closed[s]
    BY <1>4 DEF Registered
  <2>3. pc'[t] # "idle" /\ (pc'[t] \in Locking => pc[t] \in Locking) /\ (pc'[t] \in Io => pc[t] \in Io)
    BY <1>4 DEF Locking, Io
  <2>4. closed' = closed
    BY <1>3
  <2>. QED
    BY <1>1, <1>2, <1>4, <2>1, <2>2, <2>3, <2>4 DEF ThreadInv
<1>10. CASE place = "io_check"
  <2>1. pc[t] \notin Locking \cup Unlocking /\ pc'[t] \notin Locking \cup Unlocking
    BY <1>4, <1>10 DEF Locking, Unlocking
  <2>2. MovesQuietly(t, s)
    BY <1>2, <1>6, <1>8, <2>1, OtherMoves
  <2>. QED
    BY <1>2, <1>5, <1>6, <1>8, <1>9, <2>2, CallInv
<1>11. CASE place # "io_check"
  <2>1. pc[t] \in Locking \cup Unlocking
    BY <1>11 DEF Locking, Unlocking
  <2>2. alive[s] => op'[t] = "pending"
    BY <1>2, <1>4 DEF CloseInv
  <2>3. Doing(t, s) => Agree(s)' /\ (place = "device" => Depth(s)' = 1)
    <3>1. pc[t] = "lock" \/ (pc[t] = "begin" /\ place = "device")
      BY <1>11
    <3>2. Doing(t, s) => Agree(s) /\ (pc[t] = "begin" => Depth(s) = 1)
      BY <3>1 DEF Doing
    <3>. QED
      BY <1>2, <1>6, <1>11, <3>2
  <2>4. alive[s] /\ Doing(t, s) => Doing(t, s)'
    BY <1>4, <1>11, <2>2, <2>3 DEF Doing
  <2>5. Proceeds(t, s)
    BY <1>4, <1>11, <2>4 DEF Proceeds, Locking, Unlocking
  <2>6. MovesQuietly(t, s)
    BY <1>2, <1>4, <1>8, <2>1, <2>5, LockerMoves
  <2>. QED
    BY <1>2, <1>5, <1>6, <1>8, <1>9, <2>6, CallInv
<1>. QED
  BY <1>10, <1>11

LEMMA FinishOperationInv ==
    ASSUME SessionInv, NEW t \in Threads, FinishOperation(t) PROVE SessionInv'
<1>0. PICK s \in Sessions : Session(t) = s
  BY DEF SessionInv, ThreadInv, FinishOperation
<1>1. TypeOK /\ ThreadInv(t) /\ WellFormed(lock) /\ pc[t] = "finish"
  BY DEF SessionInv, FinishOperation
<1>2. CloseInv(s) /\ (\A o \in Sessions \ {s} : t \notin operations[o])
  BY <1>0 DEF SessionInv, ThreadInv
<1>3. /\ operations' = [o \in Sessions |-> operations[o] \ {t}]
      /\ op' = [op EXCEPT ![t] = "none"] /\ call' = [call EXCEPT ![t] = NoCall]
      /\ pc' = [pc EXCEPT ![t] = "idle"] /\ toCancel' = [u \in Threads |-> toCancel[u] \ {t}]
      /\ UNCHANGED <<lockVars, deviceVars, alive, closed, disturbed, calls>>
  BY DEF FinishOperation, Goto
<1>4. /\ pc'[t] = "idle" /\ op'[t] = "none" /\ call'[t] = NoCall
      /\ \A u \in Threads \ {t} : pc'[u] = pc[u] /\ op'[u] = op[u] /\ call'[u] = call[u]
      /\ \A u \in Threads \ {t}, o \in Sessions : u \in operations'[o] <=> u \in operations[o]
      /\ \A o \in Sessions : t \notin operations'[o]
      /\ \A o \in Sessions \ {s} : operations'[o] = operations[o]
      /\ operations[s] = {} => operations'[s] = {}
  BY <1>1, <1>2, <1>3 DEF TypeOK
<1>5. TypeOK'
  <2>1. NoCall \in Calls
    BY DEF NoCall, Calls, Statuses
  <2>2. call' \in [Threads -> Calls] /\ toCancel' \in [Threads -> SUBSET Threads]
    BY <1>1, <1>3, <2>1 DEF TypeOK, Calls
  <2>3. operations' \in [Sessions -> SUBSET Threads]
    BY <1>1, <1>3 DEF TypeOK
  <2>. QED
    BY <1>1, <1>3, <2>2, <2>3 DEF TypeOK, Calls, lockVars, deviceVars, PCs
<1>6. Session(t) = s /\ Session(t)' = NoSession
  BY <1>0, <1>4 DEF Session, NoCall
<1>7. WellFormed(lock)' /\ \A o \in Sessions : SameLock(o)
  BY <1>1, <1>3, SameLocks
<1>8. InCall(t, s)
  <2>1. /\ backend' = backend /\ alive' = alive /\ closed' = closed /\ connected' = connected
        /\ remote' = remote /\ disturbed' = disturbed
    BY <1>3 DEF deviceVars
  <2>2. ~connected[s] => remote'[s] = "none"
    BY <1>2, <2>1 DEF CloseInv
  <2>3. Depth(s)' = Depth(s) /\ \A o \in Sessions \ {s} : SameLock(o)
    BY <1>2, <1>7 DEF SameLock
  <2>. QED
    BY <1>1, <1>4, <1>6, <2>1, <2>2, <2>3 DEF InCall, Closing
<1>9. ThreadInv(t)'
  BY <1>4, <1>6 DEF ThreadInv, Registered, Locking, Io
<1>10. pc[t] \notin Locking \cup Unlocking /\ pc'[t] \notin Locking \cup Unlocking
  BY <1>1, <1>4 DEF Locking, Unlocking
<1>11. MovesQuietly(t, s)
  BY <1>2, <1>7, <1>8, <1>10, OtherMoves
<1>. QED
  BY <1>2, <1>5, <1>7, <1>8, <1>9, <1>11, CallInv

-----------------------------------------------------------------------------
\* release(), whether or not the session owns a level.
LEMMA ReleaseAny ==
    ASSUME NEW st \in LockStates, WellFormed(st), NEW s \in Sessions, NEW new, new = Release(st, s)
    PROVE  /\ new \in LockStates /\ WellFormed(new)
           /\ OwnedLockDepth(st, s) = 0 => new = st
           /\ OwnedLockDepth(st, s) > 0 => OwnedLockDepth(new, s) = OwnedLockDepth(st, s) - 1
           /\ OwnedLockDepth(st, s) = 1 => OwnedLockType(new, s) = "none"
           /\ OwnedLockDepth(st, s) > 1 => OwnedLockType(new, s) = OwnedLockType(st, s)
           /\ \A o \in Sessions \ {s} :
                 /\ OwnedLockDepth(new, o) = OwnedLockDepth(st, o)
                 /\ OwnedLockType(new, o) = OwnedLockType(st, o)
<1>1. OwnedLockDepth(st, s) \in Nat
  BY OwnedTypeAndDepth
<1>2. CASE OwnedLockDepth(st, s) = 0
  <2>1. ~OwnsExclusive(st, s) /\ ~OwnsShared(st, s)
    BY <1>2, OwnedTypeAndDepth
  <2>2. new = st
    BY <2>1 DEF Release
  <2>. QED
    BY <1>2, <2>2
<1>3. CASE OwnedLockDepth(st, s) > 0
  BY <1>1, <1>3, ReleaseEffect
<1>. QED
  BY <1>1, <1>2, <1>3

\* A session that owns a lock is granted the type it has.
LEMMA GrantKeepsType ==
    ASSUME NEW st \in LockStates, WellFormed(st), NEW s \in Sessions, NEW m \in LockTypes, NEW key,
           CanGrant(st, s, m, key), OwnedLockDepth(st, s) > 0
    PROVE  OwnedLockType(st, s) = m
<1>1. OwnedLockType(st, s) \in {"exclusive", "shared"}
  BY OwnedTypeAndDepth
<1>2. st.type = OwnedLockType(st, s)
  BY <1>1, OwnedTypeAndDepth DEF OwnsExclusive, OwnsShared
<1>. QED
  BY <1>1, <1>2 DEF CanGrant, OwnsExclusive

\* A step inside lock() or unlock(): what it does to the others.
InLock(t, s) ==
    /\ backend' = backend /\ connected' = connected
    /\ UNCHANGED sessionVars
    /\ disturbed \subseteq disturbed'
    /\ Session(t) = s /\ Session(t)' = s
    /\ \A u \in Threads \ {t} : pc'[u] = pc[u] /\ call'[u] = call[u] /\ op'[u] = op[u]
    /\ \A o \in Sessions \ {s} : SameLock(o)
    /\ pc[t] \in Locking \cup Unlocking /\ pc'[t] \in Locking \cup Unlocking \cup {"finish"}
    /\ ~connected[s] => remote'[s] = "none"
    /\ t \notin operations[s] /\ Depth(s) = 0 => Depth(s)' = 0

LEMMA InLockInv ==
    ASSUME SessionInv, TypeOK', WellFormed(lock)', NEW t \in Threads, NEW s \in Sessions,
           InLock(t, s), ThreadInv(t)', Proceeds(t, s)
    PROVE  SessionInv'
<1>1. InCall(t, s)
  <2>1. pc[t] \notin Closing /\ pc'[t] \notin Closing
    BY DEF InLock, Locking, Unlocking, Closing
  <2>. QED
    BY <2>1 DEF InLock, InCall, sessionVars
<1>2. MovesQuietly(t, s)
  BY <1>1, LockerMoves DEF InLock
<1>. QED
  BY <1>1, <1>2, CallInv

LEMMA AcquireInv ==
    ASSUME SessionInv, NEW t \in Threads, NEW key \in Nat, Acquire(t, key) PROVE SessionInv'
<1>0. PICK s \in Sessions : Session(t) = s
  BY DEF SessionInv, ThreadInv, Acquire
<1>1. /\ TypeOK /\ ThreadInv(t) /\ WellFormed(lock) /\ CloseInv(s)
      /\ pc[t] = "acquire" /\ op[t] = "pending"
  BY DEF SessionInv, Acquire
<1>2. PICK m \in LockTypes : call[t].type = m
  BY <1>1 DEF ThreadInv, Locking
<1>3. /\ lock \in LockStates /\ nextKey \in Nat \ {0}
      /\ CanGrant(lock, s, m, key) /\ lock' = Grant(lock, s, m, nextKey)
      /\ nextKey' \in Nat \ {0}
  BY <1>0, <1>1, <1>2 DEF TypeOK, Acquire
<1>4. PICK place \in {"remote", "complete"} :
          /\ Goto(t, place)
          /\ place = IF call[t].depth = 0 THEN "remote" ELSE "complete"
  BY DEF Acquire
<1>5. /\ lock' \in LockStates /\ WellFormed(lock')
      /\ Depth(s)' = Depth(s) + 1 /\ Mode(s)' = m
      /\ \A o \in Sessions \ {s} : Depth(o)' = Depth(o) /\ Mode(o)' = Mode(o)
  BY <1>1, <1>3, GrantEffect DEF Depth, Mode
<1>6. /\ Depth(s) \in Nat
      /\ Depth(s) > 0 => Mode(s) = m
      /\ Depth(s) = 0 => Mode(s) = "none"
  BY <1>1, <1>3, OwnedTypeAndDepth, GrantKeepsType DEF Depth, Mode
<1>7. TypeOK'
  <2>1. call' \in [Threads -> Calls]
    BY <1>1, ReportType DEF Acquire, Statuses
  <2>2. pc' \in [Threads -> PCs]
    BY <1>1, <1>4 DEF TypeOK, Goto, PCs, Locking
  <2>. QED
    BY <1>1, <1>3, <1>5, <2>1, <2>2 DEF TypeOK, Acquire, deviceVars, sessionVars, Calls
<1>8. /\ pc'[t] = place /\ op' = op /\ call'[t].status = "ok"
      /\ call'[t].type = m /\ call'[t].depth = call[t].depth /\ Session(t)' = s
      /\ UNCHANGED <<deviceVars, sessionVars, held, disturbed>>
      /\ \A u \in Threads \ {t} : pc'[u] = pc[u] /\ call'[u] = call[u]
  BY <1>0, <1>1, <1>2, <1>4 DEF TypeOK, Acquire, Goto, Report, Session
<1>9. t \in operations[s]
  BY <1>0, <1>1 DEF ThreadInv, Registered
<1>10. InLock(t, s)
  BY <1>0, <1>1, <1>5, <1>8, <1>9
     DEF InLock, SameLock, deviceVars, sessionVars, CloseInv, Locking
<1>11. ThreadInv(t)'
  BY <1>0, <1>1, <1>2, <1>8, <1>9 DEF ThreadInv, Registered, Locking, Io, sessionVars
<1>12. Proceeds(t, s)
  <2>. SUFFICES ASSUME Doing(t, s) PROVE Doing(t, s)'
    BY <1>8 DEF Proceeds, Locking
  <2>1. Agree(s) /\ call[t].depth = Depth(s)
    BY <1>1 DEF Doing
  <2>2. \A d : Device(s, d)' <=> Device(s, d)
    BY <1>8 DEF Device, deviceVars
  <2>3. CASE Depth(s) = 0
    <3>1. held'[s] = 0 /\ Depth(s)' = 1 /\ Device(s, "none")'
      BY <1>5, <1>6, <1>8, <2>1, <2>2, <2>3 DEF Agree, Mapped
    <3>. QED
      BY <1>1, <1>4, <1>5, <1>8, <2>1, <2>3, <3>1 DEF Doing
  <2>4. CASE Depth(s) > 0
    <3>1. Mapped(m)' = Mapped(m)
      BY <1>8 DEF Mapped, deviceVars
    <3>2. Depth(s)' = held'[s] + 1 /\ Device(s, Mapped(Mode(s)))'
      BY <1>5, <1>6, <1>8, <2>1, <2>2, <2>4, <3>1 DEF Agree
    <3>3. pc'[t] = "complete"
      BY <1>4, <1>6, <1>8, <2>1, <2>4
    <3>. QED
      BY <1>1, <1>8, <3>2, <3>3 DEF Doing
  <2>. QED
    BY <1>6, <2>3, <2>4
<1>. QED
  BY <1>5, <1>7, <1>10, <1>11, <1>12, InLockInv

\* A level given back, by a rollback, a lost completion or unlock().
LEMMA ReleaseInLock ==
    ASSUME TypeOK, WellFormed(lock), NEW s \in Sessions, lock' = Release(lock, s)
    PROVE  /\ lock' \in LockStates /\ WellFormed(lock') /\ Depth(s) \in Nat
           /\ Depth(s) = 0 => Depth(s)' = 0
           /\ Depth(s) > 0 => Depth(s)' = Depth(s) - 1
           /\ Depth(s) = 1 => Mode(s)' = "none"
           /\ Depth(s) > 1 => Mode(s)' = Mode(s)
           /\ \A o \in Sessions \ {s} : Depth(o)' = Depth(o) /\ Mode(o)' = Mode(o)
<1>1. lock \in LockStates
  BY DEF TypeOK
<1>. QED
  BY <1>1, ReleaseAny, OwnedTypeAndDepth DEF Depth, Mode

LEMMA RollbackInv ==
    ASSUME SessionInv, NEW t \in Threads, Rollback(t) PROVE SessionInv'
<1>0. PICK s \in Sessions : Session(t) = s
  BY DEF SessionInv, ThreadInv, Rollback
<1>1. TypeOK /\ ThreadInv(t) /\ WellFormed(lock) /\ CloseInv(s) /\ pc[t] = "rollback"
  BY DEF SessionInv, Rollback
<1>2. /\ lock' \in LockStates /\ WellFormed(lock') /\ Depth(s) \in Nat
      /\ Depth(s) = 0 => Depth(s)' = 0
      /\ Depth(s) = 1 => Depth(s)' = 0 /\ Mode(s)' = "none"
      /\ \A o \in Sessions \ {s} : Depth(o)' = Depth(o) /\ Mode(o)' = Mode(o)
  <2>1. lock' = Release(lock, s)
    BY <1>0 DEF Rollback
  <2>. QED
    BY <1>1, <2>1, ReleaseInLock
<1>3. /\ pc'[t] = "complete" /\ op' = op /\ call' = call /\ Session(t)' = s
      /\ UNCHANGED <<deviceVars, sessionVars, held, disturbed>>
      /\ \A u \in Threads \ {t} : pc'[u] = pc[u]
  BY <1>0, <1>1 DEF TypeOK, Rollback, Goto, Session
<1>4. TypeOK'
  BY <1>1, <1>2 DEF TypeOK, Rollback, Goto, PCs, Locking, deviceVars, sessionVars
<1>5. t \in operations[s]
  BY <1>0, <1>1 DEF ThreadInv, Registered
<1>6. InLock(t, s)
  BY <1>0, <1>1, <1>2, <1>3 DEF InLock, SameLock, deviceVars, sessionVars, CloseInv, Locking
<1>7. ThreadInv(t)'
  BY <1>0, <1>1, <1>3, <1>5 DEF ThreadInv, Registered, Locking, Io, sessionVars
<1>8. Proceeds(t, s)
  <2>. SUFFICES ASSUME Doing(t, s) PROVE Doing(t, s)'
    BY <1>3 DEF Proceeds, Locking
  <2>1. call[t].status = "error" /\ held[s] = 0 /\ Depth(s) = 1 /\ Device(s, "none")
    BY <1>1 DEF Doing
  <2>2. Device(s, "none")'
    BY <1>3, <2>1 DEF Device, deviceVars
  <2>3. Agree(s)'
    BY <1>2, <1>3, <2>1, <2>2 DEF Agree, Mapped
  <2>. QED
    BY <1>2, <1>3, <2>1, <2>3 DEF Doing
<1>. QED
  BY <1>2, <1>4, <1>6, <1>7, <1>8, InLockInv

LEMMA CompleteLockLosesInv ==
    ASSUME SessionInv, NEW t \in Threads, CompleteLockLoses(t) PROVE SessionInv'
<1>0. PICK s \in Sessions : Session(t) = s
  BY DEF SessionInv, ThreadInv, CompleteLockLoses
<1>1. TypeOK /\ ThreadInv(t) /\ WellFormed(lock) /\ CloseInv(s) /\ pc[t] = "complete" /\ op[t] # "pending"
  BY DEF SessionInv, CompleteLockLoses
<1>2. /\ lock' \in LockStates /\ WellFormed(lock')
      /\ Depth(s) = 0 => Depth(s)' = 0
      /\ \A o \in Sessions \ {s} : Depth(o)' = Depth(o) /\ Mode(o)' = Mode(o)
  <2>1. lock' = Release(lock, s)
    BY <1>0 DEF CompleteLockLoses
  <2>. QED
    BY <1>1, <2>1, ReleaseInLock
<1>3. /\ pc'[t] = "finish" /\ op' = op /\ Session(t)' = s
      /\ UNCHANGED <<deviceVars, sessionVars, held, disturbed>>
      /\ \A u \in Threads \ {t} : pc'[u] = pc[u] /\ call'[u] = call[u]
  BY <1>0, <1>1 DEF TypeOK, CompleteLockLoses, Goto, Report, Session
<1>4. TypeOK'
  <2>1. call' \in [Threads -> Calls]
    BY <1>1, ReportType DEF CompleteLockLoses, Statuses
  <2>2. pc' \in [Threads -> PCs]
    BY <1>1 DEF TypeOK, CompleteLockLoses, Goto, PCs
  <2>. QED
    BY <1>1, <1>2, <2>1, <2>2 DEF TypeOK, CompleteLockLoses, deviceVars, sessionVars, Calls
<1>5. InLock(t, s)
  BY <1>0, <1>1, <1>2, <1>3 DEF InLock, SameLock, deviceVars, sessionVars, CloseInv, Locking
<1>6. ThreadInv(t)'
  BY <1>0, <1>1, <1>3 DEF ThreadInv, Registered, Locking, Io, sessionVars
<1>7. Proceeds(t, s)
  <2>. SUFFICES ASSUME Doing(t, s) PROVE Agree(s)'
    BY <1>3 DEF Proceeds, Locking, Unlocking
  <2>1. Agree(s) /\ Depth(s) = 0
    BY <1>1 DEF Doing
  <2>2. Mode(s) = "none" /\ Mode(s)' = "none" /\ Depth(s)' = 0
    BY <1>1, <1>2, <2>1, OwnedTypeAndDepth DEF Depth, Mode, TypeOK
  <2>. QED
    BY <1>3, <2>1, <2>2 DEF Agree, Device, Mapped, deviceVars
<1>. QED
  BY <1>2, <1>4, <1>5, <1>6, <1>7, InLockInv

LEMMA CompleteLockInv ==
    ASSUME SessionInv, NEW t \in Threads, CompleteLock(t) PROVE SessionInv'
<1>0. PICK s \in Sessions : Session(t) = s
  BY DEF SessionInv, ThreadInv, CompleteLock
<1>1. TypeOK /\ ThreadInv(t) /\ WellFormed(lock) /\ CloseInv(s) /\ pc[t] = "complete"
  BY DEF SessionInv, CompleteLock
<1>2. /\ lock' = lock /\ pc'[t] = "finish" /\ op'[t] = "done" /\ call' = call /\ Session(t)' = s
      /\ UNCHANGED <<deviceVars, sessionVars, disturbed>>
      /\ held'[s] = (IF call[t].status = "ok" THEN held[s] + 1 ELSE held[s])
      /\ \A u \in Threads \ {t} : pc'[u] = pc[u] /\ op'[u] = op[u]
      /\ \A o \in Sessions \ {s} : held'[o] = held[o]
  BY <1>0, <1>1 DEF TypeOK, CompleteLock, Goto, Session
<1>3. TypeOK'
  <2>1. held' \in [Sessions -> Nat]
    BY <1>0, <1>1 DEF TypeOK, CompleteLock
  <2>. QED
    BY <1>1, <2>1 DEF TypeOK, CompleteLock, Goto, PCs, deviceVars, sessionVars
<1>4. \A o \in Sessions : Depth(o)' = Depth(o) /\ Mode(o)' = Mode(o) /\ Mapped(Mode(o))' = Mapped(Mode(o))
  BY <1>2 DEF Depth, Mode, Mapped, deviceVars
<1>5. InLock(t, s)
  BY <1>0, <1>1, <1>2, <1>4 DEF InLock, SameLock, deviceVars, sessionVars, CloseInv, Locking
<1>6. ThreadInv(t)'
  BY <1>0, <1>1, <1>2 DEF ThreadInv, Registered, Locking, Io, sessionVars
<1>7. Proceeds(t, s)
  <2>. SUFFICES ASSUME Doing(t, s) PROVE Agree(s)'
    BY <1>2 DEF Proceeds, Locking, Unlocking
  <2>1. IF call[t].status = "ok" THEN Depth(s) = held[s] + 1 /\ Device(s, Mapped(Mode(s))) ELSE Agree(s)
    BY <1>1 DEF Doing
  <2>2. Device(s, Mapped(Mode(s)))' <=> Device(s, Mapped(Mode(s)))
    BY <1>2, <1>4 DEF Device, deviceVars
  <2>. QED
    BY <1>2, <1>4, <2>1, <2>2 DEF Agree
<1>8. WellFormed(lock)'
  BY <1>1, <1>2
<1>. QED
  BY <1>3, <1>5, <1>6, <1>7, <1>8, InLockInv

LEMMA ReleaseLevelInv ==
    ASSUME SessionInv, NEW t \in Threads, ReleaseLevel(t) PROVE SessionInv'
<1>0. PICK s \in Sessions : Session(t) = s
  BY DEF SessionInv, ThreadInv, ReleaseLevel
<1>1. TypeOK /\ ThreadInv(t) /\ WellFormed(lock) /\ CloseInv(s) /\ pc[t] \in {"nested", "release"}
  BY DEF SessionInv, ReleaseLevel
<1>2. /\ lock' \in LockStates /\ WellFormed(lock') /\ Depth(s) \in Nat
      /\ Depth(s) = 0 => Depth(s)' = 0
      /\ Depth(s) > 0 => Depth(s)' = Depth(s) - 1
      /\ Depth(s) = 1 => Mode(s)' = "none"
      /\ Depth(s) > 1 => Mode(s)' = Mode(s)
      /\ \A o \in Sessions \ {s} : Depth(o)' = Depth(o) /\ Mode(o)' = Mode(o)
  <2>1. lock' = Release(lock, s)
    BY <1>0 DEF ReleaseLevel
  <2>. QED
    BY <1>1, <2>1, ReleaseInLock
<1>3. PICK status \in Statuses : Report(t, status)
  BY DEF ReleaseLevel, Statuses
<1>4. /\ pc'[t] = "finish" /\ op' = op /\ Session(t)' = s
      /\ UNCHANGED <<deviceVars, sessionVars, disturbed>>
      /\ held'[s] = (IF held[s] > 0 /\ Depth(s) > 0 THEN held[s] - 1 ELSE held[s])
      /\ held' \in [Sessions -> Nat]
      /\ \A u \in Threads \ {t} : pc'[u] = pc[u] /\ call'[u] = call[u]
      /\ \A o \in Sessions \ {s} : held'[o] = held[o]
  BY <1>0, <1>1, <1>3 DEF TypeOK, ReleaseLevel, Goto, Report, Session
<1>5. TypeOK'
  <2>1. call' \in [Threads -> Calls]
    BY <1>1, <1>3, ReportType
  <2>2. pc' \in [Threads -> PCs]
    BY <1>1 DEF TypeOK, ReleaseLevel, Goto, PCs
  <2>. QED
    BY <1>1, <1>2, <1>4, <2>1, <2>2 DEF TypeOK, ReleaseLevel, deviceVars, sessionVars, Calls
<1>6. InLock(t, s)
  BY <1>0, <1>1, <1>2, <1>4 DEF InLock, SameLock, deviceVars, sessionVars, CloseInv, Unlocking
<1>7. ThreadInv(t)'
  BY <1>0, <1>1, <1>4 DEF ThreadInv, Registered, Locking, Io, sessionVars
<1>8. Proceeds(t, s)
  <2>. SUFFICES ASSUME Doing(t, s) PROVE Agree(s)'
    BY <1>4 DEF Proceeds, Locking, Unlocking
  <2>1. \A m : Device(s, m)' <=> Device(s, m)
    BY <1>4 DEF Device, deviceVars
  <2>2. CASE pc[t] = "nested"
    <3>1. Agree(s) /\ Depth(s) > 1
      BY <2>2 DEF Doing
    <3>2. Mapped(Mode(s))' = Mapped(Mode(s))
      BY <1>2, <1>4, <3>1 DEF Mapped, deviceVars
    <3>. QED
      BY <1>2, <1>4, <2>1, <3>1, <3>2 DEF Agree
  <2>3. CASE pc[t] = "release"
    <3>1. held[s] = 1 /\ Depth(s) = 1 /\ Device(s, "none")
      BY <2>3 DEF Doing
    <3>. QED
      BY <1>2, <1>4, <2>1, <3>1 DEF Agree, Mapped
  <2>. QED
    BY <1>1, <2>2, <2>3
<1>. QED
  BY <1>2, <1>5, <1>6, <1>7, <1>8, InLockInv

-----------------------------------------------------------------------------
\* The lock on the device changes, or not, and the local one does not.
LEMMA LockUnchanged ==
    ASSUME UNCHANGED lockVars
    PROVE  /\ WellFormed(lock) => WellFormed(lock)'
           /\ \A o \in Sessions : Depth(o)' = Depth(o) /\ Mode(o)' = Mode(o)
           /\ held' = held
BY DEF lockVars, Depth, Mode

\* The Operation of the thread, after an exchange.
LEMMA OperationAfter ==
    ASSUME TypeOK, NEW t \in Threads, op' = op \/ TryComplete(t)
    PROVE  /\ op' \in [Threads -> {"none", "pending", "aborted", "done"}]
           /\ op'[t] \in {op[t], "done"}
           /\ \A u \in Threads \ {t} : op'[u] = op[u]
BY DEF TypeOK, TryComplete

\* A step of lock() or unlock() in the backend.
AtDevice(t, s) ==
    /\ UNCHANGED <<lockVars, sessionVars>>
    /\ backend' = backend /\ connected' = connected
    /\ op'[t] \in {op[t], "done"}
    /\ \A u \in Threads \ {t} : op'[u] = op[u]
    /\ disturbed \subseteq disturbed'
    /\ Session(t) = s /\ Session(t)' = s /\ call'[t].type = call[t].type
    /\ \A u \in Threads \ {t} : pc'[u] = pc[u] /\ call'[u] = call[u]
    /\ \A o \in Sessions \ {s} : remote'[o] = remote[o] /\ believed'[o] = believed[o]
    /\ \/ pc[t] = "remote" /\ pc'[t] \in {"complete", "rollback"}
       \/ pc[t] = "device" /\ pc'[t] = "answer"
    /\ remote'[s] \in {remote[s], "none"} \/ connected[s]

LEMMA AtDeviceInv ==
    ASSUME SessionInv, TypeOK', NEW t \in Threads, NEW s \in Sessions, AtDevice(t, s),
           s \notin disturbed' /\ Doing(t, s) => Doing(t, s)'
    PROVE  SessionInv'
<1>1. ThreadInv(t) /\ CloseInv(s) /\ WellFormed(lock)
  BY DEF SessionInv
<1>2. WellFormed(lock)' /\ (\A o \in Sessions : Depth(o)' = Depth(o) /\ Mode(o)' = Mode(o)) /\ held' = held
  BY <1>1, LockUnchanged DEF AtDevice
<1>3. InLock(t, s)
  <2>1. \A o \in Sessions \ {s} : SameLock(o)
    BY <1>2 DEF AtDevice, SameLock
  <2>2. ~connected[s] => remote'[s] = "none"
    BY <1>1 DEF CloseInv, AtDevice
  <2>. QED
    BY <1>2, <2>1, <2>2 DEF AtDevice, InLock, Locking, Unlocking
<1>4. ThreadInv(t)'
  BY <1>1 DEF AtDevice, ThreadInv, Registered, Locking, Io, sessionVars
<1>5. Proceeds(t, s)
  BY DEF Proceeds, AtDevice, Locking, Unlocking
<1>. QED
  BY <1>2, <1>3, <1>4, <1>5, InLockInv

LEMMA RemoteLockInv ==
    ASSUME SessionInv, NEW t \in Threads, RemoteLock(t) PROVE SessionInv'
<1>0. PICK s \in Sessions : Session(t) = s
  BY DEF SessionInv, ThreadInv, RemoteLock
<1>1. TypeOK /\ ThreadInv(t) /\ pc[t] = "remote"
  BY DEF SessionInv, RemoteLock
<1>2. PICK m \in LockTypes : call[t].type = m
  BY <1>1 DEF ThreadInv, Locking
<1>3. \/ /\ LocksDevice(t) /\ connected[s]
         /\ remote' = [remote EXCEPT ![s] = m]
         /\ believed' = [believed EXCEPT ![s] = (backend = "hislip")]
      \/ ~LocksDevice(t) /\ remote' = remote /\ believed' = believed
  BY <1>0, <1>2 DEF RemoteLock
<1>4. remote' \in [Sessions -> LockTypes \cup {"none"}] /\ believed' \in [Sessions -> BOOLEAN]
  <2>1. remote' \in [Sessions -> LockTypes \cup {"none"}]
    BY <1>1, <1>3 DEF TypeOK
  <2>2. PICK b \in BOOLEAN : b <=> backend = "hislip"
    OBVIOUS
  <2>3. believed' = [believed EXCEPT ![s] = b] \/ believed' = believed
    BY <1>3, <2>2
  <2>4. believed' \in [Sessions -> BOOLEAN]
    BY <1>1, <2>2, <2>3 DEF TypeOK
  <2>. QED
    BY <2>1, <2>4
<1>5. TypeOK'
  BY <1>1, <1>4 DEF TypeOK, RemoteLock, Goto, PCs, Locking, lockVars, sessionVars
<1>6. AtDevice(t, s) /\ pc'[t] = "complete" /\ call' = call
  <2>1. pc'[t] = "complete" /\ call' = call /\ \A u \in Threads \ {t} : pc'[u] = pc[u]
    BY <1>1 DEF RemoteLock, Goto, TypeOK
  <2>2. /\ \A o \in Sessions \ {s} : remote'[o] = remote[o] /\ believed'[o] = believed[o]
        /\ remote'[s] = remote[s] \/ connected[s]
    BY <1>1, <1>3 DEF TypeOK
  <2>. QED
    BY <1>0, <1>1, <2>1, <2>2 DEF AtDevice, RemoteLock, Session
<1>7. ASSUME Doing(t, s) PROVE Doing(t, s)'
  <2>1. /\ op[t] = "pending" /\ call[t].status = "ok"
        /\ held[s] = 0 /\ Depth(s) = 1 /\ Mode(s) = m /\ Device(s, "none")
    BY <1>1, <1>2, <1>7 DEF Doing
  <2>2. held'[s] = 0 /\ Depth(s)' = 1 /\ Mode(s)' = m /\ op' = op /\ backend' = backend
    BY <1>6, <2>1, LockUnchanged DEF AtDevice, RemoteLock
  <2>3. Device(s, Mapped(Mode(s)))'
    <3>1. CASE LocksDevice(t)
      <4>1. Mapped(m)' = m
        BY <1>2, <2>2, <3>1 DEF Mapped, LocksDevice
      <4>2. remote'[s] = m /\ (believed'[s] <=> backend = "hislip")
        BY <1>1, <1>3, <3>1 DEF TypeOK
      <4>3. m # "none"
        BY DEF LockTypes
      <4>. QED
        BY <2>2, <4>1, <4>2, <4>3 DEF Device
    <3>2. CASE ~LocksDevice(t)
      <4>1. Mapped(m)' = "none"
        BY <1>2, <2>2, <3>2 DEF Mapped, LocksDevice
      <4>2. remote' = remote /\ believed' = believed
        BY <1>3, <3>2
      <4>. QED
        BY <2>1, <2>2, <4>1, <4>2 DEF Device
    <3>. QED
      BY <3>1, <3>2
  <2>. QED
    BY <1>6, <2>1, <2>2, <2>3 DEF Doing
<1>. QED
  BY <1>5, <1>6, <1>7, AtDeviceInv

LEMMA RemoteLockFailsInv ==
    ASSUME SessionInv, NEW t \in Threads, RemoteLockFails(t) PROVE SessionInv'
<1>0. PICK s \in Sessions : Session(t) = s
  BY DEF SessionInv, ThreadInv, RemoteLockFails
<1>1. TypeOK /\ ThreadInv(t) /\ pc[t] = "remote" /\ call[t].type \in LockTypes
  BY DEF SessionInv, RemoteLockFails, ThreadInv, Locking
<1>2. \/ remote' = remote /\ disturbed' = disturbed
      \/ /\ connected[s] /\ disturbed' = disturbed \cup {s}
         /\ remote' = [remote EXCEPT ![s] = call[t].type]
  BY <1>0 DEF RemoteLockFails
<1>3. /\ remote' \in [Sessions -> LockTypes \cup {"none"}] /\ disturbed' \in SUBSET Sessions
      /\ disturbed \subseteq disturbed'
  BY <1>1, <1>2 DEF TypeOK
<1>8. /\ op' \in [Threads -> {"none", "pending", "aborted", "done"}]
      /\ op'[t] \in {op[t], "done"}
      /\ \A u \in Threads \ {t} : op'[u] = op[u]
  <2>1. op' = op \/ TryComplete(t)
    BY DEF RemoteLockFails
  <2>. QED
    BY <1>1, <2>1, OperationAfter
<1>4. TypeOK'
  <2>1. call' \in [Threads -> Calls]
    BY <1>1, ReportType DEF RemoteLockFails, Statuses
  <2>2. pc' \in [Threads -> PCs]
    BY <1>1 DEF TypeOK, RemoteLockFails, Goto, PCs, Locking
  <2>. QED
    BY <1>1, <1>3, <1>8, <2>1, <2>2 DEF TypeOK, RemoteLockFails, lockVars, sessionVars, Calls
<1>5. /\ pc'[t] = "rollback" /\ Session(t)' = s
      /\ call'[t].type = call[t].type /\ call'[t].status = "error"
      /\ \A u \in Threads \ {t} : pc'[u] = pc[u] /\ call'[u] = call[u]
  BY <1>0, <1>1 DEF RemoteLockFails, Goto, Report, TypeOK, Session
<1>6. AtDevice(t, s)
  <2>1. /\ \A o \in Sessions \ {s} : remote'[o] = remote[o]
        /\ remote'[s] = remote[s] \/ connected[s]
    BY <1>1, <1>2 DEF TypeOK
  <2>. QED
    BY <1>0, <1>1, <1>3, <1>5, <1>8, <2>1 DEF AtDevice, RemoteLockFails
<1>7. ASSUME s \notin disturbed', Doing(t, s) PROVE Doing(t, s)'
  <2>1. held[s] = 0 /\ Depth(s) = 1 /\ Device(s, "none")
    BY <1>1, <1>7 DEF Doing
  <2>2. held'[s] = 0 /\ Depth(s)' = 1 /\ backend' = backend
    BY <1>6, <2>1, LockUnchanged DEF AtDevice
  <2>3. Device(s, "none")'
    BY <1>2, <1>7, <2>1, <2>2 DEF Device, RemoteLockFails
  <2>. QED
    BY <1>5, <2>1, <2>2, <2>3 DEF Doing
<1>. QED
  BY <1>4, <1>6, <1>7, AtDeviceInv

LEMMA RemoteUnlockInv ==
    ASSUME SessionInv, NEW t \in Threads, RemoteUnlock(t) PROVE SessionInv'
<1>0. PICK s \in Sessions : Session(t) = s
  BY DEF SessionInv, ThreadInv, RemoteUnlock
<1>1. TypeOK /\ ThreadInv(t) /\ pc[t] = "device"
  BY DEF SessionInv, RemoteUnlock
<1>2. \/ /\ backend = "local" \/ (backend = "hislip" /\ ~believed[s])
         /\ remote' = remote /\ believed' = believed
      \/ /\ connected[s]
         /\ remote' = [remote EXCEPT ![s] = "none"]
         /\ believed' = [believed EXCEPT ![s] = FALSE]
  BY <1>0 DEF RemoteUnlock
<1>3. remote' \in [Sessions -> LockTypes \cup {"none"}] /\ believed' \in [Sessions -> BOOLEAN]
  BY <1>1, <1>2 DEF TypeOK
<1>4. TypeOK'
  <2>1. call' \in [Threads -> Calls]
    BY <1>1, ReportType DEF RemoteUnlock, Statuses
  <2>2. pc' \in [Threads -> PCs]
    BY <1>1 DEF TypeOK, RemoteUnlock, Goto, PCs, Unlocking
  <2>. QED
    BY <1>1, <1>3, <2>1, <2>2 DEF TypeOK, RemoteUnlock, lockVars, sessionVars, Calls
<1>5. /\ pc'[t] = "answer" /\ Session(t)' = s
      /\ call'[t].type = call[t].type /\ call'[t].status = "ok"
      /\ \A u \in Threads \ {t} : pc'[u] = pc[u] /\ call'[u] = call[u]
  BY <1>0, <1>1 DEF RemoteUnlock, Goto, Report, TypeOK, Session
<1>6. AtDevice(t, s)
  <2>1. /\ \A o \in Sessions \ {s} : remote'[o] = remote[o] /\ believed'[o] = believed[o]
        /\ remote'[s] \in {remote[s], "none"}
    BY <1>1, <1>2 DEF TypeOK
  <2>. QED
    BY <1>0, <1>1, <1>5, <2>1 DEF AtDevice, RemoteUnlock
<1>7. ASSUME Doing(t, s) PROVE Doing(t, s)'
  <2>1. op[t] = "pending" /\ Agree(s) /\ Depth(s) = 1
    BY <1>1, <1>7 DEF Doing
  <2>2. held'[s] = 1 /\ Depth(s)' = 1 /\ op' = op /\ backend' = backend
    BY <1>6, <2>1, LockUnchanged DEF AtDevice, Agree, RemoteUnlock
  <2>3. Device(s, "none")'
    <3>1. CASE /\ backend = "local" \/ (backend = "hislip" /\ ~believed[s])
               /\ remote' = remote /\ believed' = believed
      <4>1. Device(s, "none")
        BY <2>1, <3>1 DEF Agree, Device, Mapped
      <4>. QED
        BY <2>2, <3>1, <4>1 DEF Device
    <3>2. CASE /\ remote' = [remote EXCEPT ![s] = "none"]
               /\ believed' = [believed EXCEPT ![s] = FALSE]
      <4>1. remote'[s] = "none" /\ ~believed'[s]
        BY <1>1, <3>2 DEF TypeOK
      <4>. QED
        BY <4>1 DEF Device
    <3>. QED
      BY <1>2, <3>1, <3>2
  <2>. QED
    BY <1>5, <2>1, <2>2, <2>3 DEF Doing
<1>. QED
  BY <1>4, <1>6, <1>7, AtDeviceInv

LEMMA RemoteUnlockFailsInv ==
    ASSUME SessionInv, NEW t \in Threads, RemoteUnlockFails(t) PROVE SessionInv'
<1>0. PICK s \in Sessions : Session(t) = s
  BY DEF SessionInv, ThreadInv, RemoteUnlockFails
<1>1. TypeOK /\ ThreadInv(t) /\ pc[t] = "device"
  BY DEF SessionInv, RemoteUnlockFails
<1>2. \/ remote' = remote /\ disturbed' = disturbed
      \/ disturbed' = disturbed \cup {s} /\ remote' = [remote EXCEPT ![s] = "none"]
  BY <1>0 DEF RemoteUnlockFails
<1>3. PICK status \in {"nlocked", "error"} : Report(t, status)
  BY DEF RemoteUnlockFails
<1>4. /\ remote' \in [Sessions -> LockTypes \cup {"none"}] /\ disturbed' \in SUBSET Sessions
      /\ disturbed \subseteq disturbed'
  BY <1>1, <1>2 DEF TypeOK
<1>9. /\ op' \in [Threads -> {"none", "pending", "aborted", "done"}]
      /\ op'[t] \in {op[t], "done"}
      /\ \A u \in Threads \ {t} : op'[u] = op[u]
  <2>1. op' = op \/ TryComplete(t)
    BY DEF RemoteUnlockFails
  <2>. QED
    BY <1>1, <2>1, OperationAfter
<1>5. TypeOK'
  <2>1. call' \in [Threads -> Calls]
    BY <1>1, <1>3, ReportType DEF Statuses
  <2>2. pc' \in [Threads -> PCs]
    BY <1>1 DEF TypeOK, RemoteUnlockFails, Goto, PCs, Unlocking
  <2>3. /\ UNCHANGED <<lockVars, backend, believed, connected, sessionVars, toCancel, calls>>
    BY DEF RemoteUnlockFails
  <2>. QED
    BY <1>1, <1>4, <1>9, <2>1, <2>2, <2>3 DEF TypeOK, lockVars, sessionVars, Calls
<1>6. /\ pc'[t] = "answer" /\ Session(t)' = s
      /\ call'[t].type = call[t].type /\ call'[t].status # "ok"
      /\ \A u \in Threads \ {t} : pc'[u] = pc[u] /\ call'[u] = call[u]
  <2>1. pc'[t] = "answer" /\ \A u \in Threads \ {t} : pc'[u] = pc[u]
    BY <1>1 DEF RemoteUnlockFails, Goto, TypeOK
  <2>2. /\ call'[t].session = call[t].session /\ call'[t].type = call[t].type /\ call'[t].status = status
        /\ \A u \in Threads \ {t} : call'[u] = call[u]
    BY <1>1, <1>3 DEF Report, TypeOK
  <2>. QED
    BY <1>0, <1>3, <2>1, <2>2 DEF Session
<1>7. AtDevice(t, s)
  <2>1. /\ \A o \in Sessions \ {s} : remote'[o] = remote[o]
        /\ remote'[s] \in {remote[s], "none"}
    BY <1>1, <1>2 DEF TypeOK
  <2>2. UNCHANGED <<lockVars, backend, believed, connected, sessionVars>>
    BY DEF RemoteUnlockFails
  <2>. QED
    BY <1>0, <1>1, <1>4, <1>6, <1>9, <2>1, <2>2 DEF AtDevice
<1>8. ASSUME s \notin disturbed', Doing(t, s) PROVE Doing(t, s)'
  <2>1. Agree(s) /\ Depth(s) = 1
    BY <1>1, <1>8 DEF Doing
  <2>2. UNCHANGED <<lockVars, deviceVars>>
    BY <1>2, <1>8 DEF RemoteUnlockFails, deviceVars
  <2>3. Agree(s)'
    BY <2>1, <2>2, SameLocks
  <2>. QED
    BY <1>6, <2>1, <2>2, <2>3 DEF Doing
<1>. QED
  BY <1>5, <1>7, <1>8, AtDeviceInv

-----------------------------------------------------------------------------
LEMMA RequestCancelInv ==
    ASSUME SessionInv, NEW t \in Threads, NEW u \in Threads, RequestCancel(t, u) PROVE SessionInv'
<1>0. PICK s \in Sessions : Session(t) = s
  BY DEF SessionInv, ThreadInv, RequestCancel
<1>1. TypeOK /\ ThreadInv(t) /\ ThreadInv(u) /\ WellFormed(lock) /\ CloseInv(s) /\ pc[t] = "cancelling"
  BY DEF SessionInv, RequestCancel
<1>2. /\ UNCHANGED <<lockVars, deviceVars, sessionVars, pc, call, calls>>
      /\ op' = [v \in Threads |-> IF v = u /\ op[v] = "pending" THEN "aborted" ELSE op[v]]
      /\ disturbed \subseteq disturbed'
      /\ disturbed' \subseteq Sessions
      /\ op[u] = "pending" /\ pc[u] \in Locking \cup Unlocking => Session(u) \in disturbed'
  <2>1. pc[u] \in Locking \cup Unlocking => Session(u) \in Sessions
    BY <1>1 DEF ThreadInv, Locking, Unlocking
  <2>2. disturbed \in SUBSET Sessions
    BY <1>1 DEF TypeOK
  <2>. QED
    BY <2>1, <2>2 DEF RequestCancel, Abort
<1>3. TypeOK'
  <2>1. toCancel' \in [Threads -> SUBSET Threads]
    BY <1>1 DEF TypeOK, RequestCancel
  <2>2. op' \in [Threads -> {"none", "pending", "aborted", "done"}]
    BY <1>1, <1>2 DEF TypeOK
  <2>. QED
    BY <1>1, <1>2, <2>1, <2>2 DEF TypeOK, lockVars, deviceVars, sessionVars
<1>4. /\ WellFormed(lock)' /\ Session(t)' = s /\ pc' = pc /\ call' = call
      /\ \A o \in Sessions : SameLock(o) /\ Depth(o)' = Depth(o)
      /\ alive' = alive /\ closed' = closed /\ connected' = connected /\ operations' = operations
      /\ backend' = backend /\ remote' = remote
  BY <1>0, <1>1, <1>2, SameLocks DEF deviceVars, sessionVars, Session
<1>5. \A v \in Threads :
          /\ op'[v] = op[v] \/ (op[v] = "pending" /\ op'[v] = "aborted")
          /\ pc[v] \in Locking \cup Unlocking => op'[v] = op[v] \/ Session(v) \in disturbed'
  BY <1>2
<1>6. Moves(t, s)
  <2>1. \A o \in Sessions \ {s} : SameSession(o)
    BY <1>2, <1>4 DEF SameSession
  <2>. QED
    BY <1>0, <1>4, <1>5, <2>1 DEF Moves
<1>7. pc[t] \notin Closing /\ pc'[t] \notin Closing /\ pc[t] \notin Locking \cup Unlocking
  BY <1>1, <1>4 DEF Closing, Locking, Unlocking
<1>8. CloseInv(s)'
  <2>1. ~connected[s] => remote'[s] = "none"
    BY <1>1, <1>4 DEF CloseInv
  <2>. QED
    BY <1>4, <1>6, <1>7, <2>1, CloseKept
<1>9. ThreadInv(t)'
  BY <1>0, <1>1, <1>4, <1>5 DEF ThreadInv, Registered
<1>10. MovesQuietly(t, s)
  <2>. SUFFICES ASSUME s \notin disturbed', alive'[s] PROVE MovesQuietly(t, s)
    BY DEF MovesQuietly
  <2>1. t \notin Lockers(s) /\ t \notin Lockers(s)' /\ SameLock(s)
    BY <1>4, <1>7 DEF Lockers
  <2>2. \A v \in Lockers(s) : op'[v] = op[v]
    BY <1>5 DEF Lockers
  <2>. QED
    BY <1>2, <1>4, <2>1, <2>2 DEF MovesQuietly
<1>. QED
  BY <1>3, <1>4, <1>6, <1>8, <1>9, <1>10, StepInv

\* viClose: no other thread is in close() of a session whose handle lives.
LEMMA CallCloseInv ==
    ASSUME SessionInv, NEW t \in Threads, NEW s \in Sessions, CallClose(t, s) PROVE SessionInv'
<1>. DEFINE c == [NoCall EXCEPT !.session = s]
<1>1. TypeOK /\ ThreadInv(t) /\ WellFormed(lock) /\ CloseInv(s) /\ pc[t] = "idle" /\ alive[s]
  BY DEF SessionInv, CallClose
<1>2. c \in Calls /\ c.session = s
  BY DEF Calls, NoCall, Statuses
<1>. HIDE DEF c
<1>3. /\ call' = [call EXCEPT ![t] = c] /\ pc' = [pc EXCEPT ![t] = "close"]
      /\ alive' = [alive EXCEPT ![s] = FALSE]
      /\ UNCHANGED <<lockVars, deviceVars, closed, operations, op, toCancel, disturbed, calls>>
  BY DEF CallClose, Goto, c
<1>4. /\ call'[t] = c /\ pc'[t] = "close" /\ ~alive'[s]
      /\ \A u \in Threads \ {t} : pc'[u] = pc[u] /\ call'[u] = call[u]
      /\ \A o \in Sessions \ {s} : alive'[o] = alive[o]
      /\ call' \in [Threads -> Calls] /\ pc' \in [Threads -> PCs] /\ alive' \in [Sessions -> BOOLEAN]
  BY <1>1, <1>2, <1>3 DEF TypeOK, PCs, Closing, Calls
<1>5. TypeOK'
  BY <1>1, <1>3, <1>4 DEF TypeOK, lockVars, deviceVars, Calls
<1>6. Session(t) = NoSession /\ Session(t)' = s /\ op[t] # "pending" /\ (\A o \in Sessions : t \notin operations[o])
  BY <1>1, <1>2, <1>4, IdleThread DEF Session
<1>7. /\ WellFormed(lock)' /\ \A o \in Sessions : SameLock(o)
      /\ backend' = backend /\ connected' = connected
  BY <1>1, <1>3, SameLocks DEF deviceVars
<1>8. Moves(t, s)
  <2>1. \A o \in Sessions \ {s} : SameSession(o)
    BY <1>3, <1>4, <1>7 DEF SameSession
  <2>. QED
    BY <1>3, <1>4, <1>6, <1>7, <2>1 DEF Moves
<1>9. ThreadInv(t)'
  BY <1>3, <1>4, <1>6 DEF ThreadInv, Registered, Locking, Io
<1>10. MovesQuietly(t, s)
  BY <1>4 DEF MovesQuietly
<1>11. CloseInv(s)'
  <2>1. connected[s] /\ ~closed[s] /\ \A u \in Inside(s) : pc[u] \notin Closing
    BY <1>1 DEF CloseInv
  <2>2. t \in Inside(s)' /\ pc'[t] \in Closing
    BY <1>4, <1>6 DEF Inside, Closing
  <2>3. \A u \in Inside(s)' : pc'[u] \in Closing => u = t
    BY <1>4, <2>1 DEF Inside, Session
  <2>. QED
    BY <1>3, <1>4, <1>7, <2>1, <2>2, <2>3 DEF CloseInv, Closing
<1>. QED
  BY <1>5, <1>7, <1>8, <1>9, <1>10, <1>11, StepInv

\* A step of close(), after which the session is closed as far as the next place
\* of the thread says.
Closes(t, s) ==
    /\ Session(t) = s /\ Session(t)' = s
    /\ pc[t] \in Closing /\ pc'[t] \in {"backend", "drain", "forget", "finish"}
    /\ alive' = alive /\ closed'[s]
    /\ connected'[s] \/ remote'[s] = "none"
    /\ pc'[t] # "backend" => ~connected'[s]
    /\ pc'[t] \in {"forget", "finish"} => operations'[s] = {}
    /\ pc'[t] = "finish" => Depth(s)' = 0

LEMMA ClosesInv ==
    ASSUME SessionInv, TypeOK', WellFormed(lock)', NEW t \in Threads, NEW s \in Sessions,
           Moves(t, s), Closes(t, s), ThreadInv(t)'
    PROVE  SessionInv'
<1>1. CloseInv(s) /\ t \in Inside(s) /\ t \in Inside(s)'
  BY DEF SessionInv, Closes, Inside
<1>2. ~alive[s] /\ ~alive'[s] /\ \A u \in Inside(s) : pc[u] \in Closing => u = t
  BY <1>1 DEF CloseInv, Closes
<1>3. MovesQuietly(t, s)
  BY <1>2 DEF MovesQuietly
<1>4. \A u \in Inside(s)' : pc'[u] \in Closing => u = t
  BY <1>2 DEF Inside, Session, Moves
<1>5. CloseInv(s)'
  <2>1. (\A u \in Inside(s)' : pc'[u] \notin Closing) => pc'[t] = "finish"
    BY <1>1 DEF Closes, Closing
  <2>2. \A u \in Inside(s)' : u # t => pc'[u] \notin {"backend", "drain", "forget"}
    BY <1>4 DEF Closing
  <2>. QED
    BY <1>2, <1>4, <2>1, <2>2 DEF CloseInv, Closes
<1>. QED
  BY <1>3, <1>5, StepInv

LEMMA BeginCloseInv ==
    ASSUME SessionInv, NEW t \in Threads, BeginClose(t) PROVE SessionInv'
<1>0. PICK s \in Sessions : Session(t) = s
  BY DEF SessionInv, ThreadInv, BeginClose
<1>1. TypeOK /\ ThreadInv(t) /\ WellFormed(lock) /\ CloseInv(s) /\ pc[t] = "close"
  BY DEF SessionInv, BeginClose
<1>2. /\ UNCHANGED <<lockVars, deviceVars, alive, operations, call, toCancel, disturbed, calls>>
      /\ op' = [u \in Threads |-> IF u \in operations[s] /\ op[u] = "pending" THEN "aborted" ELSE op[u]]
      /\ closed' = [closed EXCEPT ![s] = TRUE] /\ pc' = [pc EXCEPT ![t] = "backend"]
  BY <1>0 DEF BeginClose, Abort, Goto
<1>3. TypeOK'
  BY <1>1, <1>2 DEF TypeOK, PCs, Closing, lockVars, deviceVars
<1>4. /\ pc'[t] = "backend" /\ closed'[s] /\ Session(t)' = s
      /\ \A u \in Threads \ {t} : pc'[u] = pc[u]
      /\ \A o \in Sessions \ {s} : closed'[o] = closed[o]
  BY <1>0, <1>1, <1>2 DEF TypeOK, Session
<1>5. /\ WellFormed(lock)' /\ \A o \in Sessions : SameLock(o)
      /\ backend' = backend /\ connected' = connected /\ remote' = remote
  BY <1>1, <1>2, SameLocks DEF deviceVars
<1>6. ASSUME NEW u \in Threads
      PROVE  /\ op'[u] = op[u] \/ (op[u] = "pending" /\ op'[u] = "aborted")
             /\ op'[u] = op[u] \/ Session(u) = s
             /\ op'[u] = "pending" => Session(u) # s /\ Session(u) \in Sessions
  <2>1. /\ u \in operations[s] => Session(u) = s
        /\ op[u] = "pending" => u \in operations[Session(u)] /\ Session(u) \in Sessions
    BY DEF SessionInv, ThreadInv, Registered
  <2>. QED
    BY <1>2, <2>1
<1>7. Moves(t, s)
  <2>1. \A o \in Sessions \ {s} : SameSession(o)
    BY <1>2, <1>4, <1>5 DEF SameSession
  <2>. QED
    BY <1>0, <1>2, <1>4, <1>5, <1>6, <2>1 DEF Moves
<1>8. Closes(t, s)
  <2>1. connected[s] \/ remote[s] = "none"
    BY <1>1 DEF CloseInv
  <2>. QED
    BY <1>0, <1>1, <1>2, <1>4, <1>5, <2>1 DEF Closes, Closing
<1>9. ThreadInv(t)'
  BY <1>0, <1>1, <1>2, <1>4, <1>6 DEF ThreadInv, Registered, Locking, Io
<1>. QED
  BY <1>3, <1>5, <1>7, <1>8, <1>9, ClosesInv

LEMMA CloseBackendInv ==
    ASSUME SessionInv, NEW t \in Threads, CloseBackend(t) PROVE SessionInv'
<1>0. PICK s \in Sessions : Session(t) = s
  BY DEF SessionInv, ThreadInv, CloseBackend
<1>1. TypeOK /\ ThreadInv(t) /\ WellFormed(lock) /\ CloseInv(s) /\ pc[t] = "backend"
  BY DEF SessionInv, CloseBackend
<1>2. /\ UNCHANGED <<lockVars, backend, believed, sessionVars, op, call, toCancel, disturbed, calls>>
      /\ connected' = [connected EXCEPT ![s] = FALSE] /\ remote' = [remote EXCEPT ![s] = "none"]
      /\ pc' = [pc EXCEPT ![t] = "drain"]
  BY <1>0 DEF CloseBackend, Goto
<1>3. TypeOK'
  BY <1>1, <1>2 DEF TypeOK, PCs, Closing, lockVars, sessionVars
<1>4. /\ pc'[t] = "drain" /\ ~connected'[s] /\ remote'[s] = "none" /\ Session(t)' = s
      /\ \A u \in Threads \ {t} : pc'[u] = pc[u]
      /\ \A o \in Sessions \ {s} : connected'[o] = connected[o] /\ remote'[o] = remote[o]
      /\ alive' = alive /\ closed' = closed /\ operations' = operations
  BY <1>0, <1>1, <1>2 DEF TypeOK, Session, sessionVars
<1>5. /\ WellFormed(lock)'
      /\ \A o \in Sessions : Depth(o)' = Depth(o) /\ Mode(o)' = Mode(o)
      /\ held' = held
  BY <1>1, <1>2, LockUnchanged
<1>6. Moves(t, s)
  <2>1. \A o \in Sessions \ {s} : SameSession(o)
    BY <1>2, <1>4, <1>5 DEF SameSession, SameLock
  <2>. QED
    BY <1>0, <1>2, <1>4, <2>1 DEF Moves
<1>7. Closes(t, s)
  <2>1. closed[s]
    BY <1>0, <1>1 DEF CloseInv, Inside
  <2>. QED
    BY <1>0, <1>1, <1>4, <2>1 DEF Closes, Closing
<1>8. ThreadInv(t)'
  BY <1>0, <1>1, <1>2, <1>4 DEF ThreadInv, Registered, Locking, Io
<1>. QED
  BY <1>3, <1>5, <1>6, <1>7, <1>8, ClosesInv

LEMMA DrainInv ==
    ASSUME SessionInv, NEW t \in Threads, Drain(t) PROVE SessionInv'
<1>0. PICK s \in Sessions : Session(t) = s
  BY DEF SessionInv, ThreadInv, Drain
<1>1. TypeOK /\ ThreadInv(t) /\ WellFormed(lock) /\ CloseInv(s) /\ pc[t] = "drain" /\ operations[s] = {}
  BY <1>0 DEF SessionInv, Drain
<1>2. /\ UNCHANGED <<lockVars, deviceVars, sessionVars, op, call, toCancel, disturbed, calls>>
      /\ pc' = [pc EXCEPT ![t] = "forget"]
  BY DEF Drain, Goto
<1>3. TypeOK'
  BY <1>1, <1>2 DEF TypeOK, PCs, Closing, lockVars, deviceVars, sessionVars
<1>4. /\ pc'[t] = "forget" /\ Session(t)' = s
      /\ \A u \in Threads \ {t} : pc'[u] = pc[u]
      /\ alive' = alive /\ closed' = closed /\ operations' = operations
  BY <1>0, <1>1, <1>2 DEF TypeOK, Session, sessionVars
<1>5. /\ WellFormed(lock)' /\ \A o \in Sessions : SameLock(o)
      /\ backend' = backend /\ connected' = connected /\ remote' = remote
  BY <1>1, <1>2, SameLocks DEF deviceVars
<1>6. Moves(t, s)
  <2>1. \A o \in Sessions \ {s} : SameSession(o)
    BY <1>2, <1>4, <1>5 DEF SameSession
  <2>. QED
    BY <1>0, <1>2, <1>4, <1>5, <2>1 DEF Moves
<1>7. Closes(t, s)
  <2>1. closed[s] /\ ~connected[s] /\ remote[s] = "none"
    BY <1>0, <1>1 DEF CloseInv, Inside
  <2>. QED
    BY <1>0, <1>1, <1>4, <1>5, <2>1 DEF Closes, Closing
<1>8. ThreadInv(t)'
  BY <1>0, <1>1, <1>2, <1>4 DEF ThreadInv, Registered, Locking, Io
<1>. QED
  BY <1>3, <1>5, <1>6, <1>7, <1>8, ClosesInv

LEMMA ForgetLocksInv ==
    ASSUME SessionInv, NEW t \in Threads, ForgetLocks(t) PROVE SessionInv'
<1>0. PICK s \in Sessions : Session(t) = s
  BY DEF SessionInv, ThreadInv, ForgetLocks
<1>1. TypeOK /\ ThreadInv(t) /\ WellFormed(lock) /\ CloseInv(s) /\ pc[t] = "forget"
  BY DEF SessionInv, ForgetLocks
<1>2. /\ UNCHANGED <<nextKey, deviceVars, sessionVars, op, call, toCancel, disturbed, calls>>
      /\ lock' = ReleaseAll(lock, s) /\ held' = [held EXCEPT ![s] = 0]
      /\ pc' = [pc EXCEPT ![t] = "finish"]
  BY <1>0 DEF ForgetLocks, Goto
<1>3. /\ lock' \in LockStates /\ WellFormed(lock') /\ Depth(s)' = 0
      /\ \A o \in Sessions \ {s} : Depth(o)' = Depth(o) /\ Mode(o)' = Mode(o)
  <2>1. lock \in LockStates /\ OwnedLockDepth(lock, s) \in Nat
    BY <1>1, OwnedTypeAndDepth DEF TypeOK
  <2>2. CASE OwnedLockDepth(lock, s) > 0
    BY <1>1, <1>2, <2>1, <2>2, ReleaseAllEffect DEF Depth, Mode
  <2>3. CASE OwnedLockDepth(lock, s) = 0
    <3>1. ~OwnsExclusive(lock, s) /\ ~OwnsShared(lock, s)
      BY <1>1, <2>1, <2>3, OwnedTypeAndDepth
    <3>2. lock' = lock
      BY <1>2, <3>1 DEF ReleaseAll
    <3>. QED
      BY <1>1, <2>1, <2>3, <3>2 DEF Depth, Mode
  <2>. QED
    BY <2>1, <2>2, <2>3
<1>4. TypeOK'
  BY <1>1, <1>2, <1>3 DEF TypeOK, PCs, deviceVars, sessionVars
<1>5. /\ pc'[t] = "finish" /\ Session(t)' = s
      /\ \A u \in Threads \ {t} : pc'[u] = pc[u]
      /\ \A o \in Sessions \ {s} : held'[o] = held[o]
      /\ alive' = alive /\ closed' = closed /\ operations' = operations
      /\ backend' = backend /\ connected' = connected /\ remote' = remote /\ believed' = believed
  BY <1>0, <1>1, <1>2 DEF TypeOK, Session, sessionVars, deviceVars
<1>6. Moves(t, s)
  <2>1. \A o \in Sessions \ {s} : SameSession(o)
    BY <1>2, <1>3, <1>5 DEF SameSession, SameLock
  <2>. QED
    BY <1>0, <1>2, <1>5, <2>1 DEF Moves
<1>7. Closes(t, s)
  <2>1. closed[s] /\ ~connected[s] /\ remote[s] = "none" /\ operations[s] = {}
    BY <1>0, <1>1 DEF CloseInv, Inside
  <2>. QED
    BY <1>0, <1>1, <1>3, <1>5, <2>1 DEF Closes, Closing
<1>8. ThreadInv(t)'
  BY <1>0, <1>1, <1>2, <1>5 DEF ThreadInv, Registered, Locking, Io
<1>. QED
  BY <1>3, <1>4, <1>6, <1>7, <1>8, ClosesInv

-----------------------------------------------------------------------------
LEMMA InitSessionInv ==
    ASSUME Init PROVE SessionInv
<1>1. TypeOK
  <2>1. NoCall \in Calls
    BY DEF NoCall, Calls, Statuses
  <2>2. call \in [Threads -> Calls]
    BY <2>1 DEF Init
  <2>. QED
    BY <2>2, NoLockWellFormed DEF Init, TypeOK, Calls, PCs
<1>2. WellFormed(lock) /\ \A s \in Sessions : Depth(s) = 0 /\ Mode(s) = "none"
  BY NoLockWellFormed DEF Init, Depth, Mode
<1>3. ASSUME NEW t \in Threads PROVE ThreadInv(t) /\ Session(t) = NoSession /\ pc[t] = "idle"
  BY DEF Init, ThreadInv, Registered, Session, NoCall, Locking, Io
<1>4. ASSUME NEW s \in Sessions PROVE CloseInv(s) /\ QuietInv(s)
  <2>1. Inside(s) = {} /\ Lockers(s) = {}
    BY <1>3 DEF Inside, Lockers
  <2>2. alive[s] /\ ~closed[s] /\ connected[s] /\ held[s] = 0 /\ remote[s] = "none" /\ ~believed[s]
    BY DEF Init
  <2>3. Agree(s)
    BY <1>2, <2>2 DEF Agree, Device, Mapped
  <2>. QED
    BY <2>1, <2>2, <2>3 DEF CloseInv, QuietInv
<1>. QED
  BY <1>1, <1>2, <1>3, <1>4 DEF SessionInv

LEMMA StutterSessionInv ==
    ASSUME SessionInv, UNCHANGED vars PROVE SessionInv'
<1>1. /\ lock' = lock /\ nextKey' = nextKey /\ held' = held /\ backend' = backend /\ remote' = remote
      /\ believed' = believed /\ connected' = connected /\ alive' = alive /\ closed' = closed
      /\ operations' = operations /\ op' = op /\ pc' = pc /\ call' = call /\ toCancel' = toCancel
      /\ disturbed' = disturbed /\ calls' = calls
  BY DEF vars, lockVars, deviceVars, sessionVars
<1>2. TypeOK' /\ WellFormed(lock)'
  BY <1>1 DEF SessionInv, TypeOK
<1>3. \A t \in Threads : ThreadInv(t)'
  BY <1>1 DEF SessionInv, ThreadInv, Registered, Session
<1>4. ASSUME NEW s \in Sessions PROVE CloseInv(s)' /\ QuietInv(s)'
  <2>1. Inside(s)' = Inside(s) /\ Lockers(s)' = Lockers(s) /\ Depth(s)' = Depth(s)
    BY <1>1 DEF Inside, Lockers, Session, Depth
  <2>2. CloseInv(s)'
    BY <1>1, <2>1 DEF SessionInv, CloseInv
  <2>3. (Agree(s)' <=> Agree(s)) /\ \A t \in Threads : Doing(t, s)' <=> Doing(t, s)
    BY <1>1 DEF Agree, Doing, Device, Mapped, Mode, Depth
  <2>4. \A t \in Lockers(s) : t \in Threads
    BY DEF Lockers
  <2>5. QuietInv(s)'
    BY <1>1, <2>1, <2>3, <2>4 DEF SessionInv, QuietInv
  <2>. QED
    BY <2>2, <2>5
<1>. QED
  BY <1>2, <1>3, <1>4 DEF SessionInv

LEMMA NextSessionInv ==
    ASSUME SessionInv, [Next]_vars PROVE SessionInv'
<1>1. CASE UNCHANGED vars
  BY <1>1, StutterSessionInv
<1>2. ASSUME NEW t \in Threads, Step(t) PROVE SessionInv'
  <2>1. CASE BeginLock(t)
    BY <2>1, BeginOperationInv DEF BeginLock
  <2>2. CASE BeginUnlock(t)
    BY <2>2, BeginOperationInv DEF BeginUnlock
  <2>3. CASE BeginIo(t)
    BY <2>3, BeginOperationInv DEF BeginIo
  <2>4. CASE LockOnClosed(t) \/ PreviousDepth(t) \/ Rollback(t) \/ CompleteLock(t) \/ CompleteLockLoses(t)
    BY <2>4, LockOnClosedInv, PreviousDepthInv, RollbackInv, CompleteLockInv, CompleteLockLosesInv
  <2>5. CASE UnlockDepth(t) \/ ReleaseLevel(t) \/ CompleteUnlock(t)
    BY <2>5, UnlockDepthInv, ReleaseLevelInv, CompleteUnlockInv
  <2>6. CASE CheckAccess(t) \/ CheckIo(t) \/ Snapshot(t) \/ TerminateDone(t) \/ FinishOperation(t)
    BY <2>6, CheckAccessInv, CheckIoInv, SnapshotInv, TerminateDoneInv, FinishOperationInv
  <2>7. CASE \E u \in Threads : RequestCancel(t, u)
    BY <2>7, RequestCancelInv
  <2>8. CASE BeginClose(t) \/ CloseBackend(t) \/ Drain(t) \/ ForgetLocks(t)
    BY <2>8, BeginCloseInv, CloseBackendInv, DrainInv, ForgetLocksInv
  <2>. QED
    BY <1>2, <2>1, <2>2, <2>3, <2>4, <2>5, <2>6, <2>7, <2>8 DEF Step
<1>3. ASSUME NEW t \in Threads, Wait(t) PROVE SessionInv'
  <2>1. CASE \E key \in {NoKey, lock.shared_key} : Acquire(t, key)
    <3>1. NoKey \in Nat /\ lock.shared_key \in Nat
      BY DEF SessionInv, TypeOK, LockStates, NoKey
    <3>2. PICK key \in Nat : Acquire(t, key)
      BY <2>1, <3>1
    <3>. QED
      BY <3>2, AcquireInv
  <2>2. CASE AcquireFails(t) \/ IoReturns(t)
    BY <2>2, AcquireFailsInv, IoReturnsInv
  <2>3. CASE RemoteLock(t) \/ RemoteLockFails(t) \/ RemoteUnlock(t) \/ RemoteUnlockFails(t)
    BY <2>3, RemoteLockInv, RemoteLockFailsInv, RemoteUnlockInv, RemoteUnlockFailsInv
  <2>. QED
    BY <1>3, <2>1, <2>2, <2>3 DEF Wait
<1>4. ASSUME NEW t \in Threads, Call(t) PROVE SessionInv'
  <2>1. PICK s \in Sessions :
            \/ \E lockType \in LockTypes : CallApi(t, s, "lock", lockType)
            \/ CallApi(t, s, "unlock", "none")
            \/ \E kind \in IoKinds : CallApi(t, s, "access", kind)
            \/ CallApi(t, s, "terminate", "none")
            \/ CallClose(t, s)
    BY <1>4 DEF Call
  <2>2. CASE \E lockType \in LockTypes : CallApi(t, s, "lock", lockType)
    BY <2>2, CallApiInv
  <2>3. CASE CallApi(t, s, "unlock", "none")
    BY <2>3, CallApiInv
  <2>4. CASE \E kind \in IoKinds : CallApi(t, s, "access", kind)
    BY <2>4, CallApiInv
  <2>5. CASE CallApi(t, s, "terminate", "none")
    BY <2>5, CallApiInv
  <2>6. CASE CallClose(t, s)
    BY <2>6, CallCloseInv
  <2>. QED
    BY <2>1, <2>2, <2>3, <2>4, <2>5, <2>6
<1>. QED
  BY <1>1, <1>2, <1>3, <1>4 DEF Next

LEMMA SessionInvAlways == Spec => []SessionInv
BY InitSessionInv, NextSessionInv, PTL DEF Spec

\* The variables of SessionObject, Operation and the lock manager always have
\* their types, for any number of threads, sessions and calls.
THEOREM SessionTypeCorrect == Spec => []TypeOK
<1>1. SessionInv => TypeOK
  BY DEF SessionInv
<1>. QED
  BY <1>1, SessionInvAlways, PTL

\* SessionObject::close(): when it has returned, the session owns no level of the
\* lock and no lock on the device, no Operation is registered, and no thread is
\* left in the backend for a lock or a transfer of this session, whatever calls
\* of other threads were under way.
THEOREM ClosedIsQuietAlways == Spec => []ClosedIsQuiet
<1>1. SessionInv => ClosedIsQuiet
  <2>. SUFFICES ASSUME SessionInv, NEW s \in Sessions, ~alive[s],
                       \A t \in Inside(s) : pc[t] \notin Closing
                PROVE  /\ Depth(s) = 0 /\ operations[s] = {} /\ remote[s] = "none"
                       /\ \A t \in Inside(s) :
                             /\ pc[t] \notin {"acquire", "remote", "rollback", "complete"}
                             /\ pc[t] = "io_busy" => call[t].type = "command"
    BY DEF ClosedIsQuiet
  <2>1. Depth(s) = 0 /\ operations[s] = {} /\ remote[s] = "none"
    BY DEF SessionInv, CloseInv
  <2>2. ASSUME NEW t \in Inside(s)
        PROVE  /\ pc[t] \notin {"acquire", "remote", "rollback", "complete"}
               /\ pc[t] = "io_busy" => call[t].type = "command"
    <3>1. t \in Threads /\ Session(t) = s /\ ThreadInv(t)
      BY DEF SessionInv, Inside
    <3>2. ~Registered(t)
      BY <2>1, <3>1 DEF ThreadInv
    <3>3. pc[t] = "io_busy" => call[t].type \in IoKinds
      BY <3>1 DEF ThreadInv, Io
    <3>. QED
      BY <3>2, <3>3 DEF Registered, IoKinds
  <2>. QED
    BY <2>1, <2>2
<1>. QED
  BY <1>1, SessionInvAlways, PTL

\* ADR 0007, for SessionObject::lock and unlock with the HiSLIP and VXI-11
\* backends: a session that no cancellation, lost answer or overlapping call has
\* disturbed has, between calls, the lock depth its callers were told and on the
\* device exactly the lock its local one maps to.
THEOREM QuietSessionsAgreeAlways == Spec => []QuietSessionsAgree
<1>1. SessionInv => QuietSessionsAgree
  <2>. SUFFICES ASSUME SessionInv, NEW s \in Sessions \ disturbed, alive[s],
                       \A t \in Inside(s) : pc[t] \notin Locking \cup Unlocking
                PROVE  /\ Depth(s) = held[s]
                       /\ remote[s] = CASE backend = "hislip" -> OwnedLockType(lock, s)
                                        [] backend = "vxi11" /\ OwnsExclusive(lock, s) -> "exclusive"
                                        [] OTHER -> "none"
    BY DEF QuietSessionsAgree
  <2>1. Lockers(s) = {}
    BY DEF Lockers, Inside
  <2>2. Agree(s)
    BY <2>1 DEF SessionInv, QuietInv
  <2>3. OwnedLockType(lock, s) = "exclusive" <=> OwnsExclusive(lock, s)
    BY OwnedTypeAndDepth DEF SessionInv, TypeOK
  <2>4. CASE backend = "hislip"
    BY <2>2, <2>4 DEF Agree, Device, Mapped, Mode
  <2>5. CASE backend = "vxi11" /\ OwnsExclusive(lock, s)
    BY <2>2, <2>3, <2>5 DEF Agree, Device, Mapped, Mode
  <2>6. CASE backend # "hislip" /\ ~(backend = "vxi11" /\ OwnsExclusive(lock, s))
    BY <2>2, <2>3, <2>6 DEF Agree, Device, Mapped, Mode
  <2>. QED
    BY <2>4, <2>5, <2>6
<1>. QED
  BY <1>1, SessionInvAlways, PTL
=============================================================================
