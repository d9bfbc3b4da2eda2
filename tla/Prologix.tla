------------------------------ MODULE Prologix ------------------------------
(***************************************************************************)
(* The Prologix GPIB provider (src/backends/gpib/prologix_provider.cpp):   *)
(* one PrologixController shared by all sessions (owners) that reach their *)
(* instruments through it.  The adapter has one selected address and one   *)
(* EOI setting; the controller caches both, lets one owner at a time run a *)
(* transaction, and gives a connection up when a transaction fails or is   *)
(* cancelled.                                                              *)
(*                                                                         *)
(* Threads: an owner's caller, the thread that terminates its operation    *)
(* (terminating), and the strand of AsioPrologixIo, whose tasks run in the *)
(* order they were posted.  At most one request (connect, write or         *)
(* read_until) is under way, that of the active owner; pc says which.      *)
(*                                                                         *)
(* The adapter (external) executes the commands it has received in order.  *)
(* What is left of an old connection may still be executed after a new one *)
(* is made; its output then is lost on TCP and arrives on a serial line.   *)
(***************************************************************************)
EXTENDS Naturals, Sequences

CONSTANTS
    Owners,          \* the transports of the open sessions
    None,            \* no owner, no address, no cached value
    Address,         \* the instrument address of each owner
    Connections,     \* kinds of connection: a subset of {"tcp", "serial"}
    Plan,            \* the calls each session makes: a sequence of sets of calls
    MaxResponse,     \* maximum_response_size, in pieces
    Answers,         \* sizes of the instruments' answers, in pieces
    MaxConnects,     \* bounds of the model: connections made, and
    MaxFaults        \* terminations, closings, timeouts and restarts of the adapter

\* The calls of a transport: what, and the EOI a write asks for.
CallKinds == {"open", "read", "write", "clr", "trg", "spoll", "discard"}
Calls == [kind : CallKinds, end : BOOLEAN]

ASSUME NoneAssumption ==
    /\ None \notin Owners /\ None \notin BOOLEAN
    /\ \A o \in Owners : Address[o] # None
ASSUME PlanAssumption == \A o \in Owners : Plan[o] \in Seq(SUBSET Calls)
ASSUME KindAssumption == Connections \in SUBSET {"tcp", "serial"}
ASSUME BoundAssumption ==
    /\ MaxResponse \in Nat \ {0}
    /\ Answers \in SUBSET (Nat \ {0})
    /\ {MaxConnects, MaxFaults} \subseteq Nat

VARIABLES
    connection,           \* the kind of stream
    active_owner, reconnect_required, initialized, current_address, current_send_end,
    pc,                   \* where the caller of each owner is
    call,                 \* the call it makes
    op,                   \* the Operation of the call
    status,               \* "ok" or "failed", of the transaction
    calls,                \* how many calls each owner has made
    response, filled,     \* response_; the call that filled it
    returned,             \* what the last call has returned, and the call that fetched it
    closed,               \* closed_
    terminating,          \* where the thread is that terminates the owner's operation
    strand, io,           \* tasks posted to the strand; the request under way
    stream, rx, gathered, \* stream_ is open; its input; the data of the read requests
    todo, adr, eoi,       \* external: commands the adapter has received; its state
    linked, conn,         \* external: the connection is intact; number of connections made
    faults                \* counts what MaxFaults bounds

controllerVars == <<active_owner, reconnect_required, initialized, current_address, current_send_end>>
callVars == <<call, calls>>
bufferVars == <<response, filled, returned>>
ioVars == <<strand, io, stream, rx, gathered>>
adapterVars == <<todo, adr, eoi, linked, conn>>
vars == <<connection, controllerVars, pc, callVars, op, status, bufferVars, closed,
          terminating, ioVars, adapterVars, faults>>

Writes == {"init", "addr", "eoi", "command"}
Reads == {"version", "reply"}
Requests == {"connect"} \cup Writes \cup Reads

\* What the adapter sends: pieces of the answer to a call, the marks that end
\* them, and version lines.
Piece(o, n, k) == [owner |-> o, call |-> n, mark |-> "more", k |-> k]
Mark(o, n, m) == [owner |-> o, call |-> n, mark |-> m, k |-> 0]
VersionLine == Mark(None, 0, "lf")

Init ==
    /\ connection \in Connections
    /\ active_owner = None
    /\ reconnect_required = FALSE
    /\ initialized = FALSE
    /\ current_address = None
    /\ current_send_end = None
    /\ pc = [o \in Owners |-> "idle"]
    /\ call = [o \in Owners |-> None]
    /\ op = [o \in Owners |-> "none"]
    /\ status = [o \in Owners |-> "ok"]
    /\ calls = [o \in Owners |-> 0]
    /\ response = [o \in Owners |-> <<>>]
    /\ filled = [o \in Owners |-> 0]
    /\ returned = [o \in Owners |-> <<>>]
    /\ closed = [o \in Owners |-> FALSE]
    /\ terminating = [o \in Owners |-> "no"]
    /\ strand = <<>>
    /\ io = "none"
    /\ stream = FALSE
    /\ rx = <<>>
    /\ gathered = [o \in Owners |-> <<>>]
    /\ todo = <<>>
    /\ adr = None
    /\ eoi = TRUE
    /\ linked = FALSE
    /\ conn = 0
    /\ faults = 0

\* The bound on what may go wrong.
Fault == faults < MaxFaults /\ faults' = faults + 1

-----------------------------------------------------------------------------
\* The calls o may make next.
NextCalls(o) == IF calls[o] < Len(Plan[o]) THEN Plan[o][calls[o] + 1] ELSE {}

\* A call of session o.  Data that an earlier read has left over is returned at
\* once; discard_read_buffer drops it; a closed transport answers
\* VI_ERROR_CONN_LOST, which changes nothing.
Call(o, c) ==
    /\ pc[o] = "idle" /\ ~closed[o]
    /\ calls' = [calls EXCEPT ![o] = @ + 1]
    /\ IF c.kind = "read" /\ response[o] # <<>>
       THEN /\ returned' = [returned EXCEPT ![o] = <<filled[o], Head(response[o])>>]
            /\ response' = [response EXCEPT ![o] = Tail(@)]
            /\ UNCHANGED <<pc, call, op>>
       ELSE IF c.kind = "discard"
       THEN response' = [response EXCEPT ![o] = <<>>] /\ UNCHANGED <<pc, call, op, returned>>
       ELSE /\ pc' = [pc EXCEPT ![o] = "gate"]
            /\ op' = [op EXCEPT ![o] = "pending"]
            /\ call' = [call EXCEPT ![o] = c]
            /\ returned' = [returned EXCEPT ![o] = <<>>]
            /\ UNCHANGED response
    /\ UNCHANGED <<connection, controllerVars, status, filled, closed, terminating, ioVars,
                   adapterVars, faults>>

\* The caller of a failed transaction goes on to the end of transact.
Fail(o) ==
    /\ pc' = [pc EXCEPT ![o] = "leave"]
    /\ status' = [status EXCEPT ![o] = "failed"]
    /\ io' = "none"

\* Faulty variant of Wake: the waiters of the gate are not notified.
WakeNobody(where) == where

\* gate_condition_.notify_all().
Wake(where) == [p \in Owners |-> IF where[p] = "asleep" THEN "gate" ELSE where[p]]

\* invalidate.  close() waits for its task, and so for every task posted before:
\* the strand is empty afterwards.
Invalidate ==
    /\ initialized' = FALSE
    /\ current_address' = None
    /\ current_send_end' = None
    /\ reconnect_required' = FALSE
    /\ stream' = FALSE
    /\ rx' = <<>>

\* select_address and write skip what the caches say the adapter has already.
SetsAddress(o, a) == call[o].kind \in {"read", "write", "clr"} /\ a # Address[o]

\* Faulty variant of SetsEoi: a write leaves the EOI setting as it is.
NeverSetsEoi(o, e) == FALSE

SetsEoi(o, e) == call[o].kind = "write" /\ e # call[o].end

Answered(o) == call[o].kind \in {"read", "spoll"}

\* The request that follows step at of o's transaction, when the cached address
\* and EOI are a and e: the bodies of open, read, write, clear, trigger and
\* serial_poll.
StepAfter(o, at, a, e) ==
    CASE call[o].kind = "open" \/ (at = "command" /\ ~Answered(o)) -> "leave"
      [] at = "command" /\ Answered(o) -> "reply"
      [] OTHER -> IF SetsAddress(o, a) THEN "addr" ELSE IF SetsEoi(o, e) THEN "eoi" ELSE "command"

\* connect, write and read_until answer at once when the Operation is completed,
\* and post the request otherwise, to queue, the strand as it is: it is started at
\* once unless other tasks are before it.
Request(o, step, queue) ==
    CASE step = "leave" ->
            pc' = [pc EXCEPT ![o] = "leave"] /\ io' = "none" /\ strand' = queue /\ UNCHANGED status
      [] step # "leave" /\ op[o] = "completed" -> Fail(o) /\ strand' = queue
      [] OTHER -> /\ pc' = [pc EXCEPT ![o] = step]
                  /\ io' = IF queue = <<>> THEN "busy" ELSE "posted"
                  /\ strand' = IF queue = <<>> THEN queue ELSE Append(queue, "start")
                  /\ UNCHANGED status

\* acquire: the predicate of the condition variable, under gate_mutex_.
Refused(o) ==
    /\ pc[o] = "gate" /\ op[o] = "completed"
    /\ pc' = [pc EXCEPT ![o] = "return"]
    /\ status' = [status EXCEPT ![o] = "failed"]
    /\ UNCHANGED <<connection, controllerVars, callVars, op, bufferVars, closed, terminating,
                   ioVars, adapterVars, faults>>

Sleep(o) ==
    /\ pc[o] = "gate" /\ op[o] = "pending" /\ active_owner # None
    /\ pc' = [pc EXCEPT ![o] = "asleep"]
    /\ UNCHANGED <<connection, controllerVars, callVars, op, status, bufferVars, closed,
                   terminating, ioVars, adapterVars, faults>>

\* acquire and the beginning of transact: a connection somebody has given up is
\* closed, and ensure_ready makes a new one unless there is one.
Enter(o) ==
    /\ pc[o] = "gate" /\ op[o] = "pending" /\ active_owner = None
    /\ active_owner' = o
    /\ IF reconnect_required
       THEN Invalidate /\ Request(o, "connect", <<>>)
       ELSE /\ Request(o, IF initialized THEN StepAfter(o, "ready", current_address, current_send_end)
                                         ELSE "connect", strand)
            /\ UNCHANGED <<reconnect_required, initialized, current_address, current_send_end,
                           stream, rx>>
    /\ UNCHANGED <<connection, callVars, op, bufferVars, closed, terminating, gathered,
                   adapterVars, faults>>

\* Faulty variant of GiveUp: a failed transaction keeps its connection.
GiveUpMarked(o) == reconnect_required

GiveUp(o) == status[o] = "failed" \/ reconnect_required

\* The end of transact.
Leave(o) ==
    /\ pc[o] = "leave"
    /\ IF GiveUp(o)
       THEN Invalidate /\ strand' = <<>>
       ELSE UNCHANGED <<reconnect_required, initialized, current_address, current_send_end,
                        stream, rx, strand>>
    /\ status' = [status EXCEPT ![o] = IF op[o] = "completed" THEN "failed" ELSE @]
    /\ pc' = [pc EXCEPT ![o] = "release"]
    /\ UNCHANGED <<connection, active_owner, callVars, op, bufferVars, closed, terminating,
                   io, gathered, adapterVars, faults>>

\* What the transport does with the outcome: a read hands out the first piece
\* and keeps the others, a clear drops what an earlier read has left over.
Return(o) ==
    LET ok == status[o] = "ok"
        k  == call[o].kind
    IN  /\ op' = [op EXCEPT ![o] = "none"]
        /\ call' = [call EXCEPT ![o] = None]
        /\ status' = [status EXCEPT ![o] = "ok"]
        /\ gathered' = [gathered EXCEPT ![o] = <<>>]
        /\ returned' = [returned EXCEPT ![o] =
                          IF ok /\ k \in {"read", "spoll"} /\ gathered[o] # <<>>
                          THEN <<calls[o], gathered[o][1]>> ELSE <<>>]
        /\ response' = [response EXCEPT ![o] =
                          CASE ok /\ k = "read" -> SubSeq(gathered[o], 2, Len(gathered[o]))
                            [] ok /\ k = "clr" -> <<>>
                            [] OTHER -> @]
        /\ filled' = [filled EXCEPT ![o] = IF ok /\ k = "read" THEN calls[o] ELSE @]

\* A call that never had the gate returns.
ReturnRefused(o) ==
    /\ pc[o] = "return"
    /\ Return(o)
    /\ pc' = [pc EXCEPT ![o] = "idle"]
    /\ UNCHANGED <<connection, controllerVars, calls, closed, terminating, strand, io, stream,
                   rx, adapterVars, faults>>

\* ~Lease, and the call returns.
Release(o) ==
    /\ pc[o] = "release"
    /\ active_owner' = None
    /\ Return(o)
    /\ pc' = Wake([pc EXCEPT ![o] = "idle"])
    /\ UNCHANGED <<connection, reconnect_required, initialized, current_address,
                   current_send_end, calls, closed, terminating, strand, io, stream, rx,
                   adapterVars, faults>>

\* The steps of the caller's thread.
Thread(o) == Refused(o) \/ Sleep(o) \/ Enter(o) \/ Leave(o) \/ Release(o) \/ ReturnRefused(o)

-----------------------------------------------------------------------------
\* The requests, on the strand.

\* The command that is written at o's step of its transaction.
Command(o) ==
    [kind |-> IF pc[o] = "command" THEN call[o].kind ELSE pc[o],
     owner |-> o, call |-> calls[o], end |-> call[o].end, conn |-> conn]

\* What is written to a broken connection is lost.
Received(o) == IF linked THEN Append(todo, Command(o)) ELSE todo

\* A write that is interrupted may have reached the adapter.
MayReach(o) == IF pc[o] \in Writes /\ stream THEN {todo, Received(o)} ELSE {todo}

\* The strand starts the request that was posted.  A serial port is opened here.
Start(o) ==
    /\ strand # <<>> /\ Head(strand) = "start" /\ active_owner = o
    /\ strand' = Tail(strand)
    /\ IF op[o] = "completed" THEN Fail(o) ELSE io' = "busy" /\ UNCHANGED <<pc, status>>
    /\ UNCHANGED <<connection, controllerVars, callVars, op, bufferVars, closed, terminating,
                   stream, rx, gathered, adapterVars, faults>>

Busy(o, steps) == active_owner = o /\ io = "busy" /\ pc[o] \in steps

\* connect_tcp and connect_serial succeed.  The port's input is flushed.  The
\* adapter still has the commands of the former connection, or has lost them.
Connected(o) ==
    /\ Busy(o, {"connect"}) /\ conn < MaxConnects
    /\ op[o] = "pending"
    /\ stream' = TRUE /\ linked' = TRUE /\ rx' = <<>> /\ conn' = conn + 1
    /\ todo' \in {todo, <<>>}
    /\ Request(o, "init", strand)
    /\ UNCHANGED <<connection, controllerVars, callVars, op, bufferVars, closed, terminating,
                   gathered, adr, eoi, faults>>

\* A write is complete.  One that was overtaken by the end of its Operation
\* reports that instead.
Written(o) ==
    LET a == IF pc[o] = "addr" THEN Address[o] ELSE current_address
        e == IF pc[o] = "eoi" THEN call[o].end ELSE current_send_end
    IN  /\ Busy(o, Writes) /\ stream
        /\ todo' = Received(o)
        /\ IF op[o] = "completed"
           THEN Fail(o) /\ UNCHANGED <<strand, current_address, current_send_end>>
           ELSE /\ current_address' = a
                /\ current_send_end' = e
                /\ Request(o, IF pc[o] = "init" THEN "version" ELSE StepAfter(o, pc[o], a, e), strand)
        /\ UNCHANGED <<connection, active_owner, reconnect_required, initialized, callVars, op,
                       bufferVars, closed, terminating, stream, rx, gathered, adr, eoi, linked,
                       conn, faults>>

\* A request ends with an error: the stream is closed or broken, the connection
\* was refused, or the Operation is completed and its handler has emitted the
\* cancellation.  A write may have reached the adapter.  A connect that succeeds
\* after the end of its Operation is closed again.
RequestFails(o) ==
    /\ \/ Busy(o, Writes \cup Reads) /\ (op[o] = "completed" \/ ~stream \/ ~linked)
       \/ Busy(o, {"connect"})
    /\ Fail(o)
    /\ todo' \in MayReach(o)
    /\ UNCHANGED <<connection, controllerVars, callVars, op, bufferVars, closed, terminating,
                   strand, stream, rx, gathered, adr, eoi, linked, conn, faults>>

\* The outcome of a read_until that has found its delimiter.
Accepted(o, data) ==
    CASE pc[o] = "version" -> \E i \in DOMAIN data : data[i] = VersionLine
      [] call[o].kind = "spoll" -> Len(data) = 1 /\ data[1] # VersionLine
      [] OTHER -> TRUE

\* The handler of async_read_some, with the first n pieces of the input.  A line
\* is its own data; the mark that ends a response is dropped.
ReadSome(o, n) ==
    LET delimiter == IF pc[o] = "reply" /\ call[o].kind = "read" THEN "eot" ELSE "lf"
        limit     == IF delimiter = "eot" THEN MaxResponse ELSE MaxResponse + 1
        chunk     == SubSeq(rx, 1, n)
        ends      == {i \in 1 .. n : chunk[i].mark = delimiter}
        data      == gathered[o] \o (IF delimiter = "eot" /\ ends # {} THEN SubSeq(chunk, 1, n - 1) ELSE chunk)
        bad       == \/ Len(data) > limit \/ ends \notin {{}, {n}}
                     \/ ends # {} /\ ~Accepted(o, data)
    IN  /\ Busy(o, Reads) /\ stream
        /\ n \in 1 .. Len(rx)
        /\ rx' = SubSeq(rx, n + 1, Len(rx))
        /\ CASE bad -> Fail(o) /\ UNCHANGED <<strand, gathered, initialized,
                                                  reconnect_required, current_address, current_send_end>>
             [] ~bad /\ ends = {} ->
                    /\ IF op[o] = "completed" THEN Fail(o) ELSE UNCHANGED <<pc, status, io>>
                    /\ gathered' = [gathered EXCEPT ![o] = data]
                    /\ UNCHANGED <<strand, initialized, reconnect_required, current_address,
                                   current_send_end>>
             [] OTHER ->
                    IF pc[o] = "version"
                    THEN /\ initialized' = TRUE
                         /\ reconnect_required' = FALSE
                         /\ current_address' = None
                         /\ current_send_end' = None
                         /\ gathered' = [gathered EXCEPT ![o] = <<>>]
                         /\ Request(o, StepAfter(o, "ready", None, None), strand)
                    ELSE /\ gathered' = [gathered EXCEPT ![o] = data]
                         /\ Request(o, "leave", strand)
                         /\ UNCHANGED <<initialized, reconnect_required, current_address,
                                        current_send_end>>
        /\ UNCHANGED <<connection, active_owner, callVars, op, bufferVars, closed, terminating,
                       stream, adapterVars, faults>>

\* A posted stream_.cancel or stream_.close runs, and ends whatever request is
\* under way: it may be another owner's.  A connect that is still resolving survives
\* a cancel, and one whose name is resolved, but whose handler has not run, a close
\* too: the handler starts async_connect all the same.
Interrupt ==
    /\ strand # <<>> /\ Head(strand) \in {"cancel", "close"}
    /\ strand' = Tail(strand)
    /\ IF Head(strand) = "close" THEN stream' = FALSE /\ rx' = <<>> ELSE UNCHANGED <<stream, rx>>
    /\ \/ /\ io = "busy"
          /\ Fail(active_owner)
          /\ todo' \in MayReach(active_owner)
       \/ /\ io = "busy" => pc[active_owner] = "connect"
          /\ UNCHANGED <<pc, status, io, todo>>
    /\ UNCHANGED <<connection, controllerVars, callVars, op, bufferVars, closed, terminating,
                   gathered, adr, eoi, linked, conn, faults>>

\* The deadline of the call, or the idle timer of read_until: request_timeout.
\* The timer of connect_tcp also ends the request.
Timeout(o) ==
    /\ op[o] = "pending" /\ Fault
    /\ op' = [op EXCEPT ![o] = "completed"]
    /\ \/ pc[o] = "asleep" /\ pc' = [pc EXCEPT ![o] = "gate"] /\ UNCHANGED <<status, io>>
       \/ Busy(o, {"connect"}) /\ connection = "tcp" /\ Fail(o)
       \/ Busy(o, Writes \cup Reads) /\ UNCHANGED <<pc, status, io>>
    /\ UNCHANGED <<connection, controllerVars, callVars, bufferVars, closed, terminating,
                   strand, stream, rx, gathered, adapterVars>>

\* The request of o is sure to end.  A TCP connect whose Operation is completed is, by
\* the system or by its timer, once the close that was posted for it has run.
Ends(o) ==
    pc[o] = "connect" /\ connection = "tcp" /\ op[o] = "completed" =>
        terminating[o] # "handler" /\ \A i \in DOMAIN strand : strand[i] # "close"

Strand == Interrupt \/ \E o \in Owners : Start(o) \/ (Ends(o) /\ RequestFails(o))

-----------------------------------------------------------------------------
\* viTerminate: request_cancel on the session's operation, if any; then the
\* handler it has moved out (connect_tcp's closes the stream, the others emit the
\* cancellation of their own request); then PrologixController::cancel.
Terminate(o) ==
    /\ terminating[o] = "no" /\ Fault
    /\ op' = [op EXCEPT ![o] = IF @ = "pending" THEN "completed" ELSE @]
    /\ terminating' = [terminating EXCEPT ![o] =
          IF op[o] = "pending" /\ pc[o] = "connect" /\ connection = "tcp" THEN "handler" ELSE "look"]
    /\ UNCHANGED <<connection, controllerVars, pc, callVars, status, bufferVars, closed,
                   ioVars, adapterVars>>

\* The transport is closed, once its calls have returned.
Close(o) ==
    /\ pc[o] = "idle" /\ ~closed[o] /\ terminating[o] = "no" /\ Fault
    /\ closed' = [closed EXCEPT ![o] = TRUE]
    /\ terminating' = [terminating EXCEPT ![o] = "look"]
    /\ UNCHANGED <<connection, controllerVars, pc, callVars, op, status, bufferVars, ioVars,
                   adapterVars>>

RunHandler(o) ==
    /\ terminating[o] = "handler"
    /\ terminating' = [terminating EXCEPT ![o] = "look"]
    /\ strand' = Append(strand, "close")
    /\ UNCHANGED <<connection, controllerVars, pc, callVars, op, status, bufferVars, closed, io,
                   stream, rx, gathered, adapterVars, faults>>

\* cancel, under gate_mutex_: who is active?
Look(o) ==
    /\ terminating[o] = "look"
    /\ terminating' = [terminating EXCEPT ![o] = IF active_owner = o THEN "mark" ELSE "no"]
    /\ pc' = Wake(pc)
    /\ UNCHANGED <<connection, controllerVars, callVars, op, status, bufferVars, closed,
                   ioVars, adapterVars, faults>>

\* cancel, after gate_mutex_: the owner may no longer be the active one.
MarkReconnect(o) ==
    /\ terminating[o] = "mark"
    /\ terminating' = [terminating EXCEPT ![o] = "cancel"]
    /\ reconnect_required' = TRUE
    /\ UNCHANGED <<connection, active_owner, initialized, current_address, current_send_end, pc,
                   callVars, op, status, bufferVars, closed, ioVars, adapterVars, faults>>

CancelIo(o) ==
    /\ terminating[o] = "cancel"
    /\ terminating' = [terminating EXCEPT ![o] = "no"]
    /\ strand' = Append(strand, "cancel")
    /\ UNCHANGED <<connection, controllerVars, pc, callVars, op, status, bufferVars, closed, io,
                   stream, rx, gathered, adapterVars, faults>>

Cancel(o) == RunHandler(o) \/ Look(o) \/ MarkReconnect(o) \/ CancelIo(o)

-----------------------------------------------------------------------------
\* The adapter executes a command.  An instrument need not answer.
Execute ==
    LET c == Head(todo)
        Output(ps) == rx' = IF stream /\ (connection = "serial" \/ c.conn = conn) THEN rx \o ps ELSE rx
    IN  /\ todo # <<>>
        /\ todo' = Tail(todo)
        /\ adr' = IF c.kind = "addr" THEN Address[c.owner] ELSE adr
        /\ eoi' = IF c.kind = "eoi" THEN c.end ELSE eoi
        /\ CASE c.kind = "init" -> Output(<<VersionLine>>)
             [] c.kind = "spoll" -> Output(<<Mark(c.owner, c.call, "lf")>>)
             [] c.kind = "read" ->
                  \/ \E n \in Answers : Output([k \in 1 .. n |-> Piece(c.owner, c.call, k)]
                                               \o <<Mark(c.owner, c.call, "eot")>>)
                  \/ UNCHANGED rx
             [] OTHER -> UNCHANGED rx
        /\ UNCHANGED <<connection, controllerVars, pc, callVars, op, status, bufferVars, closed,
                       terminating, strand, io, stream, gathered, linked, conn, faults>>

\* The adapter is switched off and on again, or the network fails: commands and
\* state are lost, and so is what is sent on this connection from now on.
Restart ==
    /\ linked /\ Fault
    /\ todo' = <<>> /\ adr' = None /\ eoi' = TRUE /\ linked' = FALSE
    /\ UNCHANGED <<connection, controllerVars, pc, callVars, op, status, bufferVars, closed,
                   terminating, ioVars, conn>>

Next ==
    \/ \E o \in Owners :
          \/ \E c \in NextCalls(o) : Call(o, c)
          \/ Thread(o) \/ Cancel(o)
          \/ Start(o) \/ Connected(o) \/ Written(o) \/ RequestFails(o)
          \/ \E n \in 1 .. Len(rx) : ReadSome(o, n)
          \/ Timeout(o) \/ Terminate(o) \/ Close(o)
    \/ Interrupt \/ Execute \/ Restart

Spec == Init /\ [][Next]_vars

\* Threads and the strand run; nothing is assumed of the adapter, of timers, or of
\* the system's willingness to connect and send.
FairSpec ==
    /\ Spec
    /\ WF_vars(Strand)
    /\ \A o \in Owners : WF_vars(Thread(o)) /\ WF_vars(Cancel(o))

-----------------------------------------------------------------------------
\* The address an adapter that has received q will have selected when it comes to
\* command i, and its EOI setting.
SettingAt(q, i, kind, now) ==
    LET before == {j \in 1 .. i - 1 : q[j].kind = kind}
        last   == CHOOSE j \in before : \A k \in before : k <= j
    IN  IF before = {} THEN now
        ELSE IF kind = "addr" THEN Address[q[last].owner] ELSE q[last].end

\* No command of a session ever reaches the instrument of another one, and no data
\* goes out with the wrong EOI: whatever the cached address and EOI say, they are
\* the adapter's when it comes to the command, through failures, cancellations,
\* restarts of the adapter and commands left over from an old connection
\* (select_address, PrologixController::write).
RightInstrument ==
    \A i \in DOMAIN todo :
        /\ todo[i].kind \in {"read", "write", "clr"} =>
                SettingAt(todo, i, "addr", adr) = Address[todo[i].owner]
        /\ todo[i].kind = "write" => SettingAt(todo, i, "eoi", eoi) = todo[i].end

\* A read hands out the answer to its own ++read, in order and from the first
\* piece on, and a serial poll its own status byte: nothing an earlier, cancelled
\* or failed transaction has left behind (transact, invalidate, read_until).
Own ==
    \A o \in Owners :
        /\ returned[o] # <<>> => returned[o][2].owner = o /\ returned[o][2].call = returned[o][1]
        /\ \A i \in DOMAIN response[o] :
              /\ response[o][i].owner = o /\ response[o][i].call = filled[o]
              /\ i > 1 => response[o][i].k = response[o][i - 1].k + 1

OwnResponse == connection = "tcp" => Own

\* The same of every kind of connection.  ADR 0012 says that no command is sent
\* "on an unknown state of the controller or of the stream".
OwnResponseOnAnyLine == Own

\* A call whose Operation has ended returns, whatever the adapter and the other
\* sessions do: also one that waits at the gate, and one that connects (acquire,
\* cancel, read_until).
CancelledReturns == \A o \in Owners : op[o] = "completed" ~> op[o] = "none"
====
