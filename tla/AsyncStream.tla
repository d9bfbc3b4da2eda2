---------------------------- MODULE AsyncStream ----------------------------
(***************************************************************************)
(* AsyncStreamBackend (src/backends/asio/async_stream.h): reads and writes *)
(* on a byte stream, the backend of TCP and serial sessions.  Any number   *)
(* of threads may read and write at a time; reads and writes have a queue  *)
(* each.  Bytes that a read did not ask for, or could not deliver, go to   *)
(* read_ahead_ and are the next read's.                                    *)
(*                                                                         *)
(* All state belongs to the strand.  A handler is one step, followed by    *)
(* the iterations of the loop in start_next_read or start_next_write (one  *)
(* step each, with no other handler in between), since an Operation can be *)
(* completed by another thread at any point of that loop.                  *)
(*                                                                         *)
(* The device (external) sends the bytes 1, 2, 3...                        *)
(***************************************************************************)
EXTENDS Naturals, Sequences, FiniteSets

CONSTANTS
    Reads, Writes,    \* calls of read() and write()
    Scenarios,        \* sets of calls to consider together
    Count,            \* bytes a read asks for
    Length,           \* bytes a write has
    TermReads,        \* the reads with termchar_enabled
    TermBytes,        \* the bytes that equal termchar
    MaxBytes,         \* bound: bytes the device sends
    MaxFlushes,       \* bound: calls of flush and clear
    Serial            \* a serial port, whose input the system can discard

Requests == Reads \cup Writes
Bytes == 1 .. MaxBytes

ASSUME RequestsAssumption ==
    /\ Reads \cap Writes = {}
    /\ Scenarios \subseteq SUBSET Requests
    /\ TermReads \subseteq Reads
    /\ TermBytes \subseteq Bytes
ASSUME SizesAssumption == Count \in Nat \ {0} /\ Length \in Nat \ {0}
ASSUME BoundsAssumption == MaxBytes \in Nat /\ MaxFlushes \in Nat
ASSUME SerialAssumption == Serial \in BOOLEAN

VARIABLES
    posted,       \* tasks posted to the strand: <<task, requests it is for>>
    starting,     \* the queue whose start_next loop is running, or "none"
    queue,        \* read_queue_ and write_queue_
    stage,        \* what each request is doing
    op,           \* result_ of its Operation
    outcome,      \* what its caller is told
    io,           \* its operation on the stream
    scratch,      \* what the system has read for it
    data,         \* the bytes a read has collected, in the end its result
    read_ahead,   \* read_ahead_
    terminal,     \* terminal_status_ is an error
    delivered,    \* history: the bytes callers were given, in order
    discarded,    \* history: the bytes flush and clear have thrown away
    overtaken,    \* history: reads cancelled when their operation on the
                  \* stream had ended and its handler had not yet run
    inbound,      \* bytes that have arrived and are not read
    sent,         \* number of bytes the device has sent
    wire,         \* the writes whose bytes went out, one entry per byte
    closing, closed, broken,   \* close() is called; has run; end of file
    planned,      \* the calls the application is going to make
    flushes,      \* number of calls of flush and clear so far
    flushing      \* a flush() of a serial port has done the first half

callVars == <<stage, op, outcome>>
streamVars == <<inbound, sent, wire, closed, broken>>
byteVars == <<data, read_ahead, terminal, delivered>>
history == <<discarded, overtaken>>
bounds == <<closing, planned, flushes, flushing>>
vars == <<posted, starting, queue, callVars, io, scratch, byteVars, history,
          streamVars, bounds>>

Queues == {"read", "write"}
QueueOf(r) == IF r \in Reads THEN "read" ELSE "write"
Tasks == ({"enqueue", "cancel"} \X {{r} : r \in Requests}) \cup ({"flush", "purge", "close"} \X {{}})

\* One type invariant.  No read ever has more bytes than it asked for.
TypeOK ==
    /\ posted \in Seq(Tasks)
    /\ starting \in Queues \cup {"none"}
    /\ queue \in [Queues -> Seq(Requests)]
    /\ stage \in [Requests -> {"none", "calling", "posted", "queued", "active", "done"}]
    /\ op \in [Requests -> {"none", "pending", "cancelled", "done"}]
    /\ outcome \in [Requests -> {"none", "ok", "error", "cancelled"}]
    /\ io \in [Requests -> {"none", "busy", "ready", "failed", "aborted"}]
    /\ scratch \in [Requests -> Seq(Bytes)]
    /\ data \in [Requests -> Seq(Bytes)]
    /\ \A r \in Requests : Len(data[r]) <= Count
    /\ read_ahead \in Seq(Bytes)
    /\ terminal \in BOOLEAN
    /\ delivered \in Seq(Bytes)
    /\ discarded \in SUBSET Bytes
    /\ overtaken \in SUBSET Reads
    /\ inbound \in Seq(Bytes)
    /\ sent \in 0 .. MaxBytes
    /\ wire \in Seq(Writes)
    /\ closing \in BOOLEAN /\ closed \in BOOLEAN /\ broken \in BOOLEAN
    /\ planned \in Scenarios
    /\ flushes \in 0 .. MaxFlushes /\ flushing \in BOOLEAN

Init ==
    /\ posted = <<>>
    /\ starting = "none"
    /\ queue = [k \in Queues |-> <<>>]
    /\ stage = [r \in Requests |-> "none"]
    /\ op = [r \in Requests |-> "none"]
    /\ outcome = [r \in Requests |-> "none"]
    /\ io = [r \in Requests |-> "none"]
    /\ scratch = [r \in Requests |-> <<>>]
    /\ data = [r \in Requests |-> <<>>]
    /\ read_ahead = <<>>
    /\ terminal = FALSE
    /\ delivered = <<>>
    /\ discarded = {}
    /\ overtaken = {}
    /\ inbound = <<>>
    /\ sent = 0
    /\ wire = <<>>
    /\ closing = FALSE /\ closed = FALSE /\ broken = FALSE
    /\ planned \in Scenarios
    /\ flushes = 0 /\ flushing = FALSE

Done(r) == stage[r] = "done"
Elements(s) == {s[i] : i \in DOMAIN s}

-----------------------------------------------------------------------------
\* read() and write(): the cancel handler is installed, then the request posted.
Call(r) ==
    /\ stage[r] = "none"
    /\ r \in planned
    /\ ~closing
    /\ stage' = [stage EXCEPT ![r] = "calling"]
    /\ op' = [op EXCEPT ![r] = "pending"]
    /\ UNCHANGED <<posted, starting, queue, outcome, io, scratch, byteVars, history,
                   streamVars, bounds>>

Post(r) ==
    /\ stage[r] = "calling"
    /\ stage' = [stage EXCEPT ![r] = "posted"]
    /\ posted' = Append(posted, <<"enqueue", {r}>>)
    /\ UNCHANGED <<starting, queue, op, outcome, io, scratch, byteVars, history,
                   streamVars, bounds>>

\* viTerminate, viClose or the timer completes the Operation first; its handler
\* posts the cancellation.
CompleteOperation(r) ==
    /\ op[r] = "pending"
    /\ ~Done(r)
    /\ op' = [op EXCEPT ![r] = "cancelled"]
    /\ posted' = Append(posted, <<"cancel", {r}>>)
    /\ UNCHANGED <<starting, queue, stage, outcome, io, scratch, byteVars, history,
                   streamVars, bounds>>

\* flush() with a mask that discards input: a task for read_ahead_ and, on a serial
\* port, when that has run, another one for the input of the system.
CallFlush ==
    /\ flushes < MaxFlushes
    /\ ~closing
    /\ flushes' = flushes + 1
    /\ posted' = Append(posted, <<"flush", {}>>)
    /\ UNCHANGED <<starting, queue, callVars, io, scratch, byteVars, history,
                   streamVars, closing, planned, flushing>>

FlushInput ==
    /\ flushing
    /\ flushing' = FALSE
    /\ posted' = Append(posted, <<"purge", {}>>)
    /\ UNCHANGED <<starting, queue, callVars, io, scratch, byteVars, history,
                   streamVars, closing, planned, flushes>>

\* clear() of a serial port discards the input of the system only.
CallClear ==
    /\ Serial
    /\ flushes < MaxFlushes
    /\ ~closing
    /\ flushes' = flushes + 1
    /\ posted' = Append(posted, <<"purge", {}>>)
    /\ UNCHANGED <<starting, queue, callVars, io, scratch, byteVars, history,
                   streamVars, closing, planned, flushing>>

\* close(), which the session calls after it has cancelled every Operation and
\* lets no new one begin.
CallClose ==
    /\ ~closing
    /\ \A r \in Requests : stage[r] \notin {"none", "done"} => op[r] # "pending"
    /\ closing' = TRUE
    /\ posted' = Append(posted, <<"close", {}>>)
    /\ UNCHANGED <<starting, queue, callVars, io, scratch, byteVars, history,
                   streamVars, planned, flushes, flushing>>

-----------------------------------------------------------------------------
\* The task at the front of the strand.
Task(kind, rs) ==
    /\ starting = "none"
    /\ posted # <<>>
    /\ Head(posted) = <<kind, rs>>
    /\ posted' = Tail(posted)

\* Faulty variant of Enqueue: a request is started though another one is active.
EnqueueAndStart(r) ==
    /\ Task("enqueue", {r})
    /\ IF Done(r)
         THEN UNCHANGED <<queue, stage, starting>>
         ELSE /\ queue' = [queue EXCEPT ![QueueOf(r)] = <<r>> \o @]
              /\ stage' = [stage EXCEPT ![r] = "queued"]
              /\ starting' = QueueOf(r)
    /\ UNCHANGED <<op, outcome, io, scratch, byteVars, history, streamVars, bounds>>

\* enqueue_read and enqueue_write; the loop runs if the request is alone.
Enqueue(r) ==
    LET k == QueueOf(r) IN
    /\ Task("enqueue", {r})
    /\ IF Done(r)
         THEN UNCHANGED <<queue, stage, starting>>
         ELSE /\ queue' = [queue EXCEPT ![k] = Append(@, r)]
              /\ stage' = [stage EXCEPT ![r] = "queued"]
              /\ starting' = IF queue[k] = <<>> THEN k ELSE "none"
    /\ UNCHANGED <<op, outcome, io, scratch, byteVars, history, streamVars, bounds>>

\* Faulty variant of CancelWaiting: the request is answered and stays in its queue.
CancelWaitingInQueue(r) ==
    /\ Task("cancel", {r})
    /\ stage[r] # "active"
    /\ stage' = [stage EXCEPT ![r] = "done"]
    /\ outcome' = [outcome EXCEPT ![r] = IF Done(r) THEN @ ELSE "cancelled"]
    /\ UNCHANGED <<starting, queue, op, io, scratch, byteVars, history, streamVars, bounds>>

\* A queue without r, which is in it once at most.
Erase(q, r) ==
    IF \A i \in DOMAIN q : q[i] # r THEN q
    ELSE LET k == CHOOSE i \in DOMAIN q : q[i] = r
         IN  [i \in 1 .. Len(q) - 1 |-> IF i < k THEN q[i] ELSE q[i + 1]]

\* cancel_read and cancel_write of a request that is done or not active.
CancelWaiting(r) ==
    /\ Task("cancel", {r})
    /\ stage[r] # "active"
    /\ queue' = [queue EXCEPT ![QueueOf(r)] = Erase(@, r)]
    /\ stage' = [stage EXCEPT ![r] = "done"]
    /\ outcome' = [outcome EXCEPT ![r] = IF Done(r) THEN @ ELSE "cancelled"]
    /\ UNCHANGED <<starting, op, io, scratch, byteVars, history, streamVars, bounds>>

\* What cancelling or closing does to an operation on the stream.
Interrupted(x) == IF x = "busy" THEN "aborted" ELSE x

\* Faulty variant of CancelActive: the operation on the stream goes on.
CancelActiveNot(r) ==
    /\ Task("cancel", {r})
    /\ stage[r] = "active"
    /\ UNCHANGED <<starting, queue, callVars, io, scratch, byteVars, history, streamVars, bounds>>

\* cancel_read and cancel_write of the active request: the signal has no effect
\* if the operation on the stream has ended.
CancelActive(r) ==
    /\ Task("cancel", {r})
    /\ stage[r] = "active"
    /\ io' = [io EXCEPT ![r] = Interrupted(@)]
    /\ overtaken' = IF r \in Reads /\ io[r] = "ready" THEN overtaken \cup {r} ELSE overtaken
    /\ UNCHANGED <<starting, queue, callVars, scratch, byteVars, discarded, streamVars, bounds>>

\* flush() throws read_ahead_ away.
Flush ==
    /\ Task("flush", {})
    /\ read_ahead' = <<>>
    /\ discarded' = discarded \cup Elements(read_ahead)
    /\ flushing' = Serial
    /\ UNCHANGED <<starting, queue, callVars, io, scratch, data, terminal, delivered,
                   overtaken, streamVars, closing, planned, flushes>>

\* tcflush.
Purge ==
    /\ Task("purge", {})
    /\ inbound' = <<>>
    /\ discarded' = discarded \cup Elements(inbound)
    /\ UNCHANGED <<starting, queue, callVars, io, scratch, byteVars, overtaken,
                   sent, wire, closed, broken, bounds>>

Close ==
    /\ Task("close", {})
    /\ closed' = TRUE
    /\ io' = [r \in Requests |-> Interrupted(io[r])]
    /\ UNCHANGED <<starting, queue, callVars, scratch, byteVars, history,
                   inbound, sent, wire, broken, bounds>>

-----------------------------------------------------------------------------
\* How many of the bytes bs a read takes that has d already: up to a termchar, or
\* to the number it was asked for.
Stops(r, d, bs, i) == (r \in TermReads /\ bs[i] \in TermBytes) \/ Len(d) + i = Count

\* Faulty variant of Consumed: the whole buffer.
ConsumedAll(r, d, bs) == Len(bs)

Consumed(r, d, bs) ==
    IF \E i \in DOMAIN bs : Stops(r, d, bs, i)
      THEN CHOOSE i \in DOMAIN bs :
              Stops(r, d, bs, i) /\ \A j \in 1 .. i - 1 : ~Stops(r, d, bs, j)
      ELSE Len(bs)

Collected(r, d, bs) == d \o SubSeq(bs, 1, Consumed(r, d, bs))
LeftOver(r, d, bs)  == SubSeq(bs, Consumed(r, d, bs) + 1, Len(bs))

Finished(r, d) ==
    /\ d # <<>>
    /\ Len(d) = Count \/ (r \in TermReads /\ d[Len(d)] \in TermBytes)

\* Faulty variant of RestorePartialRead: the bytes go behind the others.
RestoreBehind(d, rest) == rest \o d

\* restore_partial_read.
RestorePartialRead(d, rest) == d \o rest

\* complete_active_read: the read gets the bytes d, unless its Operation was
\* completed before; then they are the next read's.
CompleteRead(r, status, d, rest) ==
    LET claimed == op[r] = "pending"
        given   == claimed /\ status = "ok"
    IN  /\ op' = [op EXCEPT ![r] = IF claimed THEN "done" ELSE @]
        /\ outcome' = [outcome EXCEPT ![r] = IF claimed THEN status ELSE "cancelled"]
        /\ data' = [data EXCEPT ![r] = IF given THEN d ELSE <<>>]
        /\ delivered' = IF given THEN delivered \o d ELSE delivered
        /\ read_ahead' = IF claimed THEN rest ELSE RestorePartialRead(d, rest)
        /\ stage' = [stage EXCEPT ![r] = "done"]
        /\ io' = [io EXCEPT ![r] = "none"]
        /\ scratch' = [scratch EXCEPT ![r] = <<>>]
        /\ queue' = [queue EXCEPT !["read"] = Tail(@)]
        /\ starting' = "read"

\* issue_read.
IssueRead(r, d, rest) ==
    /\ data' = [data EXCEPT ![r] = d]
    /\ read_ahead' = rest
    /\ stage' = [stage EXCEPT ![r] = "active"]
    /\ io' = [io EXCEPT ![r] = "busy"]
    /\ scratch' = [scratch EXCEPT ![r] = <<>>]
    /\ starting' = "none"
    /\ UNCHANGED <<queue, op, outcome, delivered>>

\* The loops of start_next_read and start_next_write: the end, and a request whose
\* Operation is completed (or whose deadline has passed).
LoopDone ==
    /\ starting # "none"
    /\ queue[starting] = <<>>
    /\ starting' = "none"
    /\ UNCHANGED <<posted, queue, callVars, io, scratch, byteVars, history, streamVars, bounds>>

Drop(r) ==
    /\ starting # "none"
    /\ queue[starting] # <<>> /\ Head(queue[starting]) = r
    /\ op[r] # "pending"
    /\ queue' = [queue EXCEPT ![starting] = Tail(@)]
    /\ stage' = [stage EXCEPT ![r] = "done"]
    /\ outcome' = [outcome EXCEPT ![r] = "cancelled"]
    /\ UNCHANGED <<posted, starting, op, io, scratch, byteVars, history, streamVars, bounds>>

\* A read is served from read_ahead_, ends because the stream has ended, or goes on
\* to the stream.
StartRead(r) ==
    LET d    == Collected(r, <<>>, read_ahead)
        rest == LeftOver(r, <<>>, read_ahead)
    IN  /\ starting = "read"
        /\ queue["read"] # <<>> /\ Head(queue["read"]) = r
        /\ op[r] = "pending"
        /\ CASE Finished(r, d) -> CompleteRead(r, "ok", d, rest)
             [] ~Finished(r, d) /\ terminal ->
                   CompleteRead(r, IF d = <<>> THEN "error" ELSE "ok", d, rest)
             [] OTHER -> IssueRead(r, d, rest)
        /\ UNCHANGED <<posted, terminal, history, streamVars, bounds>>

StartWrite(w) ==
    /\ starting = "write"
    /\ queue["write"] # <<>> /\ Head(queue["write"]) = w
    /\ op[w] = "pending"
    /\ stage' = [stage EXCEPT ![w] = "active"]
    /\ io' = [io EXCEPT ![w] = "busy"]
    /\ starting' = "none"
    /\ UNCHANGED <<posted, queue, op, outcome, scratch, byteVars, history, streamVars, bounds>>

-----------------------------------------------------------------------------
\* The handler of async_read_some.
OnRead(r) ==
    LET d    == Collected(r, data[r], scratch[r])
        rest == read_ahead \o LeftOver(r, data[r], scratch[r])
    IN  /\ starting = "none"
        /\ stage[r] = "active" /\ r \in Reads
        /\ io[r] = "ready"
        /\ IF Finished(r, d) THEN CompleteRead(r, "ok", d, rest) ELSE IssueRead(r, d, rest)
        /\ UNCHANGED <<posted, terminal, history, streamVars, bounds>>

\* The same with an error.  Bytes collected before are delivered and the error is
\* kept for the next read.
OnReadError(r) ==
    /\ starting = "none"
    /\ stage[r] = "active" /\ r \in Reads
    /\ io[r] \in {"failed", "aborted"}
    /\ terminal' = (terminal \/ (data[r] # <<>> /\ ~(io[r] = "aborted" /\ op[r] # "pending")))
    /\ CompleteRead(r, IF data[r] = <<>> THEN "error" ELSE "ok", data[r], read_ahead)
    /\ UNCHANGED <<posted, history, streamVars, bounds>>

\* The handler of async_write.
OnWritten(w) ==
    /\ starting = "none"
    /\ stage[w] = "active" /\ w \in Writes
    /\ io[w] \in {"ready", "failed", "aborted"}
    /\ op' = [op EXCEPT ![w] = IF io[w] = "ready" /\ @ = "pending" THEN "done" ELSE @]
    /\ outcome' = [outcome EXCEPT ![w] =
                      CASE io[w] = "ready" -> IF op[w] = "pending" THEN "ok" ELSE "cancelled"
                        [] io[w] = "aborted" /\ op[w] # "pending" -> "cancelled"
                        [] OTHER -> "error"]
    /\ stage' = [stage EXCEPT ![w] = "done"]
    /\ io' = [io EXCEPT ![w] = "none"]
    /\ queue' = [queue EXCEPT !["write"] = Tail(@)]
    /\ starting' = "write"
    /\ UNCHANGED <<posted, scratch, byteVars, history, streamVars, bounds>>

-----------------------------------------------------------------------------
\* The system fills a read's buffer with some of what has arrived.
ReadDone(r, n) ==
    /\ r \in Reads
    /\ io[r] = "busy"
    /\ ~closed
    /\ n \in 1 .. Len(inbound)
    /\ io' = [io EXCEPT ![r] = "ready"]
    /\ scratch' = [scratch EXCEPT ![r] = SubSeq(inbound, 1, n)]
    /\ inbound' = SubSeq(inbound, n + 1, Len(inbound))
    /\ UNCHANGED <<posted, starting, queue, callVars, byteVars, history,
                   sent, wire, closed, broken, bounds>>

\* How many bytes of a write are out.
Out(w) == Cardinality({i \in DOMAIN wire : wire[i] = w})

\* One more byte of a write goes out; the operation ends with the last one.
ByteWritten(w) ==
    /\ w \in Writes
    /\ io[w] = "busy"
    /\ ~closed /\ ~broken
    /\ wire' = Append(wire, w)
    /\ io' = [io EXCEPT ![w] = IF Out(w) + 1 = Length THEN "ready" ELSE @]
    /\ UNCHANGED <<posted, starting, queue, callVars, scratch, byteVars, history,
                   inbound, sent, closed, broken, bounds>>

\* An operation on a stream that is closed, or at its end.
IoFails(r) ==
    /\ io[r] = "busy"
    /\ closed \/ (broken /\ (inbound = <<>> \/ r \in Writes))
    /\ io' = [io EXCEPT ![r] = "failed"]
    /\ UNCHANGED <<posted, starting, queue, callVars, scratch, byteVars, history,
                   streamVars, bounds>>

DeviceSends ==
    /\ sent < MaxBytes
    /\ ~broken
    /\ sent' = sent + 1
    /\ inbound' = Append(inbound, sent + 1)
    /\ UNCHANGED <<posted, starting, queue, callVars, io, scratch, byteVars, history,
                   wire, closed, broken, bounds>>

ConnectionEnds ==
    /\ ~broken
    /\ broken' = TRUE
    /\ UNCHANGED <<posted, starting, queue, callVars, io, scratch, byteVars, history,
                   inbound, sent, wire, closed, bounds>>

\* Handlers, and what makes them run.
Strand ==
    \/ LoopDone \/ Flush \/ Purge \/ Close
    \/ \E r \in Requests :
          \/ Enqueue(r) \/ CancelWaiting(r) \/ CancelActive(r) \/ Drop(r)
          \/ StartRead(r) \/ StartWrite(r)
          \/ OnRead(r) \/ OnReadError(r) \/ OnWritten(r)

Environment ==
    \/ CallClose \/ DeviceSends \/ ConnectionEnds
    \/ CallFlush \/ CallClear
    \/ \E r \in Requests :
          \/ Call(r) \/ CompleteOperation(r) \/ ByteWritten(r)
          \/ \E n \in 1 .. Len(inbound) : ReadDone(r, n)

Next ==
    \/ Strand \/ Environment \/ FlushInput
    \/ \E r \in Requests : Post(r) \/ IoFails(r)

Spec == Init /\ [][Next]_vars

\* Calls go on, handlers run, and the end of the stream is noticed.  No byte has
\* to arrive and none has to be taken by the device.
Fairness ==
    /\ WF_vars(Strand) /\ WF_vars(FlushInput)
    /\ \A r \in Requests : WF_vars(Post(r)) /\ WF_vars(IoFails(r))

FairSpec == Spec /\ Fairness

-----------------------------------------------------------------------------
ActiveReads == {r \in Reads : stage[r] = "active"}

\* The bytes a read in progress has taken from the stream.
InHand ==
    IF ActiveReads = {} THEN <<>>
    ELSE LET r == CHOOSE r \in ActiveReads : TRUE IN data[r] \o scratch[r]

\* The bytes delivered and those on their way to a caller, in order.
Stream == delivered \o InHand \o read_ahead \o inbound

\* requirements.md: the bytes of a read that timed out or was cancelled go back to
\* read-ahead and later reads get them.  No byte is lost, doubled or out of order,
\* whoever is cancelled when, unless flush or clear threw it away; and a read with
\* a termchar is given nothing beyond it.
BytesInOrder ==
    /\ Elements(Stream) = (1 .. sent) \ discarded
    /\ \A i, j \in DOMAIN Stream : i < j => Stream[i] < Stream[j]
    /\ \A r \in TermReads : Done(r) =>
          \A i \in 1 .. Len(data[r]) - 1 : data[r][i] \notin TermBytes

\* Between handlers the first request of a queue is active and the others are
\* not: nobody is left behind in a queue that no handler will look at again.
QueueIsServed ==
    starting = "none" =>
        \A k \in Queues : \A i \in DOMAIN queue[k] :
            stage[queue[k][i]] = IF i = 1 THEN "active" ELSE "queued"

\* The bytes of two writes do not mix, and a write that succeeds is out as a whole.
WritesDoNotMix ==
    /\ \A i, j, m \in DOMAIN wire : i < j /\ j < m /\ wire[i] = wire[m] => wire[j] = wire[i]
    /\ \A w \in Writes : outcome[w] = "ok" => Out(w) = Length

\* A call that is cancelled or times out returns though the device is silent, and so
\* does every call when the stream is closed.  The exception is a read cancelled
\* between the end of its operation on the stream and the handler: the handler
\* issues the next one, which nobody cancels.
StreamCallsReturn ==
    \A r \in Requests :
        op[r] = "cancelled" \/ (closed /\ stage[r] # "none")
            ~> Done(r) \/ (r \in overtaken /\ ~closed)
=============================================================================
