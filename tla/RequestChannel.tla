--------------------------- MODULE RequestChannel ---------------------------
(***************************************************************************)
(* RequestChannel (src/backends/asio/request_channel.cpp): one socket that *)
(* carries one request and its response at a time, with a queue for the    *)
(* others.  VXI-11 and HiSLIP sessions have two channels each.             *)
(*                                                                         *)
(* All state belongs to the channel's strand: every handler is one step.   *)
(* Tasks posted to the strand run in order; the handlers of timers and of  *)
(* socket operations come in between when they are due.  A socket          *)
(* operation is first carried out by the system (io = "ready") and its     *)
(* handler runs later, which is when a cancellation no longer reaches it.  *)
(*                                                                         *)
(* The device (external) answers the requests it has received, in order,   *)
(* with a frame of a header and a payload.  An exchange with an empty      *)
(* request, by which HiSLIP reads, gets the frame that comes next: the     *)
(* device owes it one from then on.                                        *)
(***************************************************************************)
EXTENDS Naturals, Sequences

CONSTANTS
    N,               \* number of exchanges
    Silent,          \* exchanges with ResponseFraming::none
    Empty,           \* exchanges with an empty request, which read the next frame only
    Oversized,       \* exchanges that may be answered with a header the channel rejects
    Unserialised,    \* exchanges made outside the io_mutex_ of the session
    Cancellable,     \* exchanges whose Operation viTerminate or viClose may cancel
    Kinds            \* kinds of channel: the values of drain_on_cancel

Requests == 1 .. N

ASSUME NAssumption == N \in Nat \ {0}
ASSUME RequestSetsAssumption ==
    /\ Silent \in SUBSET Requests
    /\ Empty \in SUBSET (Requests \ Silent)
    /\ Oversized \in SUBSET Requests
    /\ Unserialised \in SUBSET Requests
    /\ Cancellable \in SUBSET Requests
ASSUME KindsAssumption == Kinds \in SUBSET BOOLEAN

VARIABLES
    drain_on_cancel,   \* set by the constructor
    posted,      \* tasks posted to the strand: <<task, request>>
    queue,       \* queue
    stage,       \* what each request is doing
    io,          \* its socket operation
    part,        \* what its last read has brought in
    response,    \* whose response it has read, 0 for none
    timer,       \* its timer
    result,      \* the status its caller gets
    answers,     \* history: how often its promise was fulfilled
    sent,        \* history: how often it was started
    op,          \* its Operation
    handler,     \* the Operation has a cancel handler
    closed, broken,   \* closed;  the connection is lost
    received,    \* requests the device has not answered yet
    inbound,     \* what the device has sent and nobody has read
    undrained,   \* history: a request was given up before its response was read
    restarted    \* history: start_next found the active request

strandVars == <<queue, stage, io, part, response, timer, result, answers, sent, closed>>
opVars == <<op, handler>>
deviceVars == <<received, inbound, broken>>
vars == <<drain_on_cancel, posted, strandVars, opVars, deviceVars, undrained, restarted>>

Active == {"writing", "header", "payload"}
Stages == Active \cup {"none", "calling", "posted", "queued", "done"}
Parts == Requests \X {"header", "payload"}

\* One type invariant for the channel, the callers and the device.
TypeOK ==
    /\ drain_on_cancel \in BOOLEAN
    /\ posted \in Seq({"enqueue", "cancel"} \X Requests)
    /\ queue \in Seq(Requests)
    /\ stage \in [Requests -> Stages]
    /\ io \in [Requests -> {"none", "busy", "ready", "failed", "aborted"}]
    /\ part \in [Requests -> Parts \cup {<<>>}]
    /\ response \in [Requests -> 0 .. N]
    /\ timer \in [Requests -> {"off", "deadline", "recovery"}]
    /\ result \in [Requests -> {"none", "ok", "completed", "error"}]
    /\ answers \in [Requests -> 0 .. 1]
    /\ sent \in [Requests -> Nat]
    /\ op \in [Requests -> {"none", "pending", "completed"}]
    /\ handler \in [Requests -> BOOLEAN]
    /\ closed \in BOOLEAN
    /\ broken \in BOOLEAN
    /\ received \in Seq(Requests)
    /\ inbound \in Seq(Parts)
    /\ undrained \in BOOLEAN
    /\ restarted \in BOOLEAN

Init ==
    /\ drain_on_cancel \in Kinds
    /\ posted = <<>>
    /\ queue = <<>>
    /\ stage = [r \in Requests |-> "none"]
    /\ io = [r \in Requests |-> "none"]
    /\ part = [r \in Requests |-> <<>>]
    /\ response = [r \in Requests |-> 0]
    /\ timer = [r \in Requests |-> "off"]
    /\ result = [r \in Requests |-> "none"]
    /\ answers = [r \in Requests |-> 0]
    /\ sent = [r \in Requests |-> 0]
    /\ op = [r \in Requests |-> "none"]
    /\ handler = [r \in Requests |-> FALSE]
    /\ closed = FALSE
    /\ broken = FALSE
    /\ received = <<>>
    /\ inbound = <<>>
    /\ undrained = FALSE
    /\ restarted = FALSE

Done(r) == stage[r] = "done"

\* Two reads or writes of one request at a time are not followed any further: the
\* model of the strand ends where start_next restarts the active request.
In(r, stages) == stage[r] \in stages /\ ~restarted

-----------------------------------------------------------------------------
\* start_next on a queue q: the requests at its front whose Operation is
\* completed are answered and dropped, the next one is started: again, if it is
\* active already, and once more after every request dropped before it, whose
\* finish() has called start_next itself.  It is written, or begin_response is
\* called at once if there is nothing to write.
Startable(q) == {i \in DOMAIN q : op[q[i]] = "pending"}

FirstStartable(q) ==
    IF Startable(q) = {} THEN Len(q) + 1 ELSE CHOOSE i \in Startable(q) : \A j \in Startable(q) : i <= j

StartNext(q) == SubSeq(q, FirstStartable(q), Len(q))

Dropped(q) == {q[i] : i \in 1 .. FirstStartable(q) - 1}

FirstStage(r) == IF r \in Empty THEN "header" ELSE "writing"

\* Faulty variant of Fulfil: a request that is done already is answered again.
FulfilAlways(rs, status) ==
    /\ result' = [r \in Requests |-> IF r \in rs THEN status[r] ELSE result[r]]
    /\ answers' = [r \in Requests |-> IF r \in rs THEN answers[r] + 1 ELSE answers[r]]

\* What finish() does for the callers of the requests rs.
Fulfil(rs, status) ==
    /\ result' = [r \in Requests |-> IF r \in rs /\ ~Done(r) THEN status[r] ELSE result[r]]
    /\ answers' = [r \in Requests |-> IF r \in rs /\ ~Done(r) THEN answers[r] + 1 ELSE answers[r]]

\* What cancelling or closing the socket does to an operation on it.
Interrupted(x) == IF x = "busy" THEN "aborted" ELSE x

\* The channel after the requests rs are finished, with the status proposed
\* unless their Operation was faster, and q is what is left of the queue.
Settle(rs, proposed, q) ==
    LET dropped == IF closed' THEN {} ELSE Dropped(q)
        next    == IF closed' THEN q ELSE StartNext(q)
        over    == rs \cup dropped
        front   == IF closed' \/ next = <<>> THEN {} ELSE {Head(next)}
    IN  /\ queue' = next
        /\ Fulfil(over, [r \in Requests |->
                            IF op[r] = "completed" THEN "completed" ELSE proposed])
        /\ stage' = [r \in Requests |->
                     IF r \in front THEN FirstStage(r)
                     ELSE IF r \in over THEN "done"
                     ELSE stage[r]]
        /\ io' = [r \in Requests |->
                     IF r \in front THEN "busy"
                     ELSE IF r \in over THEN (IF closed' = closed THEN "none" ELSE Interrupted(io[r]))
                     ELSE io[r]]
        /\ timer' = [r \in Requests |->
                     IF r \in front THEN "deadline"
                     ELSE IF r \in over THEN "off"
                     ELSE timer[r]]
        /\ sent' = [r \in Requests |-> IF r \in front THEN sent[r] + 1 ELSE sent[r]]
        /\ received' = IF front \cap Empty = {} THEN received ELSE Append(received, Head(next))
        /\ restarted' = \/ restarted
                        \/ \E r \in (front \cup dropped) \ rs : stage[r] \in Active
                        \/ dropped # {} /\ front # {}
        \* A failing status completes the Operation.
        /\ op' = [r \in Requests |->
                     IF r \in over /\ proposed = "error" /\ op[r] = "pending"
                       THEN "completed" ELSE op[r]]

\* The queue without the entry of r.
Erase(q, r) ==
    IF \A i \in DOMAIN q : q[i] # r THEN q
    ELSE LET found == CHOOSE i \in DOMAIN q : q[i] = r
         IN  [i \in 1 .. Len(q) - 1 |-> IF i < found THEN q[i] ELSE q[i + 1]]

\* finish() of one request.
Finish(r, proposed) == Settle({r}, proposed, Erase(queue, r))

-----------------------------------------------------------------------------
\* exchange(): the session's io_mutex_ lets one exchange after the other through;
\* the cancel handler is installed before the request is posted.
Exchange(r) ==
    /\ In(r, {"none"})
    /\ r \notin Unserialised =>
          \A q \in Requests \ Unserialised : q < r => result[q] # "none"
    /\ stage' = [stage EXCEPT ![r] = "calling"]
    /\ op' = [op EXCEPT ![r] = "pending"]
    /\ handler' = [handler EXCEPT ![r] = TRUE]
    /\ UNCHANGED <<posted, queue, io, part, response, timer, result, answers, sent, closed,
                   deviceVars, undrained, restarted, drain_on_cancel>>

Post(r) ==
    /\ In(r, {"calling"})
    /\ stage' = [stage EXCEPT ![r] = "posted"]
    /\ posted' = Append(posted, <<"enqueue", r>>)
    /\ UNCHANGED <<queue, io, part, response, timer, result, answers, sent, closed,
                   opVars, deviceVars, undrained, restarted, drain_on_cancel>>

\* viTerminate, viClose or the deadline timer completes the Operation; its handler
\* posts cancel(), once.
CompleteOperation(r) ==
    /\ op[r] = "pending"
    /\ op' = [op EXCEPT ![r] = "completed"]
    /\ handler' = [handler EXCEPT ![r] = FALSE]
    /\ posted' = IF handler[r] THEN Append(posted, <<"cancel", r>>) ELSE posted

RequestCancel(r) ==
    /\ r \in Cancellable
    /\ result[r] = "none"
    /\ CompleteOperation(r)
    /\ UNCHANGED <<strandVars, deviceVars, undrained, restarted, drain_on_cancel>>

DeadlinePasses(r) ==
    /\ timer[r] = "deadline"
    /\ ~Done(r)
    /\ timer' = [timer EXCEPT ![r] = "off"]
    /\ IF op[r] = "pending" THEN CompleteOperation(r) ELSE UNCHANGED <<opVars, posted>>
    /\ UNCHANGED <<queue, stage, io, part, response, result, answers, sent, closed,
                   deviceVars, undrained, restarted, drain_on_cancel>>

-----------------------------------------------------------------------------
\* The task at the front of the strand.
Task(kind, r) ==
    /\ ~restarted
    /\ posted # <<>>
    /\ Head(posted) = <<kind, r>>
    /\ posted' = Tail(posted)

\* Faulty variant of Enqueue: a request is started although another one is active.
EnqueueAndStart(r) ==
    /\ Task("enqueue", r)
    /\ ~Done(r)
    /\ ~closed
    /\ op[r] = "pending"
    /\ queue' = Append(queue, r)
    /\ stage' = [stage EXCEPT ![r] = "writing"]
    /\ io' = [io EXCEPT ![r] = "busy"]
    /\ sent' = [sent EXCEPT ![r] = @ + 1]
    /\ timer' = [timer EXCEPT ![r] = "deadline"]
    /\ UNCHANGED <<part, response, result, answers, closed, opVars, deviceVars, undrained, restarted, drain_on_cancel>>

\* enqueue() of a request that can be served: started at once if it is alone.
Enqueue(r) ==
    /\ Task("enqueue", r)
    /\ ~Done(r)
    /\ ~closed
    /\ op[r] = "pending"
    /\ UNCHANGED closed
    /\ IF queue = <<>>
         THEN Settle({}, "ok", <<r>>)
         ELSE /\ queue' = Append(queue, r)
              /\ stage' = [stage EXCEPT ![r] = "queued"]
              /\ UNCHANGED <<io, timer, result, answers, sent, op, received, restarted>>
    /\ UNCHANGED <<part, response, handler, inbound, broken, undrained, drain_on_cancel>>

\* enqueue() of a request that is done, cancelled, or too late.
EnqueueRefused(r) ==
    /\ Task("enqueue", r)
    /\ Done(r) \/ closed \/ op[r] = "completed"
    /\ UNCHANGED closed
    /\ IF Done(r) THEN UNCHANGED <<strandVars, op, received, restarted>> ELSE Finish(r, "error")
    /\ UNCHANGED <<part, response, handler, inbound, broken, undrained, drain_on_cancel>>

\* cancel() of a request that is not active.
CancelWaiting(r) ==
    /\ Task("cancel", r)
    /\ stage[r] \notin Active
    /\ UNCHANGED closed
    /\ IF Done(r) THEN UNCHANGED <<strandVars, op, received, restarted>> ELSE Finish(r, "error")
    /\ UNCHANGED <<part, response, handler, inbound, broken, undrained, drain_on_cancel>>

\* Faulty variant of CancelActive: the recovery timer is not armed.
CancelActiveWithoutTimer(r) ==
    /\ Task("cancel", r)
    /\ In(r, Active)
    /\ timer' = [timer EXCEPT ![r] = "off"]
    /\ UNCHANGED <<queue, stage, io, part, response, result, answers, sent, closed,
                   opVars, deviceVars, undrained, restarted, drain_on_cancel>>

\* cancel() of the active request: a draining channel tells the device and gives
\* it a second to answer, the other kind aborts the socket operation, unless that
\* has been carried out already.
CancelActive(r) ==
    /\ Task("cancel", r)
    /\ In(r, Active)
    /\ IF drain_on_cancel
         THEN /\ timer' = [timer EXCEPT ![r] = "recovery"]
              /\ UNCHANGED io
         ELSE /\ io' = [io EXCEPT ![r] = Interrupted(@)]
              /\ UNCHANGED timer
    /\ UNCHANGED <<queue, stage, part, response, result, answers, sent, closed,
                   opVars, deviceVars, undrained, restarted, drain_on_cancel>>

\* close(): everything in the queue is answered.
Close ==
    /\ ~closed
    /\ ~restarted
    /\ closed' = TRUE
    /\ Settle({queue[i] : i \in DOMAIN queue}, "error", <<>>)
    /\ UNCHANGED <<posted, part, response, handler, inbound, broken, undrained, drain_on_cancel>>

\* Faulty variant of RecoveryExpires: the request is given up, the channel is not.
RecoveryKeepsChannel(r) ==
    /\ timer[r] = "recovery"
    /\ In(r, Active)
    /\ UNCHANGED closed
    /\ Finish(r, "error")
    /\ UNCHANGED <<posted, part, response, handler, inbound, broken, undrained, drain_on_cancel>>

\* The device has not answered in time: the channel is given up.
RecoveryExpires(r) ==
    /\ timer[r] = "recovery"
    /\ ~Done(r)
    /\ Close

-----------------------------------------------------------------------------
\* The system writes the request.
WriteDone(r) ==
    /\ In(r, {"writing"})
    /\ io[r] = "busy"
    /\ ~broken
    /\ io' = [io EXCEPT ![r] = "ready"]
    /\ received' = IF r \in Silent THEN received ELSE Append(received, r)
    /\ UNCHANGED <<posted, queue, stage, part, response, timer, result, answers, sent, closed,
                   opVars, inbound, broken, undrained, restarted, drain_on_cancel>>

\* The system reads a header or a payload.
ReadDone(r) ==
    /\ In(r, {"header", "payload"})
    /\ io[r] = "busy"
    /\ ~broken
    /\ inbound # <<>>
    /\ io' = [io EXCEPT ![r] = "ready"]
    /\ part' = [part EXCEPT ![r] = Head(inbound)]
    /\ inbound' = Tail(inbound)
    /\ UNCHANGED <<posted, queue, stage, response, timer, result, answers, sent, closed,
                   opVars, received, broken, undrained, restarted, drain_on_cancel>>

IoFails(r) ==
    /\ In(r, Active)
    /\ io[r] = "busy"
    /\ broken
    /\ io' = [io EXCEPT ![r] = "failed"]
    /\ UNCHANGED <<posted, queue, stage, part, response, timer, result, answers, sent, closed,
                   opVars, deviceVars, undrained, restarted, drain_on_cancel>>

\* The handler of a socket operation that failed or was aborted.
OnError(r) ==
    /\ In(r, Active)
    /\ io[r] \in {"failed", "aborted"}
    /\ UNCHANGED closed
    /\ Finish(r, "error")
    /\ undrained' = (undrained \/ (io[r] = "aborted"))
    /\ UNCHANGED <<posted, part, response, handler, inbound, broken, drain_on_cancel>>

\* The next stage of an active request.
Proceed(r, next) ==
    /\ stage' = [stage EXCEPT ![r] = next]
    /\ io' = [io EXCEPT ![r] = "busy"]
    /\ UNCHANGED <<queue, timer, result, answers, sent, op, received, restarted>>

\* The handler of the write: begin_response().
OnWritten(r) ==
    /\ In(r, {"writing"})
    /\ io[r] = "ready"
    /\ UNCHANGED closed
    /\ IF op[r] = "completed" \/ r \in Silent
         THEN Finish(r, "ok") /\ undrained' = (undrained \/ r \notin Silent)
         ELSE Proceed(r, "header") /\ UNCHANGED undrained
    /\ UNCHANGED <<posted, part, response, handler, inbound, broken, drain_on_cancel>>

\* The handler of the header.  One that announces more than maximum_frame_size is
\* rejected, and the rest of the response stays where it is.  What is read in place
\* of a header is taken for one or rejected, whatever its bytes happen to be.
OnHeader(r) ==
    /\ In(r, {"header"})
    /\ io[r] = "ready"
    /\ UNCHANGED closed
    /\ \/ Proceed(r, "payload") /\ UNCHANGED undrained
       \/ /\ r \in Oversized \/ part[r][2] # "header"
          /\ Finish(r, "error") /\ undrained' = TRUE
    /\ UNCHANGED <<posted, part, response, handler, inbound, broken, drain_on_cancel>>

\* The handler of the payload: the response is complete, and is kept only if the
\* Operation is still pending.
OnPayload(r) ==
    /\ In(r, {"payload"})
    /\ io[r] = "ready"
    /\ UNCHANGED closed
    /\ response' = [response EXCEPT ![r] = IF op[r] = "pending" THEN part[r][1] ELSE 0]
    /\ Finish(r, "ok")
    /\ UNCHANGED <<posted, part, handler, inbound, broken, undrained, drain_on_cancel>>

\* The handler of an operation whose request close() has answered: finish() does
\* nothing to a request that is done.
LateHandler(r) ==
    /\ In(r, {"done"})
    /\ io[r] \in {"ready", "failed", "aborted"}
    /\ io' = [io EXCEPT ![r] = "none"]
    /\ Fulfil({r}, result)
    /\ UNCHANGED <<posted, queue, stage, part, response, timer, sent, closed,
                   opVars, deviceVars, undrained, restarted, drain_on_cancel>>

-----------------------------------------------------------------------------
\* The device answers, or the connection breaks.
DeviceAnswers ==
    /\ received # <<>>
    /\ received' = Tail(received)
    /\ inbound' = inbound \o <<<<Head(received), "header">>, <<Head(received), "payload">>>>
    /\ UNCHANGED <<posted, strandVars, opVars, broken, undrained, restarted, drain_on_cancel>>

ConnectionBreaks ==
    /\ ~broken
    /\ broken' = TRUE
    /\ UNCHANGED <<posted, strandVars, opVars, received, inbound, undrained, restarted, drain_on_cancel>>

\* Handlers and what makes them run.
Strand(r) ==
    \/ Post(r)
    \/ Enqueue(r) \/ EnqueueRefused(r)
    \/ CancelWaiting(r) \/ CancelActive(r)
    \/ RecoveryExpires(r)
    \/ IoFails(r)
    \/ OnError(r) \/ OnWritten(r) \/ OnHeader(r) \/ OnPayload(r) \/ LateHandler(r)

Environment(r) ==
    \/ Exchange(r)
    \/ RequestCancel(r)
    \/ DeadlinePasses(r)
    \/ WriteDone(r)
    \/ ReadDone(r)

Next ==
    \/ \E r \in Requests : Strand(r) \/ Environment(r)
    \/ Close
    \/ DeviceAnswers
    \/ ConnectionBreaks

Spec == Init /\ [][Next]_vars

\* Handlers that are due run, the recovery timer expires, and a broken connection
\* is noticed.  The device need not answer, nor need a write come to an end.
Fairness == \A r \in Requests : WF_vars(Strand(r))

FairSpec == Spec /\ Fairness

-----------------------------------------------------------------------------
\* A promise is fulfilled once, whoever comes first: the response, an error, the
\* cancellation, or close() (a second set_value would throw in the strand).
AnsweredOnce == \A r \in Requests : answers[r] = IF Done(r) THEN 1 ELSE 0

\* The socket carries one request at a time, each is written once, and while one
\* is active it is the front of the queue, up to a start_next on a queue whose
\* front is active.
OneRequestOnTheWire ==
    \A r \in Requests : ~restarted =>
        /\ sent[r] <= 1
        /\ stage[r] \in Active => queue # <<>> /\ Head(queue) = r

\* A caller gets the response to its own request, also after others were
\* cancelled, provided none was given up before its response was read (by the
\* check in begin_response, by a channel that does not drain, or for its header).
ResponsesDrained ==
    \A r \in Requests : response[r] \in {0, r} \/ undrained

\* A cancelled exchange of a draining channel comes back although the device is
\* silent: its response, the end of the recovery time or close() answers it.
CancelledExchangeReturns ==
    []<>(\A r \in Requests : drain_on_cancel /\ op[r] = "completed" => result[r] # "none" \/ restarted)

-----------------------------------------------------------------------------
\* requirements.md: after a timeout or a cancellation, later requests are never
\* matched with an old response.
NoStaleResponse == \A r \in Requests : response[r] \in {0, r}

\* ADR 0007, one request at a time: start_next, called when a request behind the
\* active one is cancelled, does not start or drop the active one.
ActiveNotRestarted == ~restarted
=============================================================================
