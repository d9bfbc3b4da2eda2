----------------------------- MODULE IoRuntime -----------------------------
(***************************************************************************)
(* IoRuntime (src/runtime/io_runtime.cpp): the two to four threads of the  *)
(* process that run every asynchronous handler of every network session.   *)
(*                                                                         *)
(* A VXI-11 or HiSLIP session has two request channels, each with a strand *)
(* (its handlers run in order and one at a time): "main", the core or      *)
(* synchronous channel, and "side", the abort or asynchronous one.  When   *)
(* the active request of the main channel is cancelled, its cancel         *)
(* observer sends a device_abort or an AsyncDeviceClear over the side      *)
(* channel and waits for the answer: it keeps its worker until handlers of *)
(* the side strand have run on another one.  That exchange is a write and  *)
(* then reads of a header and of a payload, perhaps several, and the side  *)
(* channel does not drain: only begin_response looks at the Operation.     *)
(*                                                                         *)
(* A handler that does not wait is one step.  RequestChannel.tla has the   *)
(* details of one channel; here a session makes one call.                  *)
(***************************************************************************)
EXTENDS Naturals, Sequences, FiniteSets

CONSTANTS
    Workers,     \* the threads that run the io_context
    Sessions,    \* VXI-11 and HiSLIP sessions
    Free         \* a worker that waits for work

Strands == Sessions \X {"main", "side"}

ASSUME FreeAssumption == Free \notin Strands
ASSUME FiniteAssumption == IsFiniteSet(Workers) /\ IsFiniteSet(Sessions)

VARIABLES
    tasks,    \* handlers posted to each strand
    at,       \* the strand in whose handler a worker waits
    call,     \* the exchange of each session on its main channel
    side,     \* the exchange its observer makes on the side channel: its socket operation
    expired   \* the sessions whose observer's Operation is completed by its deadline

poolVars == <<tasks, at, call, side, expired>>

Kinds == {"timer", "cancel", "response", "recovery", "enqueue", "answer", "aborted"}

SocketOperations == {"write", "header", "payload"}

\* One type invariant: queues, workers and the two exchanges of each session.
PoolTypes ==
    /\ tasks \in [Strands -> Seq(Kinds)]
    /\ at \in [Workers -> Strands \cup {Free}]
    /\ call \in [Sessions -> {"none", "active", "cancelled", "recovering", "returned"}]
    /\ side \in [Sessions -> SocketOperations \cup {"none", "queued", "done"}]
    /\ expired \subseteq Sessions

PoolInit ==
    /\ tasks = [x \in Strands |-> <<>>]
    /\ at = [w \in Workers |-> Free]
    /\ call = [s \in Sessions |-> "none"]
    /\ side = [s \in Sessions |-> "none"]
    /\ expired = {}

Main(s) == <<s, "main">>
Side(s) == <<s, "side">>

Posted(x, kind) == \E i \in DOMAIN tasks[x] : tasks[x][i] = kind

-----------------------------------------------------------------------------
\* The application makes a call.
MakeCall(s) ==
    /\ call[s] = "none"
    /\ call' = [call EXCEPT ![s] = "active"]
    /\ UNCHANGED <<tasks, at, side, expired>>

\* viTerminate or viClose completes the Operation: its handler posts cancel().
Terminate(s) ==
    /\ call[s] = "active"
    /\ call' = [call EXCEPT ![s] = "cancelled"]
    /\ tasks' = [tasks EXCEPT ![Main(s)] = Append(@, "cancel")]
    /\ UNCHANGED <<at, side, expired>>

\* The system posts the handler of a timer or of a socket operation, once.
Due(x, kind) ==
    /\ ~Posted(x, kind)
    /\ tasks' = [tasks EXCEPT ![x] = Append(@, kind)]
    /\ UNCHANGED <<at, call, side, expired>>

DeadlinePasses(s) == call[s] = "active" /\ Due(Main(s), "timer")

DeviceResponds(s) ==
    call[s] \in {"active", "cancelled", "recovering"} /\ Due(Main(s), "response")

RecoveryExpires(s) == call[s] = "recovering" /\ Due(Main(s), "recovery")

\* The socket operation of the side channel is carried out, or fails.
DeviceAnswers(s) ==
    /\ side[s] \in SocketOperations /\ ~Posted(Side(s), "aborted")
    /\ Due(Side(s), "answer")

SideDeadlinePasses(s) ==
    /\ side[s] \in SocketOperations /\ s \notin expired
    /\ Due(Side(s), "timer")

-----------------------------------------------------------------------------
\* A worker runs the first handler of a strand in which no worker waits.
Take(w, x, kind) ==
    /\ at[w] = Free
    /\ tasks[x] # <<>>
    /\ Head(tasks[x]) = kind
    /\ \A v \in Workers : at[v] # x

Rest(x) == [tasks EXCEPT ![x] = Tail(@)]

\* The deadline timer: request_timeout() posts cancel() if it is in time.
OnTimer(w, s) ==
    /\ Take(w, Main(s), "timer")
    /\ IF call[s] = "active"
         THEN /\ call' = [call EXCEPT ![s] = "cancelled"]
              /\ tasks' = [tasks EXCEPT ![Main(s)] = Append(Tail(@), "cancel")]
         ELSE tasks' = Rest(Main(s)) /\ UNCHANGED call
    /\ UNCHANGED <<at, side, expired>>

\* cancel() of an active request: the observer posts its own exchange and waits.
OnCancel(w, s) ==
    /\ Take(w, Main(s), "cancel")
    /\ IF call[s] = "cancelled"
         THEN /\ at' = [at EXCEPT ![w] = Main(s)]
              /\ side' = [side EXCEPT ![s] = "queued"]
              /\ tasks' = [Rest(Main(s)) EXCEPT ![Side(s)] = Append(@, "enqueue")]
         ELSE tasks' = Rest(Main(s)) /\ UNCHANGED <<at, side>>
    /\ UNCHANGED <<call, expired>>

\* The observer's exchange has returned; cancel() arms the recovery timer.
Resume(w, s) ==
    /\ at[w] = Main(s)
    /\ side[s] = "done"
    /\ at' = [at EXCEPT ![w] = Free]
    /\ call' = [call EXCEPT ![s] = "recovering"]
    /\ UNCHANGED <<tasks, side, expired>>

\* The response is read, or the recovery timer closes the channel: the call returns.
OnFinish(w, s, kind) ==
    /\ Take(w, Main(s), kind)
    /\ tasks' = Rest(Main(s))
    /\ call' = [call EXCEPT ![s] = "returned"]
    /\ UNCHANGED <<at, side, expired>>

\* The request of the observer is started on the side channel.
OnSideEnqueue(w, s) ==
    /\ Take(w, Side(s), "enqueue")
    /\ tasks' = Rest(Side(s))
    /\ side' = [side EXCEPT ![s] = "write"]
    /\ UNCHANGED <<at, call, expired>>

\* Faulty variant of OnSideTimer: the timeout does not cancel the exchange.
OnSideTimerIgnored(w, s) ==
    /\ Take(w, Side(s), "timer")
    /\ tasks' = Rest(Side(s))
    /\ expired' = IF side[s] = "done" THEN expired ELSE expired \cup {s}
    /\ UNCHANGED <<at, call, side>>

\* The observer's Operation lives for 250 or 500 ms; its timer completes it once,
\* and that posts cancel().
OnSideTimer(w, s) ==
    /\ Take(w, Side(s), "timer")
    /\ IF side[s] = "done"
         THEN tasks' = Rest(Side(s)) /\ UNCHANGED expired
         ELSE /\ expired' = expired \cup {s}
              /\ tasks' = [tasks EXCEPT ![Side(s)] = Append(Tail(@), "cancel")]
    /\ UNCHANGED <<at, call, side>>

\* The side channel does not drain: cancel() aborts the socket operation, unless
\* it has been carried out and its handler is in the queue.
OnSideCancel(w, s) ==
    /\ Take(w, Side(s), "cancel")
    /\ tasks' = [tasks EXCEPT ![Side(s)] =
                    IF side[s] # "done" /\ ~Posted(Side(s), "answer")
                      THEN Append(Tail(@), "aborted") ELSE Tail(@)]
    /\ UNCHANGED <<at, call, side, expired>>

\* The handler of a socket operation.  After the write begin_response looks at the
\* Operation; the handlers of the reads do not, and start the next read: of the
\* payload, if there is one, or of the next fragment.  Each may end the exchange,
\* with the response or an error.
OnSideAnswer(w, s) ==
    /\ Take(w, Side(s), "answer")
    /\ tasks' = Rest(Side(s))
    /\ \E next \in {"header", "payload", "done"} :
          /\ \/ side[s] \in {"write", "payload"} /\ next = "header"
             \/ side[s] = "header" /\ next = "payload"
             \/ next = "done"
          /\ side[s] = "write" /\ s \in expired => next = "done"
          /\ side' = [side EXCEPT ![s] = next]
    /\ UNCHANGED <<at, call, expired>>

OnSideAborted(w, s) ==
    /\ Take(w, Side(s), "aborted")
    /\ tasks' = Rest(Side(s))
    /\ side' = [side EXCEPT ![s] = "done"]
    /\ UNCHANGED <<at, call, expired>>

-----------------------------------------------------------------------------
PoolEnvironment(s) ==
    \/ MakeCall(s) \/ Terminate(s) \/ DeadlinePasses(s)
    \/ DeviceResponds(s) \/ DeviceAnswers(s)

Timers(s) == RecoveryExpires(s) \/ SideDeadlinePasses(s)

Handlers(w, s) ==
    \/ OnTimer(w, s) \/ OnCancel(w, s) \/ Resume(w, s)
    \/ OnFinish(w, s, "response") \/ OnFinish(w, s, "recovery")
    \/ OnSideEnqueue(w, s) \/ OnSideTimer(w, s) \/ OnSideCancel(w, s)
    \/ OnSideAnswer(w, s) \/ OnSideAborted(w, s)

PoolNext ==
    \E s \in Sessions : \/ PoolEnvironment(s)
                        \/ Timers(s)
                        \/ \E w \in Workers : Handlers(w, s)

PoolSpec == PoolInit /\ [][PoolNext]_poolVars

\* Timers expire and, as long as a worker is free, handlers run: the io_context is
\* served in order of arrival.  Neither the application nor the device need act.
PoolFairness ==
    \A s \in Sessions :
        /\ WF_poolVars(RecoveryExpires(s)) /\ WF_poolVars(SideDeadlinePasses(s))
        /\ WF_poolVars(\E w \in Workers : Handlers(w, s))

PoolFairSpec == PoolSpec /\ PoolFairness

-----------------------------------------------------------------------------
\* A session holds at most one worker, and only for the observer of a cancelled
\* call whose exchange on the side channel was started.
OneWorkerPerSession ==
    \A v, w \in Workers :
        at[w] # Free =>
            /\ at[v] = at[w] => v = w
            /\ \E s \in Sessions :
                  at[w] = Main(s) /\ call[s] = "cancelled" /\ side[s] # "none"

\* With more workers than sessions the observers never hold the last one, on which
\* the handlers they wait for must run.
WorkerLeft ==
    Cardinality(Sessions) < Cardinality(Workers) => \E w \in Workers : at[w] = Free

\* The observer of session s reads on although its Operation is completed: cancel()
\* came when a read was carried out and its handler was in the queue, and the timer
\* is spent.  Only the device or the connection ends the exchange.
ReadsOn(s) ==
    /\ s \in expired /\ side[s] \in {"header", "payload"}
    /\ \A kind \in {"cancel", "answer", "aborted"} : ~Posted(Side(s), kind)

\* A cancelled call returns although the device is silent, unless the cancellation
\* of its observer's exchange is lost between two reads.  Holds with more workers
\* than sessions, and not otherwise (cancel, begin_response, read_rpc_fragment).
CancelReturns == \A s \in Sessions : call[s] = "cancelled" ~> call[s] = "returned" \/ ReadsOn(s)

\* "viTerminate(..., VI_NULL) and viClose can wake blocked I/O": every cancelled
\* call returns, whatever the device does.
TerminateWakes == \A s \in Sessions : call[s] = "cancelled" ~> call[s] = "returned"
=============================================================================
