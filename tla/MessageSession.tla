--------------------------- MODULE MessageSession ---------------------------
(***************************************************************************)
(* The backend sessions that exchange messages with an instrument: HiSLIP, *)
(* VXI-11, USBTMC, USB raw and GPIB.  All of them collect the data of a    *)
(* read in a local buffer, keep what a call does not return in read_ahead_,*)
(* and put a transfer that is cancelled right again, each in its own way.  *)
(*                                                                         *)
(* io_mutex_ lets one call at a time run, so one pc is enough; what runs   *)
(* beside it is the cancellation of its Operation, the instrument, flush() *)
(* of the HiSLIP and VXI-11 sessions, which take read_ahead_mutex_ only,   *)
(* and the last statement of Vxi11BackendSession::clear.                   *)
(*                                                                         *)
(* The instrument (external) answers write w with the bytes                *)
(* (w-1)*Length+1 .. w*Length, the last of which ends the message.         *)
(***************************************************************************)
EXTENDS Naturals, Sequences, SequencesExt

CONSTANTS
    Kinds,           \* the kinds of session
    Length,          \* bytes of an answer
    Termchars,       \* positions in an answer of bytes equal to the termination character
    Counts,          \* the counts given to viRead
    LastStatusTag,   \* 127: the last tag of READ_STATUS_BYTE
    MaxCalls,        \* bounds of the model: calls,
    MaxWrites,       \* writes among them, the first answer included,
    MaxFaults        \* and cancellations, errors and flushes

ASSUME KindsAssumption == Kinds \subseteq {"hislip", "vxi11", "usbtmc", "raw", "gpib"}
ASSUME LengthAssumption == Length \in Nat \ {0} /\ Termchars \subseteq 1..Length
ASSUME CountsAssumption == Counts \subseteq Nat \ {0}
ASSUME BoundAssumption ==
    /\ {MaxCalls, MaxWrites, MaxFaults} \subseteq Nat /\ 1 <= MaxWrites
    /\ LastStatusTag \in Nat /\ MaxCalls < LastStatusTag

VARIABLES
    kind,
    pc, call,                       \* where the call is that holds io_mutex_; its arguments
    op,                             \* its Operation: "pending" or "aborted"
    data, end, termchar,            \* locals of read()
    read_ahead, read_ahead_end,
    usable,                         \* usable_, ~closed_
    next_message_id, last_sent_message_id,
    clear_requested, clear_acknowledged, clear_request_finished,
    next_status_tag,
    tail,                           \* Vxi11BackendSession::clear has still to empty read_ahead_
    output, input, clearing,        \* external: bytes to come, parts of a message received,
    ids, irq,                       \* a HiSLIP clear is under way; id of each write; interrupt-IN
    calls, writes, faults,
    got, delivered, dropped,        \* what the last read has returned; bytes returned so far;
    torn, lost, stb                 \* bytes given up; END marks given up; a clear or recovery has
                                    \* failed; the last status byte, and whose it was

sessionVars == <<read_ahead, read_ahead_end, usable>>
idVars == <<next_message_id, last_sent_message_id>>
clearVars == <<clear_requested, clear_acknowledged, clear_request_finished>>
readVars == <<data, end, termchar>>
deviceVars == <<output, input, clearing, ids, irq>>
historyVars == <<got, delivered, dropped, torn, lost, stb>>
vars == <<kind, pc, call, op, readVars, sessionVars, idVars, clearVars, next_status_tag, tail,
          deviceVars, calls, writes, faults, historyVars>>

Answer(w) == [i \in 1..Length |-> (w - 1) * Length + i]
AnswerOf(b) == ((b - 1) \div Length) + 1
EndsMessage(b) == b % Length = 0
IsTermchar(b) == \E p \in Termchars : b % Length = p % Length
Interrupted == 0                    \* the HiSLIP message of that name, in output
Bytes(s) == {b \in ToSet(s) : b # Interrupted}

None == [what |-> "none"]
FirstId == 2                        \* 0xFFFFFF00; the ids go up by 2

Init ==
    /\ kind \in Kinds
    /\ pc = "idle" /\ call = None /\ op = "pending"
    /\ data = <<>> /\ end = FALSE /\ termchar = FALSE
    /\ read_ahead = <<>> /\ read_ahead_end = FALSE /\ usable = TRUE
    /\ next_message_id = FirstId + 2 /\ last_sent_message_id = FirstId
    /\ clear_requested = FALSE /\ clear_acknowledged = FALSE /\ clear_request_finished = FALSE
    /\ next_status_tag = 2 /\ tail = FALSE
    /\ output = Answer(1) /\ input = <<>> /\ clearing = FALSE /\ irq = <<>>
    /\ ids = [w \in 1..MaxWrites |-> IF w = 1 THEN FirstId ELSE 0]
    /\ calls = 0 /\ writes = 1 /\ faults = 0
    /\ got = [bytes |-> <<>>, write |-> 1] /\ delivered = {} /\ dropped = {}
    /\ torn = {} /\ lost = FALSE /\ stb = [asked |-> 0, answered |-> 0]

Fault == faults < MaxFaults /\ faults' = faults + 1

\* A call gets io_mutex_.  usable_ is asked by the USBTMC session only.
Begin ==
    /\ pc = "idle" /\ calls < MaxCalls /\ calls' = calls + 1
    /\ kind = "usbtmc" => usable

-----------------------------------------------------------------------------
(* Reading. *)

\* How many bytes of s the loops of read() take into data: not more than count
\* allows, and none after the termination character.
Prefix(s, room, tc) ==
    LET stops == {i \in 1..Len(s) : tc /\ IsTermchar(s[i])}
    IN  CHOOSE n \in 0..Len(s) :
            /\ n <= room /\ \A i \in stops : n <= i
            /\ n \in stops \cup {Len(s), room}

\* Faulty variant of PushFront: the bytes go to the back of the deque.
PushBack(bytes) == read_ahead \o bytes

\* for (it = data.rbegin(); ...) read_ahead_.push_front(*it), and restore_read_ahead.
PushFront(bytes) == bytes \o read_ahead

\* restore_read_ahead(received, end) of the GPIB session; the other sessions
\* give the bytes back without the mark.
RestoresEnd == kind = "gpib" /\ end

\* The call returns; io_mutex_ is free.
Return ==
    /\ pc' = "idle" /\ call' = None /\ op' = "pending"
    /\ data' = <<>> /\ end' = FALSE /\ termchar' = FALSE

\* The failed read gives back what it has collected.
Restore ==
    /\ read_ahead' = PushFront(data)
    /\ read_ahead_end' = (read_ahead_end \/ RestoresEnd)
    /\ torn' = IF end /\ ~RestoresEnd /\ data # <<>> THEN torn \cup {Last(data)} ELSE torn

\* read() starts: it takes what is in read_ahead_, and the END mark with the last
\* byte.  The raw session takes no notice of the termination character here.
BeginRead(count, tc) ==
    /\ Begin
    /\ call' = [what |-> "read", count |-> count, termchar |-> tc]
    /\ LET n == IF kind = "raw" THEN (IF count < Len(read_ahead) THEN count ELSE Len(read_ahead))
                                ELSE Prefix(read_ahead, count, tc)
           rest == SubSeq(read_ahead, n + 1, Len(read_ahead))
           ends == rest = <<>> /\ read_ahead_end
       IN  /\ data' = SubSeq(read_ahead, 1, n)
           /\ read_ahead' = rest
           /\ end' = ends
           /\ read_ahead_end' = (read_ahead_end /\ ~ends)
           /\ termchar' = (kind # "raw" /\ tc /\ n > 0 /\ IsTermchar(read_ahead[n]))
    /\ pc' = "reading"
    /\ UNCHANGED <<kind, op, usable, idVars, clearVars, next_status_tag, tail, deviceVars, writes, faults, historyVars>>

\* The loop of read() goes on; the raw session asks for one transfer, and only if
\* nothing was read ahead.
Wanting ==
    /\ pc = "reading" /\ ~end /\ ~termchar
    /\ IF kind = "raw" THEN data = <<>> ELSE Len(data) < call.count

\* frame.parameter != last_sent_message_id_.
Stale(b) == ids[AnswerOf(b)] # last_sent_message_id

\* Faulty variant of MarkEnd: what is read ahead does not keep the mark.
ForgetEnd(ends, rest) == end' = ends /\ UNCHANGED read_ahead_end

\* END of a chunk: of the bytes returned, or, when some are left over, of those.  A
\* VXI-11 session notes it for the call only.
MarkEnd(ends, rest) ==
    IF rest # <<>> /\ kind # "vxi11"
    THEN read_ahead_end' = (read_ahead_end \/ ends) /\ end' = FALSE
    ELSE end' = ends /\ UNCHANGED read_ahead_end

\* A transfer brings bytes of one message: a Data or DataEnd frame as long as the
\* instrument likes, an answer to device_read, REQUEST_DEV_DEP_MSG_IN, a bulk-IN
\* transfer or a GPIB read of at most what is asked for.  read_ahead_mutex_, which
\* HiSLIP and VXI-11 take for each byte and again for END, is taken once here.
Receive ==
    /\ Wanting /\ op = "pending" /\ usable /\ ~clearing
    /\ \E k \in 1..Len(output) :
        LET chunk == SubSeq(output, 1, k)
            room == call.count - Len(data)
            n == IF kind = "raw" THEN k ELSE Prefix(chunk, room, call.termchar)
            rest == SubSeq(chunk, n + 1, k)
        IN  /\ Interrupted \notin ToSet(chunk)
            /\ \A i \in 1..(k - 1) : ~EndsMessage(chunk[i])
            /\ kind # "hislip" => k <= room
            /\ kind = "hislip" => ~Stale(chunk[1])
            /\ data' = data \o SubSeq(chunk, 1, n)
            /\ termchar' = (kind # "raw" /\ call.termchar /\ n > 0 /\ IsTermchar(chunk[n]))
            /\ read_ahead' = read_ahead \o rest
            /\ MarkEnd(EndsMessage(chunk[k]), rest)
            /\ output' = SubSeq(output, k + 1, Len(output))
    /\ UNCHANGED <<kind, pc, call, op, usable, idVars, clearVars, next_status_tag, tail, input, clearing, ids, irq,
                   calls, writes, faults, historyVars>>

\* HiSLIP: an Interrupted message, or data that answers an earlier write, ends the
\* session; the second also empties read_ahead_.
Reject ==
    /\ kind = "hislip" /\ Wanting /\ op = "pending" /\ usable /\ ~clearing /\ output # <<>>
    /\ LET stale == Head(output) # Interrupted IN
        /\ stale => Stale(Head(output))
        /\ read_ahead' = IF stale THEN <<>> ELSE read_ahead
        /\ read_ahead_end' = (~stale /\ read_ahead_end)
        /\ dropped' = dropped \cup ToSet(data) \cup Bytes(output) \cup (IF stale THEN ToSet(read_ahead) ELSE {})
    /\ output' = <<>>
    /\ usable' = FALSE
    /\ Return
    /\ UNCHANGED <<kind, idVars, clearVars, next_status_tag, tail, input, clearing, ids, irq, calls, writes,
                   faults, got, delivered, torn, lost, stb>>

\* The end of read(): who completes the Operation first decides whether the bytes
\* go to the caller or back.
FinishRead ==
    /\ pc = "reading" /\ ~Wanting
    /\ IF op = "aborted"
       THEN Restore /\ UNCHANGED <<got, delivered>>
       ELSE LET stops == {i \in 1..Len(data) : kind = "raw" /\ call.termchar /\ IsTermchar(data[i])}
                n == IF stops = {} THEN Len(data) ELSE CHOOSE i \in stops : \A j \in stops : i <= j
            IN  /\ got' = [bytes |-> SubSeq(data, 1, n), write |-> writes]
                /\ delivered' = delivered \cup ToSet(SubSeq(data, 1, n))
                /\ read_ahead' = read_ahead \o SubSeq(data, n + 1, Len(data))
                /\ UNCHANGED <<read_ahead_end, torn>>
    /\ Return
    /\ UNCHANGED <<kind, usable, idVars, clearVars, next_status_tag, tail, deviceVars, calls, writes, faults,
                   dropped, lost, stb>>

-----------------------------------------------------------------------------
(* Cancellation and errors of a transfer. *)

\* Faulty variant of ResetAfterClear: the flags keep their values.
ResetIdsOnly ==
    /\ next_message_id' = FirstId /\ last_sent_message_id' = FirstId - 2
    /\ clear_requested' = FALSE
    /\ UNCHANGED <<clear_acknowledged, clear_request_finished>>

\* reset_after_clear, but for read_ahead_.
ResetAfterClear ==
    /\ next_message_id' = FirstId /\ last_sent_message_id' = FirstId - 2
    /\ clear_requested' = FALSE /\ clear_acknowledged' = FALSE /\ clear_request_finished' = FALSE

\* read_ahead_.clear(), read_ahead_end_ = false.
EmptyReadAhead == read_ahead' = <<>> /\ read_ahead_end' = FALSE

\* A read whose transfer ends with an error, the Operation still pending: the
\* instrument reports one, sends what cannot be decoded, or is gone.  The bytes go
\* back, but for those of a USBTMC session that is marked unusable.
ReadError ==
    /\ Wanting /\ op = "pending"
    /\ \/ Fault /\ usable' \in {usable, FALSE}
       \/ ~usable /\ UNCHANGED <<faults, usable>>
    /\ IF kind = "usbtmc" /\ ~usable'
       THEN dropped' = dropped \cup ToSet(data) /\ UNCHANGED <<read_ahead, read_ahead_end, torn>>
       ELSE Restore /\ UNCHANGED dropped
    /\ lost' = (lost \/ ~usable')
    /\ Return
    /\ UNCHANGED <<kind, idVars, clearVars, next_status_tag, tail, deviceVars, calls, writes, got, delivered, stb>>

\* What an acknowledged clear does to the instrument.
DeviceClear == input' = <<>> /\ output' = <<>>

\* request_async_clear, the cancel observer of the synchronous channel.  It does
\* nothing when a clear has been requested or the session is closed.  The instrument
\* may see the request and its acknowledgement come too late.  The observer is not
\* called when the frame has been read, or the request not yet been sent, as the
\* cancellation reaches the channel.
RequestAsyncClear(received, coming) ==
    \/ /\ input' = received /\ output' = coming
       /\ dropped' = dropped \cup (Bytes(output) \ Bytes(coming))
       /\ UNCHANGED <<clearVars, clearing>>
    \/ /\ usable /\ ~clear_requested
       /\ clear_requested' = TRUE /\ clear_request_finished' = TRUE
       /\ \/ clear_acknowledged' = FALSE /\ input' = received /\ UNCHANGED <<output, clearing, dropped>>
          \/ /\ clear_acknowledged' \in BOOLEAN
             /\ clearing' = TRUE /\ DeviceClear
             /\ dropped' = dropped \cup Bytes(output)

\* The transfer of a read is cancelled.  HiSLIP gives the bytes back and recovers
\* then; USBTMC recovers instead.  What was on its way may be lost with the transfer.
ReadCancelled ==
    /\ Wanting /\ op = "aborted"
    /\ CASE kind = "hislip" ->
            /\ Restore /\ \E coming \in Suffixes(output) : RequestAsyncClear(input, coming)
            /\ pc' = "recover" /\ data' = <<>> /\ end' = FALSE /\ termchar' = FALSE
            /\ UNCHANGED <<call, op>>
         [] kind = "usbtmc" ->
            /\ pc' = "recover"
            /\ UNCHANGED <<call, op, readVars, read_ahead, read_ahead_end, torn, clearVars, input, output, clearing,
                           dropped>>
         [] OTHER ->
            /\ Restore /\ Return
            /\ output' \in Suffixes(output)
            /\ dropped' = dropped \cup (Bytes(output) \ Bytes(output'))
            /\ UNCHANGED <<clearVars, input, clearing>>
    /\ UNCHANGED <<kind, usable, idVars, next_status_tag, tail, ids, irq, calls, writes, faults, got, delivered,
                   lost, stb>>

\* Everything that was read or was to be read is given up.
GiveUpAll == dropped' = dropped \cup ToSet(data) \cup ToSet(read_ahead) \cup (Bytes(output) \ Bytes(output'))

\* complete_cancel_recovery asks whether the asynchronous clear is acknowledged.
MayComplete == clear_request_finished /\ clear_acknowledged

\* DeviceClearComplete is answered: the recovery of a HiSLIP session succeeds.
CompleteCancelRecovery ==
    /\ kind = "hislip" /\ pc = "recover" /\ MayComplete /\ usable
    /\ clearing' = FALSE /\ DeviceClear
    /\ ResetAfterClear /\ EmptyReadAhead /\ GiveUpAll
    /\ Return
    /\ UNCHANGED <<kind, usable, next_status_tag, tail, ids, irq, calls, writes, faults, got, delivered, torn, lost, stb>>

\* It fails: VI_ERROR_CONN_LOST, and the session stays as it is.
CancelRecoveryFails ==
    /\ kind = "hislip" /\ pc = "recover"
    /\ \/ ~(MayComplete /\ usable) /\ UNCHANGED <<faults, clearing>>
       \/ MayComplete /\ Fault /\ clearing' \in {clearing, FALSE}
    /\ lost' = TRUE
    /\ Return
    /\ UNCHANGED <<kind, sessionVars, idVars, clearVars, next_status_tag, tail, input, output, ids, irq, calls, writes,
                   got, delivered, dropped, torn, stb>>

\* abort_bulk_in: drain_bulk_in drops what the instrument still sends of its answer.
AbortBulkIn ==
    /\ call.what = "read"
    /\ output' \in Suffixes(output) /\ UNCHANGED input

\* abort_bulk_out: the instrument gives up what it has of the message that was being
\* written.
AbortBulkOut ==
    /\ UNCHANGED output
    /\ IF call.what # "write" THEN UNCHANGED input
       ELSE \E n \in 0..Len(input) :
                /\ n > 0 => input[n].write # writes
                /\ \A i \in (n + 1)..Len(input) : input[i].write = writes
                /\ input' = SubSeq(input, 1, n)

\* recover_cancelled_transfer: one of them, of a read the second if it was sending its
\* request, and protocol_clear if that fails.
RecoverCancelledTransfer ==
    /\ kind = "usbtmc" /\ pc = "recover"
    /\ \/ /\ AbortBulkIn \/ AbortBulkOut \/ DeviceClear
          /\ EmptyReadAhead /\ GiveUpAll
          /\ UNCHANGED <<usable, faults>>
       \/ /\ Fault /\ usable' = FALSE
          /\ dropped' = dropped \cup ToSet(data)
          /\ UNCHANGED <<read_ahead, read_ahead_end, input, output>>
    /\ Return
    /\ UNCHANGED <<kind, idVars, clearVars, next_status_tag, tail, clearing, ids, irq, calls, writes, got, delivered,
                   torn, lost, stb>>

-----------------------------------------------------------------------------
(* Writing. *)

\* Faulty variant of EmptiesReadAhead: the rest of an old answer stays.
NeverEmpties(what) == FALSE

\* HiSlipBackendSession::write drops what it has read ahead; nobody else does.
EmptiesReadAhead(what) == kind = "hislip" /\ what = "write"

\* write() or assert_trigger() starts.  HiSLIP and VXI-11 send a message in parts of
\* at most the size the instrument accepts.
BeginWrite(what, parts) ==
    /\ Begin
    /\ what = "trigger" => kind # "raw"
    /\ parts = 1 \/ (what = "write" /\ kind \in {"hislip", "vxi11"})
    /\ IF what = "write" THEN writes < MaxWrites /\ writes' = writes + 1 ELSE UNCHANGED writes
    /\ call' = [what |-> what, left |-> parts]
    /\ IF EmptiesReadAhead(what) THEN EmptyReadAhead ELSE UNCHANGED <<read_ahead, read_ahead_end>>
    /\ dropped' = dropped \cup (ToSet(read_ahead) \ ToSet(read_ahead'))
    /\ pc' = "writing"
    /\ UNCHANGED <<kind, op, readVars, usable, idVars, clearVars, next_status_tag, tail, deviceVars, faults, got,
                   delivered, torn, lost, stb>>

\* The message id of the next part; the answer to a write carries that of its last.
TakeId ==
    /\ last_sent_message_id' = next_message_id
    /\ next_message_id' = next_message_id + 2
    /\ ids' = IF call.what = "write" THEN [ids EXCEPT ![writes] = next_message_id] ELSE ids

\* What the instrument has when the next part, or a piece of it, has arrived.  It
\* ignores parts while a HiSLIP clear is under way.  A mark tells the parts whose
\* viWrite returned an error.
Received(whole, failed) ==
    IF call.what = "trigger" \/ clearing THEN input
    ELSE Append(input, [write |-> writes, last |-> whole /\ call.left = 1, failed |-> failed])

SendPart ==
    /\ pc = "writing" /\ call.left > 0 /\ op = "pending" /\ usable
    /\ TakeId
    /\ input' = Received(TRUE, FALSE)
    /\ call' = [call EXCEPT !.left = @ - 1]
    /\ UNCHANGED <<kind, pc, op, readVars, sessionVars, clearVars, next_status_tag, tail, output, clearing, irq,
                   calls, writes, faults, historyVars>>

\* Faulty variant of Recovers: only HiSLIP takes a cancelled transfer back.
RecoversHislip == kind = "hislip"

\* Which sessions recover from a cancelled write.
Recovers == kind \in {"hislip", "usbtmc"}

\* The transfer of a part is cancelled; it has reached the instrument or not, or, where
\* it is not a frame on a channel that drains, in part.
WriteCancelled ==
    /\ pc = "writing" /\ call.left > 0 /\ op = "aborted"
    /\ TakeId
    /\ \E received \in {input, Received(TRUE, FALSE), Received(kind \in {"hislip", "vxi11"}, FALSE)} :
        IF kind = "hislip" THEN RequestAsyncClear(received, output)
        ELSE input' = received /\ UNCHANGED <<clearVars, output, clearing, dropped>>
    /\ IF Recovers THEN pc' = "recover" /\ UNCHANGED <<call, op, readVars>> ELSE Return
    /\ UNCHANGED <<kind, sessionVars, next_status_tag, tail, irq, calls, writes, faults, got, delivered, torn, lost, stb>>

\* It fails with the Operation pending: a transfer ends with an error or is short, or
\* the instrument reports one.  The part has arrived, or some of it, or nothing, and
\* nobody takes it back.  The channel of a HiSLIP session is then broken; a USBTMC
\* session is marked unusable when the instrument is gone, and goes on otherwise.
WriteError ==
    /\ pc = "writing" /\ call.left > 0 /\ op = "pending"
    /\ \/ Fault /\ usable' \in {FALSE, usable /\ kind # "hislip"}
       \/ ~usable /\ UNCHANGED <<faults, usable>>
    /\ TakeId
    /\ input' \in {input, Received(TRUE, TRUE), Received(FALSE, TRUE)}
    /\ lost' = (lost \/ ~usable')
    /\ Return
    /\ UNCHANGED <<kind, read_ahead, read_ahead_end, clearVars, next_status_tag, tail, output, clearing, irq, calls,
                   writes, got, delivered, dropped, torn, stb>>

\* The last part is out; a cancellation that comes now only changes the status.
FinishWrite ==
    /\ pc = "writing" /\ call.left = 0
    /\ Return
    /\ UNCHANGED <<kind, sessionVars, idVars, clearVars, next_status_tag, tail, deviceVars, calls, writes, faults,
                   historyVars>>

-----------------------------------------------------------------------------
(* clear, flush and read_stb. *)

BeginClear ==
    /\ Begin /\ ~tail
    /\ pc' = "clear" /\ call' = [what |-> "clear"]
    /\ UNCHANGED <<kind, op, readVars, sessionVars, idVars, clearVars, next_status_tag, tail, deviceVars, writes,
                   faults, historyVars>>

\* HiSLIP: AsyncDeviceClear is acknowledged.
AnnounceClear ==
    /\ kind = "hislip" /\ pc = "clear" /\ op = "pending" /\ usable
    /\ clearing' = TRUE /\ DeviceClear /\ dropped' = dropped \cup Bytes(output)
    /\ pc' = "complete"
    /\ UNCHANGED <<kind, call, op, readVars, sessionVars, idVars, clearVars, next_status_tag, tail, ids, irq, calls,
                   writes, faults, got, delivered, torn, lost, stb>>

\* The clear succeeds: DeviceClearComplete, device_clear, INITIATE_CLEAR with its
\* CHECK_CLEAR, the GPIB device clear.  VXI-11 empties read_ahead_ after it has
\* given io_mutex_ back; the raw session clears halted endpoints only.
ClearSucceeds ==
    /\ pc = (IF kind = "hislip" THEN "complete" ELSE "clear") /\ op = "pending" /\ usable
    /\ clearing' = FALSE
    /\ IF kind = "hislip" THEN ResetAfterClear ELSE UNCHANGED <<idVars, clearVars>>
    /\ IF kind = "raw" THEN UNCHANGED <<input, output>> ELSE DeviceClear
    /\ IF kind \in {"raw", "vxi11"} THEN UNCHANGED <<read_ahead, read_ahead_end>> ELSE EmptyReadAhead
    /\ dropped' = dropped \cup (Bytes(output) \ Bytes(output'))
                          \cup (IF kind \in {"raw", "vxi11"} THEN {} ELSE ToSet(read_ahead))
    /\ tail' = (kind = "vxi11")
    /\ Return
    /\ UNCHANGED <<kind, usable, next_status_tag, ids, irq, calls, writes, faults, got, delivered, torn, lost, stb>>

\* The clear fails or is cancelled; a USBTMC session is then unusable, a HiSLIP one
\* keeps the flags its observer has set.
ClearFails ==
    /\ pc \in {"clear", "complete"}
    /\ \/ (op = "aborted" \/ ~usable) /\ UNCHANGED faults
       \/ op = "pending" /\ Fault
    /\ IF pc = "complete" /\ op = "aborted" THEN RequestAsyncClear(input, output)
       ELSE clearing' \in {clearing, pc # "complete" /\ kind = "hislip"}
            /\ UNCHANGED <<clearVars, input, output, dropped>>
    /\ usable' = (usable /\ kind # "usbtmc")
    /\ lost' = TRUE
    /\ Return
    /\ UNCHANGED <<kind, read_ahead, read_ahead_end, idVars, next_status_tag, tail, ids, irq, calls, writes, got,
                   delivered, torn, stb>>

\* read_ahead_.clear() at the end of Vxi11BackendSession::clear.
ClearTail ==
    /\ tail /\ tail' = FALSE
    /\ EmptyReadAhead /\ dropped' = dropped \cup ToSet(read_ahead)
    /\ UNCHANGED <<kind, pc, call, op, readVars, usable, idVars, clearVars, next_status_tag, deviceVars, calls,
                   writes, faults, got, delivered, torn, lost, stb>>

\* flush() with a discard bit for the input.
Flush ==
    /\ pc = "idle" \/ kind \in {"hislip", "vxi11"}
    /\ read_ahead # <<>> /\ Fault
    /\ EmptyReadAhead /\ dropped' = dropped \cup ToSet(read_ahead)
    /\ UNCHANGED <<kind, pc, call, op, readVars, usable, idVars, clearVars, next_status_tag, tail, deviceVars, calls,
                   writes, got, delivered, torn, lost, stb>>

\* next_status_tag(): 2..127.
NextStatusTag == IF next_status_tag = LastStatusTag THEN 2 ELSE next_status_tag + 1

\* read_stb of a USBTMC session with an interrupt endpoint: READ_STATUS_BYTE is
\* accepted, the status byte comes through interrupt-IN.
BeginReadStb ==
    /\ kind = "usbtmc" /\ Begin
    /\ pc' = "stb" /\ call' = [what |-> "stb", tag |-> next_status_tag, request |-> calls']
    /\ next_status_tag' = NextStatusTag
    /\ irq' = Append(irq, [tag |-> next_status_tag, request |-> calls'])
    /\ UNCHANGED <<kind, op, readVars, sessionVars, idVars, clearVars, tail, output, input, clearing, ids, writes,
                   faults, historyVars>>

\* Faulty variant of Matches: any status byte but a service request is taken.
MatchesAny(notice) == notice.tag # 1

\* response_tag == tag.
Matches(notice) == notice.tag = call.tag

\* A packet of interrupt-IN: ours, a service request, or an answer that came late.
InterruptIn ==
    /\ pc = "stb" /\ op = "pending" /\ irq # <<>>
    /\ irq' = Tail(irq)
    /\ IF Matches(Head(irq))
       THEN stb' = [asked |-> call.request, answered |-> Head(irq).request] /\ Return
       ELSE UNCHANGED <<stb, pc, call, op, readVars>>
    /\ UNCHANGED <<kind, sessionVars, idVars, clearVars, next_status_tag, tail, output, input, clearing, ids, calls,
                   writes, faults, got, delivered, dropped, torn, lost>>

ReadStbCancelled ==
    /\ pc = "stb" /\ op = "aborted"
    /\ Return
    /\ UNCHANGED <<kind, sessionVars, idVars, clearVars, next_status_tag, tail, deviceVars, calls, writes, faults,
                   historyVars>>

-----------------------------------------------------------------------------
(* The environment. *)

\* viTerminate, viClose or the deadline completes the Operation of the call.
Terminate ==
    /\ pc \notin {"idle", "recover"} /\ op = "pending" /\ Fault
    /\ op' = "aborted"
    /\ UNCHANGED <<kind, pc, call, readVars, sessionVars, idVars, clearVars, next_status_tag, tail, deviceVars, calls,
                   writes, historyVars>>

\* The instrument has a whole message and answers it.  An answer nobody has read yet
\* is kept or, as IEEE 488.2 asks for, given up; HiSLIP reports that.
Execute ==
    /\ \E i \in 1..Len(input) :
        /\ input[i].last /\ \A j \in 1..(i - 1) : ~input[j].last
        /\ input' = SubSeq(input, i + 1, Len(input))
        /\ \/ output' = output \o Answer(input[i].write) /\ UNCHANGED dropped
           \/ /\ output # <<>>
              /\ output' = (IF kind = "hislip" THEN <<Interrupted>> ELSE <<>>) \o Answer(input[i].write)
              /\ dropped' = dropped \cup Bytes(output)
    /\ UNCHANGED <<kind, pc, call, op, readVars, sessionVars, idVars, clearVars, next_status_tag, tail, clearing, ids,
                   irq, calls, writes, faults, got, delivered, torn, lost, stb>>

ServiceRequest ==
    /\ kind = "usbtmc" /\ Fault
    /\ irq' = Append(irq, [tag |-> 1, request |-> 0])
    /\ UNCHANGED <<kind, pc, call, op, readVars, sessionVars, idVars, clearVars, next_status_tag, tail, output, input,
                   clearing, ids, calls, writes, historyVars>>

Next ==
    \/ \E count \in Counts, tc \in BOOLEAN : BeginRead(count, tc)
    \/ Receive \/ Reject \/ FinishRead \/ ReadError \/ ReadCancelled
    \/ CompleteCancelRecovery \/ CancelRecoveryFails \/ RecoverCancelledTransfer
    \/ \E what \in {"write", "trigger"}, parts \in 1..2 : BeginWrite(what, parts)
    \/ SendPart \/ WriteCancelled \/ WriteError \/ FinishWrite
    \/ BeginClear \/ AnnounceClear \/ ClearSucceeds \/ ClearFails \/ ClearTail \/ Flush
    \/ BeginReadStb \/ InterruptIn \/ ReadStbCancelled
    \/ Terminate \/ Execute \/ ServiceRequest

Spec == Init /\ [][Next]_vars

-----------------------------------------------------------------------------
\* The bytes the session holds, in the order it will return them.
Held == data \o read_ahead

Increasing(s) == \A i, j \in 1..Len(s) : i < j => s[i] < s[j]

\* A session returns bytes in the order the instrument sent them, and none twice or
\* after a clear, a discard or a recovery has given it up.
InOrder ==
    /\ Increasing(got.bytes) /\ Increasing(Held)
    /\ \A b \in ToSet(Held) : b \notin dropped /\ \A d \in delivered : d < b
    /\ delivered \cap dropped = {}

\* Of an answer the instrument has sent, each byte is still to come, is held, was
\* returned or was given up.
NothingForgotten ==
    LET known == delivered \cup dropped \cup ToSet(Held) \cup Bytes(output)
    IN  \A b \in known : ToSet(Answer(AnswerOf(b))) \subseteq known

\* Whatever counts, termination characters, failed and cancelled reads, clears and
\* concurrent flushes do to read_ahead_, every byte reaches a caller once and in
\* order, or is given up for good.  The raw session keeps every byte, but see
\* RawBytesInOrder.
BytesInOrder == NothingForgotten /\ (kind # "raw" => InOrder)

\* The order of UsbRawBackendSession::read, which appends what follows a termination
\* character to read_ahead_.
RawBytesInOrder == kind = "raw" => InOrder

\* A read returns bytes of one message, where the session keeps END marks (GPIB,
\* HiSLIP, USBTMC); the marks of reads cancelled after their last byte (torn) are
\* lost by all of them but GPIB.
MessagesSeparate ==
    kind \in {"gpib", "hislip", "usbtmc"} =>
        /\ \A i \in 1..(Len(got.bytes) - 1) : EndsMessage(got.bytes[i]) => got.bytes[i] \in torn
        /\ kind = "gpib" => torn = {}

\* A HiSLIP read returns the answer to the last write, never the rest of an answer to
\* an earlier one.
OwnAnswer == kind = "hislip" => \A b \in ToSet(got.bytes) : AnswerOf(b) = got.write

\* complete_cancel_recovery sends DeviceClearComplete to an instrument that has
\* acknowledged a clear, unless a recovery (VI_ERROR_CONN_LOST) or a viClear of the
\* session has failed before: the flags of a failed one stay set.
ClearIsAnnounced == kind = "hislip" /\ pc = "recover" /\ MayComplete => clearing \/ lost

\* A part goes on with the message of the one before it, or starts a new one.
Follows(before, after) == before.last \/ before.write = after.write

\* The instrument never joins parts of two messages, as long as no recovery or
\* viClear of the session has failed: a cancelled write is taken back.  It may join
\* what is left of a write that ended with an error (VI_ERROR_IO) to the next one, see
\* FailedWritesDoNotMix.
WritesDoNotMix ==
    kind \in {"hislip", "usbtmc"} =>
        lost \/ \A i \in 2..Len(input) : Follows(input[i - 1], input[i]) \/ input[i - 1].failed

\* The same of every write: UsbTmcBackendSession::write recovers from VI_ERROR_ABORT
\* and VI_ERROR_TMO only, and leaves the session usable after VI_ERROR_IO.
FailedWritesDoNotMix ==
    kind = "usbtmc" /\ ~lost => \A i \in 2..Len(input) : Follows(input[i - 1], input[i])

\* viReadSTB returns the status byte asked for, not a late answer to an earlier call.
StatusByteIsOwn == stb.answered = stb.asked
=============================================================================
