--------------------------- MODULE PrologixProofs ---------------------------
(***************************************************************************)
(* Proofs about the Prologix controller of Prologix.tla, for any owners,   *)
(* addresses, calls and bounds, however many faults there are: a command   *)
(* is executed with the address and the EOI setting its session asked for, *)
(* and on TCP a session gets the answer to its own command.                *)
(***************************************************************************)
EXTENDS Prologix, SequenceTheorems, WellFoundedInduction, TLAPS

\* Where a caller is outside the gate, and inside.
Outside == {"idle", "gate", "asleep", "return"}
Inside == Requests \cup {"leave", "release"}

\* What the adapter sends and receives.
Items == [owner : Owners \cup {None}, call : Nat, mark : {"more", "eot", "lf"}, k : Nat]
Commands == [kind : {"init", "addr", "eoi"} \cup CallKinds, owner : Owners, call : Nat,
             end : BOOLEAN, conn : Nat]

\* Types of the callers' state.
CallerTypes ==
    /\ active_owner \in Owners \cup {None}
    /\ pc \in [Owners -> Outside \cup Inside]
    /\ op \in [Owners -> {"none", "pending", "completed"}]
    /\ status \in [Owners -> {"ok", "failed"}]
    /\ calls \in [Owners -> Nat]
    /\ call \in [Owners -> Calls \cup {None}]
    /\ \A o \in Owners : pc[o] # "idle" => call[o] \in Calls

\* Types of the strand and of the buffers.
BufferTypes ==
    /\ connection \in {"tcp", "serial"}
    /\ strand \in Seq({"start", "cancel", "close"})
    /\ io \in {"none", "busy", "posted"}
    /\ stream \in BOOLEAN
    /\ rx \in Seq(Items)
    /\ gathered \in [Owners -> Seq(Items)]
    /\ response \in [Owners -> Seq(Items)]
    /\ filled \in [Owners -> Nat]
    /\ returned \in [Owners -> Seq(Nat \cup Items)]

\* Types of the adapter.
AdapterTypes ==
    /\ todo \in Seq(Commands)
    /\ linked \in BOOLEAN
    /\ conn \in Nat

\* The active owner is the one inside, and a request is that of the active owner.
GateInv ==
    /\ \A o \in Owners : pc[o] \in Inside <=> active_owner = o
    /\ io # "none" => active_owner # None /\ pc[active_owner] \in Requests

\* A request is posted to the strand at most once.
StrandInv ==
    /\ \A i \in DOMAIN strand : strand[i] = "start" => io = "posted"
    /\ \A i, j \in DOMAIN strand : strand[i] = "start" /\ strand[j] = "start" => i = j

\* The transaction of the active owner has failed, and its connection will be given
\* up: nothing is known of the adapter until then.
Doubt == \E o \in Owners : active_owner = o /\ pc[o] = "leave" /\ status[o] = "failed"

\* The setting of the adapter when it has executed what it has received.
Final(kind, now) == SettingAt(todo, Len(todo) + 1, kind, now)

\* Commands are written on a connection that was found to work, and nothing is
\* cached before.
ReadyInv ==
    /\ ~initialized => current_address = None /\ current_send_end = None
    /\ \A o \in Owners : pc[o] \in {"connect", "init", "version"} => ~initialized
    /\ \A o \in Owners : pc[o] \in {"addr", "eoi", "command", "reply"} => initialized

\* What is cached is what the adapter will have, unless it hears nothing.
Trusted ==
    linked /\ ~Doubt =>
        /\ current_address # None => Final("addr", adr) = current_address
        /\ current_send_end # None => Final("eoi", eoi) = current_send_end

\* A command is written when the caches say that the adapter is set for it.
StepInv ==
    \A o \in Owners :
        /\ pc[o] \in {"eoi", "command"} /\ call[o].kind \in {"read", "write", "clr"} =>
                current_address = Address[o]
        /\ pc[o] = "command" /\ call[o].kind = "write" => current_send_end = call[o].end
        /\ pc[o] = "reply" => Answered(o)

\* The inductive invariant for the adapter's settings.
SettingInv ==
    /\ CallerTypes /\ BufferTypes /\ AdapterTypes
    /\ GateInv /\ StrandInv /\ ReadyInv /\ Trusted /\ StepInv /\ RightInstrument

-----------------------------------------------------------------------------
\* Every nonempty set of naturals has a least element.
LEMMA LeastNumber ==
    ASSUME NEW S, S \subseteq Nat, S # {}
    PROVE  \E x \in S : \A y \in S : x <= y
<1>1. PICK R : R = OpToRel(<, Nat)
  OBVIOUS
<1>2. IsWellFoundedOn(R, Nat)
  BY <1>1, NatLessThanWellFounded, Zenon
<1>3. PICK x \in S : \A y \in S : ~ (<<y, x>> \in R)
  BY <1>2, WFMin, Zenon
<1>4. R = {ss \in Nat \X Nat : ss[1] < ss[2]}
  BY <1>1, Zenon DEF OpToRel
<1>5. ASSUME NEW y \in S PROVE x <= y
  <2>1. <<y, x>> \in Nat \X Nat /\ ~(<<y, x>> \in R)
    BY <1>3
  <2> QED
    BY <1>4, <2>1
<1> QED
  BY <1>5

\* A nonempty set of positions has a last one, which is what SettingAt chooses.
LEMMA LastPosition ==
    ASSUME NEW n \in Nat, NEW B, B \subseteq 1 .. n, B # {}
    PROVE  \E m \in B : \A k \in B : k <= m
<1> DEFINE S == {n - k : k \in B}
<1>1. S \subseteq Nat /\ S # {}
  <2>1. \A k \in B : n - k \in Nat
    OBVIOUS
  <2> QED
    BY <2>1
<1>2. PICK x \in S : \A y \in S : x <= y
  <2> HIDE DEF S
  <2> QED
    BY <1>1, LeastNumber
<1>3. PICK m \in B : x = n - m
  BY <1>2
<1>4. ASSUME NEW k \in B PROVE k <= m
  <2>1. n - k \in S
    OBVIOUS
  <2>2. x <= n - k
    BY <1>2, <2>1
  <2> QED
    BY <1>3, <2>2
<1> QED
  BY <1>4

\* CHOOSE of a greatest position gives that position.
LEMMA ChosenPosition ==
    ASSUME NEW B, B \subseteq Nat, NEW m \in B, \A k \in B : k <= m
    PROVE  (CHOOSE j \in B : \A k \in B : k <= j) = m
<1>1. \A j \in B : (\A k \in B : k <= j) => j = m
  OBVIOUS
<1> QED
  BY <1>1

\* The positions of the settings of a kind before position i of q.
Before(q, i, kind) == {j \in 1 .. i - 1 : q[j].kind = kind}

\* What SettingAt is, without its CHOOSE.
LEMMA SettingNone ==
    ASSUME NEW q, NEW i \in Nat, NEW kind, NEW now, Before(q, i, kind) = {}
    PROVE  SettingAt(q, i, kind, now) = now
BY DEF SettingAt, Before

\* The setting a command finds is that of the last command before it that sets it.
LEMMA SettingLast ==
    ASSUME NEW q, NEW i \in Nat, NEW kind, NEW now,
           NEW m \in Before(q, i, kind), \A k \in Before(q, i, kind) : k <= m
    PROVE  SettingAt(q, i, kind, now) = IF kind = "addr" THEN Address[q[m].owner] ELSE q[m].end
<1> DEFINE B == Before(q, i, kind)
<1>1. B \subseteq Nat /\ m \in B /\ \A k \in B : k <= m
  BY DEF Before
<1>2. (CHOOSE j \in B : \A k \in B : k <= j) = m
  <2> HIDE DEF B
  <2> QED
    BY <1>1, ChosenPosition
<1> QED
  BY <1>2 DEF SettingAt, Before

\* A command at the end changes no setting before it, and is the last one after it.
LEMMA SettingAppend ==
    ASSUME NEW q \in Seq(Commands), NEW c \in Commands, NEW kind, NEW now, NEW r \in Seq(Commands),
           r[Len(q) + 1] = c, \A j \in 1 .. Len(q) : r[j] = q[j]
    PROVE  /\ \A i \in 1 .. Len(q) + 1 : SettingAt(r, i, kind, now) = SettingAt(q, i, kind, now)
           /\ SettingAt(r, Len(q) + 2, kind, now) =
                 IF c.kind # kind THEN SettingAt(q, Len(q) + 1, kind, now)
                 ELSE IF kind = "addr" THEN Address[c.owner] ELSE c.end
<1>1. ASSUME NEW i \in Nat, NEW j \in Nat, Before(r, i, kind) = Before(q, j, kind),
             Before(q, j, kind) \subseteq 1 .. Len(q)
      PROVE  SettingAt(r, i, kind, now) = SettingAt(q, j, kind, now)
  <2> DEFINE B == Before(q, j, kind)
  <2>0. B \subseteq 1 .. Len(q) /\ Len(q) \in Nat
    BY <1>1
  <2>1. CASE B = {}
    BY <1>1, <2>1, SettingNone
  <2>2. CASE B # {}
    <3>1. PICK m \in B : \A k \in B : k <= m
      <4> HIDE DEF B
      <4> QED
        BY <2>0, <2>2, LastPosition
    <3>2. SettingAt(q, j, kind, now) = IF kind = "addr" THEN Address[q[m].owner] ELSE q[m].end
      BY <3>1, SettingLast
    <3>3. SettingAt(r, i, kind, now) = IF kind = "addr" THEN Address[r[m].owner] ELSE r[m].end
      BY <1>1, <3>1, SettingLast
    <3>4. r[m] = q[m]
      BY <1>1, <3>1
    <3> QED
      BY <3>2, <3>3, <3>4
  <2> QED
    BY <2>1, <2>2
<1>2. ASSUME NEW i \in 1 .. Len(q) + 1
      PROVE  SettingAt(r, i, kind, now) = SettingAt(q, i, kind, now)
  <2>1. Before(r, i, kind) = Before(q, i, kind) /\ Before(q, i, kind) \subseteq 1 .. Len(q)
    BY DEF Before
  <2> QED
    BY <1>1, <2>1
<1>3. CASE c.kind # kind
  <2>1. Before(r, Len(q) + 2, kind) = Before(q, Len(q) + 1, kind)
        /\ Before(q, Len(q) + 1, kind) \subseteq 1 .. Len(q)
    BY <1>3 DEF Before
  <2> QED
    BY <1>1, <1>2, <1>3, <2>1
<1>4. CASE c.kind = kind
  <2>1. Len(q) + 1 \in Before(r, Len(q) + 2, kind)
        /\ \A k \in Before(r, Len(q) + 2, kind) : k <= Len(q) + 1
    BY <1>4 DEF Before
  <2>2. SettingAt(r, Len(q) + 2, kind, now) =
          IF kind = "addr" THEN Address[r[Len(q) + 1].owner] ELSE r[Len(q) + 1].end
    <3> DEFINE i == Len(q) + 2
               m == Len(q) + 1
    <3>1. i \in Nat /\ m \in Before(r, i, kind) /\ \A k \in Before(r, i, kind) : k <= m
      BY <2>1
    <3> HIDE DEF i, m
    <3>2. SettingAt(r, i, kind, now) = IF kind = "addr" THEN Address[r[m].owner] ELSE r[m].end
      BY <3>1, SettingLast
    <3> QED
      BY <3>2 DEF i, m
  <2> QED
    BY <1>2, <1>4, <2>2
<1> QED
  BY <1>2, <1>3, <1>4

\* What SettingAt finds when the first command is executed is what it found before.
LEMMA SettingTail ==
    ASSUME NEW q \in Seq(Commands), q # <<>>, NEW kind, NEW now, NEW then,
           NEW r \in Seq(Commands), \A j \in 1 .. Len(q) - 1 : r[j] = q[j + 1],
           then = IF q[1].kind # kind THEN now
                  ELSE IF kind = "addr" THEN Address[q[1].owner] ELSE q[1].end
    PROVE  \A i \in 1 .. Len(q) : SettingAt(r, i, kind, then) = SettingAt(q, i + 1, kind, now)
<1> SUFFICES ASSUME NEW i \in 1 .. Len(q)
             PROVE  SettingAt(r, i, kind, then) = SettingAt(q, i + 1, kind, now)
  OBVIOUS
<1> DEFINE B == Before(q, i + 1, kind)
           C == Before(r, i, kind)
<1>1. \A j \in 1 .. i - 1 : j \in C <=> j + 1 \in B
  BY DEF Before
<1>2. B \subseteq 1 .. i /\ C \subseteq 1 .. i - 1 /\ i \in Nat /\ i + 1 \in Nat
  BY DEF Before
<1>3. CASE B = {}
  <2>1. C = {}
    BY <1>1, <1>2, <1>3
  <2>2. q[1].kind # kind
    BY <1>3 DEF Before
  <2> QED
    BY <1>3, <2>1, <2>2, SettingNone
<1>4. CASE B # {}
  <2>1. PICK m \in B : \A k \in B : k <= m
    <3> HIDE DEF B
    <3> QED
      BY <1>2, <1>4, LastPosition
  <2>2. SettingAt(q, i + 1, kind, now) = IF kind = "addr" THEN Address[q[m].owner] ELSE q[m].end
    BY <1>2, <2>1, SettingLast
  <2>3. CASE m = 1
    <3>1. C = {}
      <4> SUFFICES ASSUME NEW j \in C PROVE FALSE
        OBVIOUS
      <4>1. j + 1 \in B /\ j \in Nat /\ j > 0
        BY <1>1, <1>2
      <4> QED
        BY <2>1, <2>3, <4>1
    <3>2. q[1].kind = kind
      BY <2>1, <2>3 DEF Before
    <3> QED
      BY <1>2, <2>2, <2>3, <3>1, <3>2, SettingNone
  <2>4. CASE m # 1
    <3>1. m - 1 \in C /\ m - 1 \in 1 .. i - 1
      BY <1>1, <1>2, <2>1, <2>4
    <3>2. \A k \in C : k <= m - 1
      BY <1>1, <1>2, <2>1
    <3>3. SettingAt(r, i, kind, then) = IF kind = "addr" THEN Address[r[m - 1].owner] ELSE r[m - 1].end
      <4> DEFINE l == m - 1
      <4>1. l \in C /\ \A k \in C : k <= l
        BY <3>1, <3>2
      <4> HIDE DEF l
      <4>2. SettingAt(r, i, kind, then) = IF kind = "addr" THEN Address[r[l].owner] ELSE r[l].end
        BY <1>2, <4>1, SettingLast
      <4> QED
        BY <4>2 DEF l
    <3>4. r[m - 1] = q[m]
      BY <1>2, <2>1, <3>1
    <3> QED
      BY <2>2, <3>3, <3>4
  <2> QED
    BY <2>3, <2>4
<1> QED
  BY <1>3, <1>4

-----------------------------------------------------------------------------
\* The next step of a transaction: a command is written only when the caches say
\* that the adapter is set for it.
LEMMA StepFacts ==
    ASSUME NEW o \in Owners, call[o] \in Calls, NEW where, NEW a, NEW e
    PROVE  /\ StepAfter(o, where, a, e) \in {"leave", "reply", "addr", "eoi", "command"}
           /\ StepAfter(o, where, a, e) = "reply" => where = "command" /\ Answered(o)
           /\ where = "command" /\ StepAfter(o, where, a, e) = "leave" => ~Answered(o)
           /\ where = "command" => StepAfter(o, where, a, e) \in {"leave", "reply"}
           /\ StepAfter(o, where, a, e) \in {"eoi", "command"} /\ call[o].kind \in {"read", "write", "clr"} =>
                  a = Address[o]
           /\ StepAfter(o, where, a, e) = "command" /\ call[o].kind = "write" => e = call[o].end
BY DEF StepAfter, SetsAddress, SetsEoi, Answered, Calls

\* A request is posted or started, or refused.
LEMMA RequestFacts ==
    ASSUME CallerTypes, BufferTypes, NEW o \in Owners, NEW step \in Requests \cup {"leave"},
           NEW queue \in Seq({"start", "cancel", "close"}),
           \A i \in DOMAIN queue : queue[i] # "start", Request(o, step, queue)
    PROVE  /\ pc' \in [Owners -> Outside \cup Inside]
           /\ status' \in [Owners -> {"ok", "failed"}]
           /\ \A x \in Owners : x # o => pc'[x] = pc[x] /\ status'[x] = status[x]
           /\ \/ pc'[o] = step /\ status' = status /\ (io' # "none" => step \in Requests)
              \/ pc'[o] = "leave" /\ status'[o] = "failed" /\ io' = "none"
           /\ io' \in {"none", "busy", "posted"}
           /\ strand' \in Seq({"start", "cancel", "close"})
           /\ StrandInv'
<1>0. step \in Outside \cup Inside /\ "leave" \in Outside \cup Inside
  BY DEF Inside
<1>1. CASE step = "leave"
  BY <1>0, <1>1 DEF Request, CallerTypes, StrandInv
<1>2. CASE step # "leave" /\ op[o] = "completed"
  BY <1>0, <1>2 DEF Request, Fail, CallerTypes, StrandInv
<1>3. CASE step # "leave" /\ op[o] # "completed"
  <2>1. /\ pc' = [pc EXCEPT ![o] = step] /\ status' = status
        /\ io' = IF queue = <<>> THEN "busy" ELSE "posted"
        /\ strand' = IF queue = <<>> THEN queue ELSE Append(queue, "start")
    BY <1>3 DEF Request
  <2>2. strand' \in Seq({"start", "cancel", "close"}) /\ StrandInv'
    <3>1. CASE queue = <<>>
      BY <2>1, <3>1 DEF StrandInv
    <3>2. CASE queue # <<>>
      <4>1. io' = "posted" /\ strand' = Append(queue, "start")
        BY <2>1, <3>2
      <4>2. /\ DOMAIN strand' = 1 .. Len(queue) + 1
            /\ \A i \in 1 .. Len(queue) : strand'[i] # "start"
        BY <4>1
      <4> QED
        BY <4>1, <4>2 DEF StrandInv
    <3> QED
      BY <3>1, <3>2
  <2> QED
    BY <1>0, <1>3, <2>1, <2>2 DEF CallerTypes
<1> QED
  BY <1>1, <1>2, <1>3

\* A request that fails leads to the end of the transaction.
LEMMA FailFacts ==
    ASSUME CallerTypes, NEW o \in Owners, Fail(o)
    PROVE  /\ pc' \in [Owners -> Outside \cup Inside]
           /\ status' \in [Owners -> {"ok", "failed"}]
           /\ \A x \in Owners : x # o => pc'[x] = pc[x] /\ status'[x] = status[x]
           /\ pc'[o] = "leave" /\ status'[o] = "failed" /\ io' = "none"
BY DEF Fail, CallerTypes, Inside

\* While a request is under way nothing is posted.
LEMMA NothingPosted ==
    ASSUME StrandInv, io # "posted" PROVE \A i \in DOMAIN strand : strand[i] # "start"
BY DEF StrandInv

\* What becomes of the state when a transaction begins.
LEMMA EnterFacts ==
    ASSUME CallerTypes, BufferTypes, GateInv, StrandInv, NEW o \in Owners, Enter(o)
    PROVE  /\ pc[o] = "gate" /\ active_owner = None /\ active_owner' = o /\ io = "none"
           /\ pc' \in [Owners -> Outside \cup Inside]
           /\ status' \in [Owners -> {"ok", "failed"}]
           /\ \A x \in Owners : x # o => pc'[x] = pc[x] /\ status'[x] = status[x]
           /\ io' \in {"none", "busy", "posted"} /\ (io' # "none" => pc'[o] \in Requests)
           /\ strand' \in Seq({"start", "cancel", "close"}) /\ StrandInv'
           /\ \/ pc'[o] = "leave" /\ status'[o] = "failed"
              \/ pc'[o] = "connect"
              \/ /\ initialized /\ UNCHANGED status
                 /\ pc'[o] = StepAfter(o, "ready", current_address, current_send_end)
           /\ \/ Invalidate /\ pc'[o] \in {"connect", "leave"}
              \/ UNCHANGED <<reconnect_required, initialized, current_address, current_send_end, stream, rx>>
           /\ pc'[o] = "connect" => ~initialized'
           /\ UNCHANGED <<connection, call, calls, op, response, filled, returned, gathered,
                          todo, adr, eoi, linked, conn>>
<1>0. /\ pc[o] = "gate" /\ active_owner = None /\ active_owner' = o
      /\ UNCHANGED <<connection, call, calls, op, response, filled, returned, gathered,
                     todo, adr, eoi, linked, conn>>
  BY DEF Enter, callVars, bufferVars, adapterVars
<1>1. io = "none" /\ call[o] \in Calls
  BY <1>0 DEF GateInv, CallerTypes
<1>2. CASE reconnect_required
  <2>1. Invalidate /\ Request(o, "connect", <<>>)
    BY <1>2 DEF Enter
  <2> DEFINE queue == <<>>
  <2>2. /\ queue \in Seq({"start", "cancel", "close"}) /\ \A i \in DOMAIN queue : queue[i] # "start"
        /\ "connect" \in Requests \cup {"leave"} /\ ~initialized'
    BY <2>1 DEF Requests, Invalidate
  <2>3. /\ pc' \in [Owners -> Outside \cup Inside]
        /\ status' \in [Owners -> {"ok", "failed"}]
        /\ \A x \in Owners : x # o => pc'[x] = pc[x] /\ status'[x] = status[x]
        /\ \/ pc'[o] = "connect" /\ status' = status /\ (io' # "none" => "connect" \in Requests)
           \/ pc'[o] = "leave" /\ status'[o] = "failed" /\ io' = "none"
        /\ io' \in {"none", "busy", "posted"}
        /\ strand' \in Seq({"start", "cancel", "close"})
        /\ StrandInv'
    <3>1. Request(o, "connect", queue)
      BY <2>1
    <3> HIDE DEF queue
    <3> QED
      BY <2>2, <3>1, RequestFacts
  <2> QED
    BY <1>0, <1>1, <2>1, <2>2, <2>3 DEF Requests
<1>3. CASE ~reconnect_required
  <2> DEFINE step == IF initialized THEN StepAfter(o, "ready", current_address, current_send_end)
                                    ELSE "connect"
  <2>1. /\ Request(o, step, strand)
        /\ UNCHANGED <<reconnect_required, initialized, current_address, current_send_end, stream, rx>>
    BY <1>3 DEF Enter
  <2>2. step \in Requests \cup {"leave"} /\ (step = "connect" => ~initialized)
    BY <1>1, StepFacts DEF Requests, Writes, Reads
  <2>3. strand \in Seq({"start", "cancel", "close"}) /\ \A i \in DOMAIN strand : strand[i] # "start"
    BY <1>1, NothingPosted DEF BufferTypes
  <2>4. /\ pc' \in [Owners -> Outside \cup Inside]
        /\ status' \in [Owners -> {"ok", "failed"}]
        /\ \A x \in Owners : x # o => pc'[x] = pc[x] /\ status'[x] = status[x]
        /\ \/ pc'[o] = step /\ status' = status /\ (io' # "none" => step \in Requests)
           \/ pc'[o] = "leave" /\ status'[o] = "failed" /\ io' = "none"
        /\ io' \in {"none", "busy", "posted"}
        /\ strand' \in Seq({"start", "cancel", "close"})
        /\ StrandInv'
    <3> HIDE DEF step
    <3> QED
      BY <2>1, <2>2, <2>3, RequestFacts
  <2> QED
    BY <1>0, <1>1, <2>1, <2>2, <2>4
<1> QED
  BY <1>2, <1>3

\* What an action does to the active owner, its request and the strand.
Moved(o) ==
    /\ pc' \in [Owners -> Outside \cup Inside]
    /\ status' \in [Owners -> {"ok", "failed"}]
    /\ \A x \in Owners : x # o => pc'[x] = pc[x] /\ status'[x] = status[x]
    /\ pc'[o] \in Inside
    /\ io' \in {"none", "busy", "posted"} /\ (io' # "none" => pc'[o] \in Requests)
    /\ strand' \in Seq({"start", "cancel", "close"}) /\ StrandInv'

\* A busy request goes on to the next step, or fails.
LEMMA GoesOn ==
    ASSUME CallerTypes, BufferTypes, StrandInv, NEW o \in Owners, io = "busy",
           NEW step \in Requests \cup {"leave"}, Request(o, step, strand)
    PROVE  /\ Moved(o)
           /\ \/ pc'[o] = step /\ status' = status
              \/ pc'[o] = "leave" /\ status'[o] = "failed"
<1>1. strand \in Seq({"start", "cancel", "close"}) /\ \A i \in DOMAIN strand : strand[i] # "start"
  BY NothingPosted DEF BufferTypes
<1>2. /\ pc' \in [Owners -> Outside \cup Inside]
      /\ status' \in [Owners -> {"ok", "failed"}]
      /\ \A x \in Owners : x # o => pc'[x] = pc[x] /\ status'[x] = status[x]
      /\ \/ pc'[o] = step /\ status' = status /\ (io' # "none" => step \in Requests)
         \/ pc'[o] = "leave" /\ status'[o] = "failed" /\ io' = "none"
      /\ io' \in {"none", "busy", "posted"}
      /\ strand' \in Seq({"start", "cancel", "close"})
      /\ StrandInv'
  BY <1>1, RequestFacts
<1> QED
  BY <1>2 DEF Moved, Inside

\* A request that fails ends its call and touches nobody else.
LEMMA GoesWrong ==
    ASSUME CallerTypes, BufferTypes, StrandInv, NEW o \in Owners, io = "busy", Fail(o),
           strand' = strand
    PROVE  Moved(o) /\ pc'[o] = "leave" /\ status'[o] = "failed"
<1>1. StrandInv'
  BY NothingPosted DEF StrandInv
<1> QED
  BY <1>1, FailFacts DEF Moved, BufferTypes, Inside

\* A connection is made.
LEMMA ConnectedFacts ==
    ASSUME CallerTypes, BufferTypes, StrandInv, NEW o \in Owners, Connected(o)
    PROVE  /\ Moved(o) /\ active_owner = o /\ io = "busy" /\ pc[o] = "connect"
           /\ \/ pc'[o] = "init" /\ status' = status
              \/ pc'[o] = "leave" /\ status'[o] = "failed"
           /\ stream' = TRUE /\ linked' = TRUE /\ rx' = <<>> /\ conn' = conn + 1
           /\ todo' \in {todo, <<>>}
           /\ UNCHANGED <<connection, active_owner, reconnect_required, initialized, current_address,
                          current_send_end, call, calls, op, response, filled, returned, gathered, adr, eoi>>
<1>1. io = "busy" /\ Request(o, "init", strand) /\ "init" \in Requests \cup {"leave"}
  BY DEF Connected, Busy, Requests, Writes
<1>2. /\ Moved(o)
      /\ \/ pc'[o] = "init" /\ status' = status
         \/ pc'[o] = "leave" /\ status'[o] = "failed"
  BY <1>1, GoesOn
<1> QED
  BY <1>1, <1>2 DEF Connected, Busy, controllerVars, callVars, bufferVars

\* A write is complete.
LEMMA WrittenFacts ==
    ASSUME CallerTypes, BufferTypes, StrandInv, NEW o \in Owners, Written(o),
           NEW a, a = (IF pc[o] = "addr" THEN Address[o] ELSE current_address),
           NEW e, e = (IF pc[o] = "eoi" THEN call[o].end ELSE current_send_end)
    PROVE  /\ Moved(o) /\ active_owner = o /\ io = "busy" /\ pc[o] \in Writes /\ stream
           /\ call[o] \in Calls /\ todo' = Received(o)
           /\ \/ pc'[o] = "leave" /\ status'[o] = "failed"
              \/ /\ pc'[o] = (IF pc[o] = "init" THEN "version" ELSE StepAfter(o, pc[o], a, e))
                 /\ status' = status
           /\ \/ current_address' = a /\ current_send_end' = e
              \/ UNCHANGED <<current_address, current_send_end>> /\ pc'[o] = "leave" /\ status'[o] = "failed"
           /\ UNCHANGED <<connection, active_owner, reconnect_required, initialized, call, calls, op,
                          response, filled, returned, stream, rx, gathered, adr, eoi, linked, conn>>
<1>0. /\ active_owner = o /\ io = "busy" /\ pc[o] \in Writes /\ stream /\ todo' = Received(o)
      /\ UNCHANGED <<connection, active_owner, reconnect_required, initialized, call, calls, op,
                     response, filled, returned, stream, rx, gathered, adr, eoi, linked, conn>>
  BY DEF Written, Busy, callVars, bufferVars
<1>1. call[o] \in Calls
  BY <1>0 DEF CallerTypes, Writes
<1> DEFINE step == IF pc[o] = "init" THEN "version" ELSE StepAfter(o, pc[o], a, e)
<1>2. step \in Requests \cup {"leave"}
  BY <1>1, StepFacts DEF Requests, Reads, Writes
<1>3. CASE op[o] = "completed"
  <2>1. Fail(o) /\ UNCHANGED <<strand, current_address, current_send_end>>
    BY <1>3 DEF Written
  <2>2. Moved(o) /\ pc'[o] = "leave" /\ status'[o] = "failed"
    BY <1>0, <2>1, GoesWrong
  <2> QED
    BY <1>0, <1>1, <2>1, <2>2
<1>4. CASE op[o] # "completed"
  <2>1. current_address' = a /\ current_send_end' = e /\ Request(o, step, strand)
    BY <1>4 DEF Written
  <2>2. /\ Moved(o)
        /\ \/ pc'[o] = step /\ status' = status
           \/ pc'[o] = "leave" /\ status'[o] = "failed"
    <3> HIDE DEF step
    <3> QED
      BY <1>0, <1>2, <2>1, GoesOn
  <2> QED
    BY <1>0, <1>1, <2>1, <2>2
<1> QED
  BY <1>3, <1>4

\* A request ends with an error.
LEMMA RequestFailsFacts ==
    ASSUME CallerTypes, BufferTypes, StrandInv, NEW o \in Owners, RequestFails(o)
    PROVE  /\ Moved(o) /\ pc'[o] = "leave" /\ status'[o] = "failed"
           /\ active_owner = o /\ io = "busy" /\ pc[o] \in Requests
           /\ todo' \in MayReach(o)
           /\ UNCHANGED <<connection, active_owner, reconnect_required, initialized, current_address,
                          current_send_end, call, calls, op, response, filled, returned, stream, rx,
                          gathered, adr, eoi, linked, conn>>
<1>1. active_owner = o /\ io = "busy" /\ Fail(o) /\ strand' = strand /\ pc[o] \in Requests
  BY DEF RequestFails, Busy, Requests
<1> QED
  BY <1>1, GoesWrong DEF RequestFails, controllerVars, callVars, bufferVars

\* Part of the input is read.
LEMMA ReadSomeFacts ==
    ASSUME CallerTypes, BufferTypes, StrandInv, NEW o \in Owners, NEW n \in 1 .. Len(rx), ReadSome(o, n)
    PROVE  /\ Moved(o) /\ active_owner = o /\ io = "busy" /\ pc[o] \in Reads /\ stream
           /\ call[o] \in Calls /\ rx' = SubSeq(rx, n + 1, Len(rx))
           /\ \/ /\ pc'[o] = "leave" /\ status'[o] = "failed"
                 /\ \/ UNCHANGED <<initialized, current_address, current_send_end>>
                    \/ current_address' = None /\ current_send_end' = None
              \/ /\ pc' = pc /\ status' = status
                 /\ UNCHANGED <<initialized, current_address, current_send_end>>
              \/ /\ pc[o] = "version" /\ pc'[o] = StepAfter(o, "ready", None, None) /\ status' = status
                 /\ initialized' = TRUE /\ current_address' = None /\ current_send_end' = None
              \/ /\ pc[o] = "reply" /\ pc'[o] = "leave" /\ status' = status
                 /\ UNCHANGED <<initialized, current_address, current_send_end>>
           /\ UNCHANGED <<connection, active_owner, call, calls, op, response, filled, returned, stream,
                          todo, adr, eoi, linked, conn>>
<1> DEFINE delimiter == IF pc[o] = "reply" /\ call[o].kind = "read" THEN "eot" ELSE "lf"
           limit     == IF delimiter = "eot" THEN MaxResponse ELSE MaxResponse + 1
           chunk     == SubSeq(rx, 1, n)
           ends      == {i \in 1 .. n : chunk[i].mark = delimiter}
           data      == gathered[o] \o (IF delimiter = "eot" /\ ends # {} THEN SubSeq(chunk, 1, n - 1) ELSE chunk)
           bad       == \/ Len(data) > limit \/ ends \notin {{}, {n}}
                        \/ ends # {} /\ ~Accepted(o, data)
           caches    == <<initialized, reconnect_required, current_address, current_send_end>>
<1>0. /\ active_owner = o /\ io = "busy" /\ pc[o] \in Reads /\ stream
      /\ rx' = SubSeq(rx, n + 1, Len(rx))
      /\ UNCHANGED <<connection, active_owner, call, calls, op, response, filled, returned, stream,
                     todo, adr, eoi, linked, conn>>
  BY DEF ReadSome, Busy, callVars, bufferVars, adapterVars
<1>1. call[o] \in Calls
  BY <1>0 DEF CallerTypes, Reads
<1>2. /\ bad => Fail(o) /\ UNCHANGED strand /\ UNCHANGED caches
      /\ ~bad /\ ends = {} =>
             /\ IF op[o] = "completed" THEN Fail(o) ELSE UNCHANGED <<pc, status, io>>
             /\ UNCHANGED strand /\ UNCHANGED caches
      /\ ~bad /\ ends # {} /\ pc[o] = "version" =>
             /\ initialized' = TRUE /\ current_address' = None /\ current_send_end' = None
             /\ Request(o, StepAfter(o, "ready", None, None), strand)
      /\ ~bad /\ ends # {} /\ pc[o] # "version" =>
             Request(o, "leave", strand) /\ UNCHANGED caches
  BY DEF ReadSome
<1> HIDE DEF bad, ends
<1>3. \/ Fail(o) /\ UNCHANGED strand /\ UNCHANGED caches
      \/ UNCHANGED <<pc, status, io>> /\ UNCHANGED strand /\ UNCHANGED caches
      \/ /\ pc[o] = "version"
         /\ initialized' = TRUE /\ current_address' = None /\ current_send_end' = None
         /\ Request(o, StepAfter(o, "ready", None, None), strand)
      \/ pc[o] = "reply" /\ Request(o, "leave", strand) /\ UNCHANGED caches
  BY <1>0, <1>2 DEF Reads
<1>4. CASE Fail(o) /\ UNCHANGED strand /\ UNCHANGED caches
  BY <1>0, <1>1, <1>4, GoesWrong
<1>5. CASE UNCHANGED <<pc, status, io>> /\ UNCHANGED strand /\ UNCHANGED caches
  <2>1. Moved(o)
    BY <1>0, <1>5 DEF Moved, CallerTypes, BufferTypes, StrandInv, Inside, Requests
  <2> QED
    BY <1>0, <1>1, <1>5, <2>1
<1>6. CASE /\ pc[o] = "version"
           /\ initialized' = TRUE /\ current_address' = None /\ current_send_end' = None
           /\ Request(o, StepAfter(o, "ready", None, None), strand)
  <2> DEFINE step == StepAfter(o, "ready", None, None)
  <2>1. step \in Requests \cup {"leave"} /\ Request(o, step, strand)
    BY <1>1, <1>6, StepFacts DEF Requests, Reads, Writes
  <2>2. /\ Moved(o)
        /\ \/ pc'[o] = step /\ status' = status
           \/ pc'[o] = "leave" /\ status'[o] = "failed"
    <3> HIDE DEF step
    <3> QED
      BY <1>0, <2>1, GoesOn
  <2> QED
    BY <1>0, <1>1, <1>6, <2>2
<1>7. CASE pc[o] = "reply" /\ Request(o, "leave", strand) /\ UNCHANGED caches
  <2>1. /\ Moved(o)
        /\ \/ pc'[o] = "leave" /\ status' = status
           \/ pc'[o] = "leave" /\ status'[o] = "failed"
    BY <1>0, <1>7, GoesOn DEF Requests
  <2> QED
    BY <1>0, <1>1, <1>7, <2>1
<1> QED
  BY <1>3, <1>4, <1>5, <1>6, <1>7

\* A posted cancel or close runs.
LEMMA InterruptFacts ==
    ASSUME CallerTypes, BufferTypes, GateInv, StrandInv, Interrupt
    PROVE  /\ \/ /\ active_owner \in Owners /\ io = "busy" /\ pc[active_owner] \in Requests
                 /\ Moved(active_owner)
                 /\ pc'[active_owner] = "leave" /\ status'[active_owner] = "failed"
                 /\ todo' \in MayReach(active_owner)
              \/ UNCHANGED <<pc, status, io, todo>>
           /\ strand' \in Seq({"start", "cancel", "close"}) /\ StrandInv'
           /\ \/ stream' = FALSE /\ rx' = <<>>
              \/ UNCHANGED <<stream, rx>>
           /\ UNCHANGED <<connection, active_owner, reconnect_required, initialized, current_address,
                          current_send_end, call, calls, op, response, filled, returned, gathered,
                          adr, eoi, linked, conn>>
<1>0. /\ \/ stream' = FALSE /\ rx' = <<>>
         \/ UNCHANGED <<stream, rx>>
      /\ UNCHANGED <<connection, active_owner, reconnect_required, initialized, current_address,
                     current_send_end, call, calls, op, response, filled, returned, gathered,
                     adr, eoi, linked, conn>>
  BY DEF Interrupt, controllerVars, callVars, bufferVars
<1>1. strand # <<>> /\ strand' = Tail(strand) /\ strand \in Seq({"start", "cancel", "close"})
  BY DEF Interrupt, BufferTypes
<1>2. /\ strand' \in Seq({"start", "cancel", "close"})
      /\ \A i \in DOMAIN strand' : i + 1 \in DOMAIN strand /\ strand'[i] = strand[i + 1]
      /\ DOMAIN strand' \subseteq Nat
  BY <1>1
<1>3. CASE io = "busy" /\ Fail(active_owner) /\ todo' \in MayReach(active_owner)
  <2>1. active_owner \in Owners /\ pc[active_owner] \in Requests
    BY <1>3 DEF GateInv, CallerTypes
  <2>2. StrandInv'
    <3>1. \A i \in DOMAIN strand' : strand'[i] # "start"
      BY <1>2, <1>3, NothingPosted
    <3> QED
      BY <3>1 DEF StrandInv
  <2>3. /\ pc' \in [Owners -> Outside \cup Inside]
        /\ status' \in [Owners -> {"ok", "failed"}]
        /\ \A x \in Owners : x # active_owner => pc'[x] = pc[x] /\ status'[x] = status[x]
        /\ pc'[active_owner] = "leave" /\ status'[active_owner] = "failed" /\ io' = "none"
    BY <1>3, <2>1, FailFacts
  <2> QED
    BY <1>0, <1>2, <1>3, <2>1, <2>2, <2>3 DEF Moved, Inside
<1>4. CASE UNCHANGED <<pc, status, io, todo>>
  <2>1. StrandInv'
    <3>1. \A i \in DOMAIN strand' : strand'[i] = "start" => io' = "posted"
      BY <1>2, <1>4 DEF StrandInv
    <3>2. \A i, j \in DOMAIN strand' : strand'[i] = "start" /\ strand'[j] = "start" => i = j
      BY <1>2 DEF StrandInv
    <3> QED
      BY <3>1, <3>2 DEF StrandInv
  <2> QED
    BY <1>0, <1>2, <1>4, <2>1
<1> QED
  BY <1>3, <1>4 DEF Interrupt

\* A posted request is started.
LEMMA StartFacts ==
    ASSUME CallerTypes, BufferTypes, GateInv, StrandInv, NEW o \in Owners, Start(o)
    PROVE  /\ Moved(o) /\ active_owner = o /\ pc[o] \in Requests
           /\ \/ pc'[o] = "leave" /\ status'[o] = "failed"
              \/ UNCHANGED <<pc, status>>
           /\ UNCHANGED <<connection, active_owner, reconnect_required, initialized, current_address,
                          current_send_end, call, calls, op, response, filled, returned, stream, rx,
                          gathered, todo, adr, eoi, linked, conn>>
<1>0. /\ active_owner = o
      /\ UNCHANGED <<connection, active_owner, reconnect_required, initialized, current_address,
                     current_send_end, call, calls, op, response, filled, returned, stream, rx,
                     gathered, todo, adr, eoi, linked, conn>>
  BY DEF Start, controllerVars, callVars, bufferVars, adapterVars
<1>1. strand # <<>> /\ strand' = Tail(strand) /\ strand \in Seq({"start", "cancel", "close"})
  BY DEF Start, BufferTypes
<1>2. /\ strand' \in Seq({"start", "cancel", "close"})
      /\ \A i \in DOMAIN strand' : i \in Nat \ {0} /\ i + 1 \in DOMAIN strand /\ strand'[i] = strand[i + 1]
      /\ 1 \in DOMAIN strand /\ strand[1] = "start"
  BY <1>1 DEF Start
<1>3. io = "posted" /\ \A i \in DOMAIN strand' : strand'[i] # "start"
  <2>1. ASSUME NEW i \in DOMAIN strand', strand'[i] = "start" PROVE FALSE
    <3>1. i + 1 = 1
      BY <1>2, <2>1 DEF StrandInv
    <3> QED
      BY <1>2, <2>1, <3>1
  <2> QED
    BY <1>2, <2>1 DEF StrandInv
<1>4. pc[o] \in Requests
  BY <1>0, <1>3 DEF GateInv
<1>5. StrandInv'
  BY <1>3 DEF StrandInv
<1>6. CASE Fail(o)
  BY <1>0, <1>2, <1>4, <1>5, <1>6, FailFacts DEF Moved, Inside
<1>7. CASE io' = "busy" /\ UNCHANGED <<pc, status>>
  BY <1>0, <1>2, <1>4, <1>5, <1>7 DEF Moved, Inside, CallerTypes
<1> QED
  BY <1>6, <1>7 DEF Start

\* A deadline passes.
LEMMA TimeoutFacts ==
    ASSUME CallerTypes, BufferTypes, StrandInv, NEW o \in Owners, Timeout(o)
    PROVE  /\ \/ pc[o] = "asleep" /\ pc' = [pc EXCEPT ![o] = "gate"] /\ UNCHANGED <<status, io>>
              \/ /\ active_owner = o /\ io = "busy" /\ pc[o] = "connect"
                 /\ Moved(o) /\ pc'[o] = "leave" /\ status'[o] = "failed"
              \/ UNCHANGED <<pc, status, io>>
           /\ op' = [op EXCEPT ![o] = "completed"]
           /\ strand' = strand
           /\ UNCHANGED <<connection, active_owner, reconnect_required, initialized, current_address,
                          current_send_end, call, calls, response, filled, returned, stream, rx,
                          gathered, todo, adr, eoi, linked, conn>>
<1>0. /\ op' = [op EXCEPT ![o] = "completed"] /\ strand' = strand
      /\ UNCHANGED <<connection, active_owner, reconnect_required, initialized, current_address,
                     current_send_end, call, calls, response, filled, returned, stream, rx,
                     gathered, todo, adr, eoi, linked, conn>>
  BY DEF Timeout, controllerVars, callVars, bufferVars, adapterVars
<1>1. \/ pc[o] = "asleep" /\ pc' = [pc EXCEPT ![o] = "gate"] /\ UNCHANGED <<status, io>>
      \/ active_owner = o /\ io = "busy" /\ pc[o] = "connect" /\ Fail(o)
      \/ UNCHANGED <<pc, status, io>>
  BY DEF Timeout, Busy
<1> QED
  BY <1>0, <1>1, GoesWrong

\* The calls of a plan are calls.
LEMMA PlannedCalls ==
    ASSUME NEW o \in Owners, calls[o] \in Nat, NEW c \in NextCalls(o)
    PROVE  c \in Calls
<1>1. calls[o] < Len(Plan[o]) /\ c \in Plan[o][calls[o] + 1]
  BY DEF NextCalls
<1>2. Plan[o] \in Seq(SUBSET Calls) /\ calls[o] + 1 \in 1 .. Len(Plan[o])
  BY <1>1, PlanAssumption
<1>3. Plan[o][calls[o] + 1] \in SUBSET Calls
  BY <1>2
<1> QED
  BY <1>1, <1>3

\* The gate stays with an active owner that moves.
LEMMA GateKept ==
    ASSUME GateInv, CallerTypes, NEW o \in Owners, active_owner' = o, active_owner \in {o, None}, Moved(o)
    PROVE  GateInv'
<1>1. pc'[o] \in Inside /\ (io' # "none" => pc'[o] \in Requests) /\ None \notin Owners
  BY NoneAssumption DEF Moved
<1>2. \A x \in Owners : x # o => pc'[x] \notin Inside /\ active_owner' # x
  BY <1>1 DEF Moved, GateInv
<1> QED
  BY <1>1, <1>2 DEF GateInv

-----------------------------------------------------------------------------

\* The callers' state keeps its types.
LEMMA CallerTypesStep ==
    ASSUME SettingInv, [Next]_vars
    PROVE  CallerTypes'
<1> USE NoneAssumption DEF controllerVars, callVars, bufferVars, ioVars, adapterVars
<1>0. CallerTypes /\ BufferTypes /\ GateInv /\ StrandInv
  BY DEF SettingInv
<1>1. ASSUME NEW o \in Owners, NEW c \in NextCalls(o), Call(o, c) PROVE CallerTypes'
  <2>1. c \in Calls
    BY <1>0, <1>1, PlannedCalls DEF CallerTypes
  <2>2. \/ UNCHANGED <<pc, call, op>>
        \/ /\ pc' = [pc EXCEPT ![o] = "gate"] /\ op' = [op EXCEPT ![o] = "pending"]
           /\ call' = [call EXCEPT ![o] = c]
    BY <1>1 DEF Call
  <2>3. calls' = [calls EXCEPT ![o] = @ + 1] /\ UNCHANGED <<active_owner, status>>
    BY <1>1 DEF Call
  <2>4. calls' \in [Owners -> Nat]
    BY <1>0, <2>3 DEF CallerTypes
  <2> QED
    BY <1>0, <2>1, <2>2, <2>3, <2>4 DEF CallerTypes, Inside, Outside
<1>2. ASSUME NEW o \in Owners, Refused(o) PROVE CallerTypes'
  BY <1>0, <1>2 DEF Refused, CallerTypes, Inside, Outside
<1>3. ASSUME NEW o \in Owners, Sleep(o) PROVE CallerTypes'
  BY <1>0, <1>3 DEF Sleep, CallerTypes, Inside, Outside
<1>4. ASSUME NEW o \in Owners, Enter(o) PROVE CallerTypes'
  BY <1>0, <1>4, EnterFacts DEF CallerTypes, Moved, Inside, Outside
<1>5. ASSUME NEW o \in Owners, Leave(o) PROVE CallerTypes'
  BY <1>0, <1>5 DEF Leave, Invalidate, CallerTypes, Inside, Outside
<1>6. ASSUME NEW o \in Owners, Release(o) PROVE CallerTypes'
  BY <1>0, <1>6 DEF Release, Return, Wake, CallerTypes, Inside, Outside
<1>7. ASSUME NEW o \in Owners, ReturnRefused(o) PROVE CallerTypes'
  BY <1>0, <1>7 DEF ReturnRefused, Return, CallerTypes, Inside, Outside
<1>8. ASSUME NEW o \in Owners, RunHandler(o) PROVE CallerTypes'
  BY <1>0, <1>8 DEF RunHandler, CallerTypes, Inside, Outside
<1>9. ASSUME NEW o \in Owners, Look(o) PROVE CallerTypes'
  BY <1>0, <1>9 DEF Look, Wake, CallerTypes, Inside, Outside
<1>10. ASSUME NEW o \in Owners, MarkReconnect(o) PROVE CallerTypes'
  BY <1>0, <1>10 DEF MarkReconnect, CallerTypes, Inside, Outside
<1>11. ASSUME NEW o \in Owners, CancelIo(o) PROVE CallerTypes'
  BY <1>0, <1>11 DEF CancelIo, CallerTypes, Inside, Outside
<1>12. ASSUME NEW o \in Owners, Start(o) PROVE CallerTypes'
  BY <1>0, <1>12, StartFacts DEF CallerTypes, Moved, Inside, Outside, Requests, Reads, Writes
<1>13. ASSUME NEW o \in Owners, Connected(o) PROVE CallerTypes'
  BY <1>0, <1>13, ConnectedFacts DEF CallerTypes, Moved, Inside, Outside
<1>14. ASSUME NEW o \in Owners, Written(o) PROVE CallerTypes'
  BY <1>0, <1>14, WrittenFacts DEF CallerTypes, Moved, Inside, Outside, Writes
<1>15. ASSUME NEW o \in Owners, RequestFails(o) PROVE CallerTypes'
  BY <1>0, <1>15, RequestFailsFacts DEF CallerTypes, Moved, Inside, Outside, Requests, Reads,
     Writes
<1>16. ASSUME NEW o \in Owners, NEW n \in 1 .. Len(rx), ReadSome(o, n) PROVE CallerTypes'
  BY <1>0, <1>16, ReadSomeFacts DEF CallerTypes, Moved, Inside, Outside, Reads
<1>17. ASSUME NEW o \in Owners, Timeout(o) PROVE CallerTypes'
  BY <1>0, <1>17, TimeoutFacts DEF CallerTypes, Moved, Inside, Outside
<1>18. ASSUME NEW o \in Owners, Terminate(o) PROVE CallerTypes'
  BY <1>0, <1>18 DEF Terminate, CallerTypes, Inside, Outside
<1>19. ASSUME NEW o \in Owners, Close(o) PROVE CallerTypes'
  BY <1>0, <1>19 DEF Close, CallerTypes, Inside, Outside
<1>20. CASE Interrupt
  BY <1>0, <1>20, InterruptFacts DEF CallerTypes, Moved, Inside, Outside, Requests, Reads,
     Writes
<1>21. CASE Execute
  BY <1>0, <1>21 DEF Execute, CallerTypes, Inside, Outside
<1>22. CASE Restart
  BY <1>0, <1>22 DEF Restart, CallerTypes, Inside, Outside
<1>23. CASE UNCHANGED vars
  BY <1>0, <1>23 DEF vars, CallerTypes, Inside, Outside
<1> QED
  BY <1>1, <1>2, <1>3, <1>4, <1>5, <1>6, <1>7, <1>8, <1>9, <1>10, <1>11, <1>12, <1>13, <1>14,
     <1>15, <1>16, <1>17, <1>18, <1>19, <1>20, <1>21, <1>22, <1>23 DEF Next, Thread, Cancel

\* The active owner is the one inside.
LEMMA GateStep ==
    ASSUME SettingInv, [Next]_vars
    PROVE  GateInv'
<1> USE NoneAssumption DEF controllerVars, callVars, bufferVars, ioVars, adapterVars
<1>0. CallerTypes /\ BufferTypes /\ GateInv /\ StrandInv
  BY DEF SettingInv
<1>1. ASSUME NEW o \in Owners, NEW c \in NextCalls(o), Call(o, c) PROVE GateInv'
  BY <1>0, <1>1 DEF Call, GateInv, CallerTypes, Inside, Outside, Requests, Writes, Reads
<1>2. ASSUME NEW o \in Owners, Refused(o) PROVE GateInv'
  BY <1>0, <1>2 DEF Refused, GateInv, CallerTypes, Inside, Outside, Requests, Writes, Reads
<1>3. ASSUME NEW o \in Owners, Sleep(o) PROVE GateInv'
  BY <1>0, <1>3 DEF Sleep, GateInv, CallerTypes, Inside, Outside, Requests, Writes, Reads
<1>4. ASSUME NEW o \in Owners, Enter(o) PROVE GateInv'
  <2>1. Moved(o) /\ active_owner' = o /\ active_owner = None
    BY <1>0, <1>4, EnterFacts, StepFacts DEF Moved, Inside, Requests, Writes, Reads, CallerTypes
  <2> QED
    BY <1>0, <2>1, GateKept
<1>5. ASSUME NEW o \in Owners, Leave(o) PROVE GateInv'
  BY <1>0, <1>5 DEF Leave, Invalidate, GateInv, CallerTypes, Inside, Outside, Requests,
     Writes, Reads
<1>6. ASSUME NEW o \in Owners, Release(o) PROVE GateInv'
  BY <1>0, <1>6 DEF Release, Return, Wake, GateInv, CallerTypes, Inside, Outside, Requests,
     Writes, Reads
<1>7. ASSUME NEW o \in Owners, ReturnRefused(o) PROVE GateInv'
  BY <1>0, <1>7 DEF ReturnRefused, Return, GateInv, CallerTypes, Inside, Outside, Requests,
     Writes, Reads
<1>8. ASSUME NEW o \in Owners, RunHandler(o) PROVE GateInv'
  BY <1>0, <1>8 DEF RunHandler, GateInv, CallerTypes, Inside, Outside, Requests, Writes, Reads
<1>9. ASSUME NEW o \in Owners, Look(o) PROVE GateInv'
  BY <1>0, <1>9 DEF Look, Wake, GateInv, CallerTypes, Inside, Outside, Requests, Writes, Reads
<1>10. ASSUME NEW o \in Owners, MarkReconnect(o) PROVE GateInv'
  BY <1>0, <1>10 DEF MarkReconnect, GateInv, CallerTypes, Inside, Outside, Requests, Writes,
     Reads
<1>11. ASSUME NEW o \in Owners, CancelIo(o) PROVE GateInv'
  BY <1>0, <1>11 DEF CancelIo, GateInv, CallerTypes, Inside, Outside, Requests, Writes, Reads
<1>12. ASSUME NEW o \in Owners, Start(o) PROVE GateInv'
  BY <1>0, <1>12, StartFacts, GateKept
<1>13. ASSUME NEW o \in Owners, Connected(o) PROVE GateInv'
  BY <1>0, <1>13, ConnectedFacts, GateKept
<1>14. ASSUME NEW o \in Owners, Written(o) PROVE GateInv'
  BY <1>0, <1>14, WrittenFacts, GateKept
<1>15. ASSUME NEW o \in Owners, RequestFails(o) PROVE GateInv'
  BY <1>0, <1>15, RequestFailsFacts, GateKept
<1>16. ASSUME NEW o \in Owners, NEW n \in 1 .. Len(rx), ReadSome(o, n) PROVE GateInv'
  BY <1>0, <1>16, ReadSomeFacts, GateKept
<1>17. ASSUME NEW o \in Owners, Timeout(o) PROVE GateInv'
  BY <1>0, <1>17, TimeoutFacts, GateKept DEF GateInv, CallerTypes, Inside, Outside, Requests,
     Writes, Reads
<1>18. ASSUME NEW o \in Owners, Terminate(o) PROVE GateInv'
  BY <1>0, <1>18 DEF Terminate, GateInv, CallerTypes, Inside, Outside, Requests, Writes, Reads
<1>19. ASSUME NEW o \in Owners, Close(o) PROVE GateInv'
  BY <1>0, <1>19 DEF Close, GateInv, CallerTypes, Inside, Outside, Requests, Writes, Reads
<1>20. CASE Interrupt
  BY <1>0, <1>20, InterruptFacts, GateKept DEF GateInv, CallerTypes, Inside, Outside,
     Requests, Writes, Reads
<1>21. CASE Execute
  BY <1>0, <1>21 DEF Execute, GateInv, CallerTypes, Inside, Outside, Requests, Writes, Reads
<1>22. CASE Restart
  BY <1>0, <1>22 DEF Restart, GateInv, CallerTypes, Inside, Outside, Requests, Writes, Reads
<1>23. CASE UNCHANGED vars
  BY <1>0, <1>23 DEF vars, GateInv, CallerTypes, Inside, Outside, Requests, Writes, Reads
<1> QED
  BY <1>1, <1>2, <1>3, <1>4, <1>5, <1>6, <1>7, <1>8, <1>9, <1>10, <1>11, <1>12, <1>13, <1>14,
     <1>15, <1>16, <1>17, <1>18, <1>19, <1>20, <1>21, <1>22, <1>23 DEF Next, Thread, Cancel

\* A request is posted to the strand at most once.
LEMMA StrandStep ==
    ASSUME SettingInv, [Next]_vars
    PROVE  StrandInv'
<1> USE NoneAssumption DEF controllerVars, callVars, bufferVars, ioVars, adapterVars
<1>0. CallerTypes /\ BufferTypes /\ GateInv /\ StrandInv
  BY DEF SettingInv
<1>1. ASSUME NEW o \in Owners, NEW c \in NextCalls(o), Call(o, c) PROVE StrandInv'
  BY <1>0, <1>1 DEF Call, StrandInv, BufferTypes
<1>2. ASSUME NEW o \in Owners, Refused(o) PROVE StrandInv'
  BY <1>0, <1>2 DEF Refused, StrandInv, BufferTypes
<1>3. ASSUME NEW o \in Owners, Sleep(o) PROVE StrandInv'
  BY <1>0, <1>3 DEF Sleep, StrandInv, BufferTypes
<1>4. ASSUME NEW o \in Owners, Enter(o) PROVE StrandInv'
  BY <1>0, <1>4, EnterFacts DEF Moved, StrandInv
<1>5. ASSUME NEW o \in Owners, Leave(o) PROVE StrandInv'
  BY <1>0, <1>5 DEF Leave, Invalidate, StrandInv, BufferTypes
<1>6. ASSUME NEW o \in Owners, Release(o) PROVE StrandInv'
  BY <1>0, <1>6 DEF Release, Return, Wake, StrandInv, BufferTypes
<1>7. ASSUME NEW o \in Owners, ReturnRefused(o) PROVE StrandInv'
  BY <1>0, <1>7 DEF ReturnRefused, Return, StrandInv, BufferTypes
<1>8. ASSUME NEW o \in Owners, RunHandler(o) PROVE StrandInv'
  <2>1. strand' = Append(strand, "close") /\ io' = io /\ strand \in Seq({"start", "cancel", "close"})
    BY <1>0, <1>8 DEF RunHandler, BufferTypes
  <2>2. \A i \in DOMAIN strand' : strand'[i] = "start" => i \in DOMAIN strand /\ strand'[i] = strand[i]
    BY <2>1
  <2> QED
    BY <1>0, <2>1, <2>2 DEF StrandInv
<1>9. ASSUME NEW o \in Owners, Look(o) PROVE StrandInv'
  BY <1>0, <1>9 DEF Look, Wake, StrandInv, BufferTypes
<1>10. ASSUME NEW o \in Owners, MarkReconnect(o) PROVE StrandInv'
  BY <1>0, <1>10 DEF MarkReconnect, StrandInv, BufferTypes
<1>11. ASSUME NEW o \in Owners, CancelIo(o) PROVE StrandInv'
  <2>1. strand' = Append(strand, "cancel") /\ io' = io /\ strand \in Seq({"start", "cancel", "close"})
    BY <1>0, <1>11 DEF CancelIo, BufferTypes
  <2>2. \A i \in DOMAIN strand' : strand'[i] = "start" => i \in DOMAIN strand /\ strand'[i] = strand[i]
    BY <2>1
  <2> QED
    BY <1>0, <2>1, <2>2 DEF StrandInv
<1>12. ASSUME NEW o \in Owners, Start(o) PROVE StrandInv'
  BY <1>0, <1>12, StartFacts DEF Moved, StrandInv
<1>13. ASSUME NEW o \in Owners, Connected(o) PROVE StrandInv'
  BY <1>0, <1>13, ConnectedFacts DEF Moved, StrandInv
<1>14. ASSUME NEW o \in Owners, Written(o) PROVE StrandInv'
  BY <1>0, <1>14, WrittenFacts DEF Moved, StrandInv
<1>15. ASSUME NEW o \in Owners, RequestFails(o) PROVE StrandInv'
  BY <1>0, <1>15, RequestFailsFacts DEF Moved, StrandInv
<1>16. ASSUME NEW o \in Owners, NEW n \in 1 .. Len(rx), ReadSome(o, n) PROVE StrandInv'
  BY <1>0, <1>16, ReadSomeFacts DEF Moved, StrandInv
<1>17. ASSUME NEW o \in Owners, Timeout(o) PROVE StrandInv'
  BY <1>0, <1>17, TimeoutFacts DEF Moved, StrandInv
<1>18. ASSUME NEW o \in Owners, Terminate(o) PROVE StrandInv'
  BY <1>0, <1>18 DEF Terminate, StrandInv, BufferTypes
<1>19. ASSUME NEW o \in Owners, Close(o) PROVE StrandInv'
  BY <1>0, <1>19 DEF Close, StrandInv, BufferTypes
<1>20. CASE Interrupt
  BY <1>0, <1>20, InterruptFacts DEF Moved, StrandInv
<1>21. CASE Execute
  BY <1>0, <1>21 DEF Execute, StrandInv, BufferTypes
<1>22. CASE Restart
  BY <1>0, <1>22 DEF Restart, StrandInv, BufferTypes
<1>23. CASE UNCHANGED vars
  BY <1>0, <1>23 DEF vars, StrandInv, BufferTypes
<1> QED
  BY <1>1, <1>2, <1>3, <1>4, <1>5, <1>6, <1>7, <1>8, <1>9, <1>10, <1>11, <1>12, <1>13, <1>14,
     <1>15, <1>16, <1>17, <1>18, <1>19, <1>20, <1>21, <1>22, <1>23 DEF Next, Thread, Cancel

\* The strand and the stream keep their types.
LEMMA StreamTypesStep ==
    ASSUME SettingInv, [Next]_vars
    PROVE  (connection \in {"tcp", "serial"} /\ strand \in Seq({"start", "cancel", "close"})
             /\ io \in {"none", "busy", "posted"} /\ stream \in BOOLEAN)'
<1> USE NoneAssumption DEF controllerVars, callVars, bufferVars, ioVars, adapterVars
<1>0. CallerTypes /\ BufferTypes /\ GateInv /\ StrandInv
  BY DEF SettingInv
<1>e. /\ <<>> \in Seq(Items) /\ <<>> \in Seq(Commands) /\ <<>> \in Seq(Nat \cup Items)
      /\ <<>> \in Seq({"start", "cancel", "close"})
  OBVIOUS
<1>1. ASSUME NEW o \in Owners, NEW c \in NextCalls(o), Call(o, c) PROVE (connection \in {"tcp", "serial"} /\ strand \in Seq({"start", "cancel", "close"})
             /\ io \in {"none", "busy", "posted"} /\ stream \in BOOLEAN)'
  BY <1>0, <1>1, <1>e DEF Call, BufferTypes
<1>2. ASSUME NEW o \in Owners, Refused(o) PROVE (connection \in {"tcp", "serial"} /\ strand \in Seq({"start", "cancel", "close"})
             /\ io \in {"none", "busy", "posted"} /\ stream \in BOOLEAN)'
  BY <1>0, <1>2, <1>e DEF Refused, BufferTypes
<1>3. ASSUME NEW o \in Owners, Sleep(o) PROVE (connection \in {"tcp", "serial"} /\ strand \in Seq({"start", "cancel", "close"})
             /\ io \in {"none", "busy", "posted"} /\ stream \in BOOLEAN)'
  BY <1>0, <1>3, <1>e DEF Sleep, BufferTypes
<1>4. ASSUME NEW o \in Owners, Enter(o) PROVE (connection \in {"tcp", "serial"} /\ strand \in Seq({"start", "cancel", "close"})
             /\ io \in {"none", "busy", "posted"} /\ stream \in BOOLEAN)'
  BY <1>0, <1>e, <1>4, EnterFacts DEF BufferTypes, Invalidate
<1>5. ASSUME NEW o \in Owners, Leave(o) PROVE (connection \in {"tcp", "serial"} /\ strand \in Seq({"start", "cancel", "close"})
             /\ io \in {"none", "busy", "posted"} /\ stream \in BOOLEAN)'
  BY <1>0, <1>5, <1>e DEF Leave, Invalidate, BufferTypes
<1>6. ASSUME NEW o \in Owners, Release(o) PROVE (connection \in {"tcp", "serial"} /\ strand \in Seq({"start", "cancel", "close"})
             /\ io \in {"none", "busy", "posted"} /\ stream \in BOOLEAN)'
  BY <1>0, <1>6, <1>e DEF Release, Return, Wake, BufferTypes
<1>7. ASSUME NEW o \in Owners, ReturnRefused(o) PROVE (connection \in {"tcp", "serial"} /\ strand \in Seq({"start", "cancel", "close"})
             /\ io \in {"none", "busy", "posted"} /\ stream \in BOOLEAN)'
  BY <1>0, <1>7, <1>e DEF ReturnRefused, Return, BufferTypes
<1>8. ASSUME NEW o \in Owners, RunHandler(o) PROVE (connection \in {"tcp", "serial"} /\ strand \in Seq({"start", "cancel", "close"})
             /\ io \in {"none", "busy", "posted"} /\ stream \in BOOLEAN)'
  BY <1>0, <1>8, <1>e DEF RunHandler, BufferTypes
<1>9. ASSUME NEW o \in Owners, Look(o) PROVE (connection \in {"tcp", "serial"} /\ strand \in Seq({"start", "cancel", "close"})
             /\ io \in {"none", "busy", "posted"} /\ stream \in BOOLEAN)'
  BY <1>0, <1>9, <1>e DEF Look, Wake, BufferTypes
<1>10. ASSUME NEW o \in Owners, MarkReconnect(o) PROVE (connection \in {"tcp", "serial"} /\ strand \in Seq({"start", "cancel", "close"})
             /\ io \in {"none", "busy", "posted"} /\ stream \in BOOLEAN)'
  BY <1>0, <1>10, <1>e DEF MarkReconnect, BufferTypes
<1>11. ASSUME NEW o \in Owners, CancelIo(o) PROVE (connection \in {"tcp", "serial"} /\ strand \in Seq({"start", "cancel", "close"})
             /\ io \in {"none", "busy", "posted"} /\ stream \in BOOLEAN)'
  BY <1>0, <1>11, <1>e DEF CancelIo, BufferTypes
<1>12. ASSUME NEW o \in Owners, Start(o) PROVE (connection \in {"tcp", "serial"} /\ strand \in Seq({"start", "cancel", "close"})
             /\ io \in {"none", "busy", "posted"} /\ stream \in BOOLEAN)'
  BY <1>0, <1>e, <1>12, StartFacts DEF Moved, BufferTypes
<1>13. ASSUME NEW o \in Owners, Connected(o) PROVE (connection \in {"tcp", "serial"} /\ strand \in Seq({"start", "cancel", "close"})
             /\ io \in {"none", "busy", "posted"} /\ stream \in BOOLEAN)'
  BY <1>0, <1>e, <1>13, ConnectedFacts DEF Moved, BufferTypes
<1>14. ASSUME NEW o \in Owners, Written(o) PROVE (connection \in {"tcp", "serial"} /\ strand \in Seq({"start", "cancel", "close"})
             /\ io \in {"none", "busy", "posted"} /\ stream \in BOOLEAN)'
  BY <1>0, <1>e, <1>14, WrittenFacts DEF Moved, BufferTypes
<1>15. ASSUME NEW o \in Owners, RequestFails(o) PROVE (connection \in {"tcp", "serial"} /\ strand \in Seq({"start", "cancel", "close"})
             /\ io \in {"none", "busy", "posted"} /\ stream \in BOOLEAN)'
  BY <1>0, <1>e, <1>15, RequestFailsFacts DEF Moved, BufferTypes
<1>16. ASSUME NEW o \in Owners, NEW n \in 1 .. Len(rx), ReadSome(o, n) PROVE (connection \in {"tcp", "serial"} /\ strand \in Seq({"start", "cancel", "close"})
             /\ io \in {"none", "busy", "posted"} /\ stream \in BOOLEAN)'
  BY <1>0, <1>e, <1>16, ReadSomeFacts DEF Moved, BufferTypes
<1>17. ASSUME NEW o \in Owners, Timeout(o) PROVE (connection \in {"tcp", "serial"} /\ strand \in Seq({"start", "cancel", "close"})
             /\ io \in {"none", "busy", "posted"} /\ stream \in BOOLEAN)'
  BY <1>0, <1>e, <1>17, TimeoutFacts DEF Moved, BufferTypes
<1>18. ASSUME NEW o \in Owners, Terminate(o) PROVE (connection \in {"tcp", "serial"} /\ strand \in Seq({"start", "cancel", "close"})
             /\ io \in {"none", "busy", "posted"} /\ stream \in BOOLEAN)'
  BY <1>0, <1>18, <1>e DEF Terminate, BufferTypes
<1>19. ASSUME NEW o \in Owners, Close(o) PROVE (connection \in {"tcp", "serial"} /\ strand \in Seq({"start", "cancel", "close"})
             /\ io \in {"none", "busy", "posted"} /\ stream \in BOOLEAN)'
  BY <1>0, <1>19, <1>e DEF Close, BufferTypes
<1>20. CASE Interrupt
  BY <1>0, <1>e, <1>20, InterruptFacts DEF Moved, BufferTypes
<1>21. CASE Execute
  BY <1>0, <1>21, <1>e DEF Execute, BufferTypes
<1>22. CASE Restart
  BY <1>0, <1>22, <1>e DEF Restart, BufferTypes
<1>23. CASE UNCHANGED vars
  BY <1>0, <1>23, <1>e DEF vars, BufferTypes
<1> QED
  BY <1>1, <1>2, <1>3, <1>4, <1>5, <1>6, <1>7, <1>8, <1>9, <1>10, <1>11, <1>12, <1>13, <1>14,
     <1>15, <1>16, <1>17, <1>18, <1>19, <1>20, <1>21, <1>22, <1>23 DEF Next, Thread, Cancel

\* What an adapter puts out.
LEMMA OutputTypes ==
    ASSUME NEW o \in Owners, NEW m \in Nat
    PROVE  /\ <<VersionLine>> \in Seq(Items) /\ <<Mark(o, m, "lf")>> \in Seq(Items)
           /\ \A n \in Nat : [k \in 1 .. n |-> Piece(o, m, k)] \o <<Mark(o, m, "eot")>> \in Seq(Items)
<1>1. /\ VersionLine \in Items /\ Mark(o, m, "lf") \in Items /\ Mark(o, m, "eot") \in Items
      /\ \A k \in Nat : Piece(o, m, k) \in Items
  BY DEF VersionLine, Mark, Piece, Items
<1>2. ASSUME NEW n \in Nat PROVE [k \in 1 .. n |-> Piece(o, m, k)] \in Seq(Items)
  BY <1>1
<1> QED
  BY <1>1, <1>2

\* What the strand reads is part of what has arrived.
LEMMA PartTypes ==
    ASSUME NEW q \in Seq(Items), NEW g \in Seq(Items), NEW n \in 1 .. Len(q)
    PROVE  /\ SubSeq(q, n + 1, Len(q)) \in Seq(Items) /\ SubSeq(q, 1, n) \in Seq(Items)
           /\ SubSeq(SubSeq(q, 1, n), 1, n - 1) \in Seq(Items)
           /\ g \o SubSeq(q, 1, n) \in Seq(Items)
           /\ g \o SubSeq(SubSeq(q, 1, n), 1, n - 1) \in Seq(Items)
<1>1. SubSeq(q, n + 1, Len(q)) \in Seq(Items) /\ SubSeq(q, 1, n) \in Seq(Items) /\ Len(SubSeq(q, 1, n)) = n
  OBVIOUS
<1> DEFINE c == SubSeq(q, 1, n)
<1>2. c \in Seq(Items) /\ Len(c) = n
  BY <1>1
<1>3. SubSeq(c, 1, n - 1) \in Seq(Items)
  <2> HIDE DEF c
  <2> QED
    BY <1>2
<1> QED
  BY <1>1, <1>3

\* The input and what is gathered of it keep their types.
LEMMA InputTypesStep ==
    ASSUME SettingInv, [Next]_vars
    PROVE  (rx \in Seq(Items) /\ gathered \in [Owners -> Seq(Items)])'
<1> USE NoneAssumption DEF controllerVars, callVars, bufferVars, ioVars, adapterVars
<1>0. CallerTypes /\ BufferTypes /\ GateInv /\ StrandInv /\ AdapterTypes
  BY DEF SettingInv
<1>e. /\ <<>> \in Seq(Items) /\ <<>> \in Seq(Commands) /\ <<>> \in Seq(Nat \cup Items)
      /\ <<>> \in Seq({"start", "cancel", "close"})
  OBVIOUS
<1>1. ASSUME NEW o \in Owners, NEW c \in NextCalls(o), Call(o, c) PROVE (rx \in Seq(Items) /\ gathered \in [Owners -> Seq(Items)])'
  BY <1>0, <1>1, <1>e DEF Call, BufferTypes
<1>2. ASSUME NEW o \in Owners, Refused(o) PROVE (rx \in Seq(Items) /\ gathered \in [Owners -> Seq(Items)])'
  BY <1>0, <1>2, <1>e DEF Refused, BufferTypes
<1>3. ASSUME NEW o \in Owners, Sleep(o) PROVE (rx \in Seq(Items) /\ gathered \in [Owners -> Seq(Items)])'
  BY <1>0, <1>3, <1>e DEF Sleep, BufferTypes
<1>4. ASSUME NEW o \in Owners, Enter(o) PROVE (rx \in Seq(Items) /\ gathered \in [Owners -> Seq(Items)])'
  BY <1>0, <1>e, <1>4, EnterFacts DEF BufferTypes, Invalidate
<1>5. ASSUME NEW o \in Owners, Leave(o) PROVE (rx \in Seq(Items) /\ gathered \in [Owners -> Seq(Items)])'
  BY <1>0, <1>5, <1>e DEF Leave, Invalidate, BufferTypes
<1>6. ASSUME NEW o \in Owners, Release(o) PROVE (rx \in Seq(Items) /\ gathered \in [Owners -> Seq(Items)])'
  BY <1>0, <1>6, <1>e DEF Release, Return, Wake, BufferTypes
<1>7. ASSUME NEW o \in Owners, ReturnRefused(o) PROVE (rx \in Seq(Items) /\ gathered \in [Owners -> Seq(Items)])'
  BY <1>0, <1>7, <1>e DEF ReturnRefused, Return, BufferTypes
<1>8. ASSUME NEW o \in Owners, RunHandler(o) PROVE (rx \in Seq(Items) /\ gathered \in [Owners -> Seq(Items)])'
  BY <1>0, <1>8, <1>e DEF RunHandler, BufferTypes
<1>9. ASSUME NEW o \in Owners, Look(o) PROVE (rx \in Seq(Items) /\ gathered \in [Owners -> Seq(Items)])'
  BY <1>0, <1>9, <1>e DEF Look, Wake, BufferTypes
<1>10. ASSUME NEW o \in Owners, MarkReconnect(o) PROVE (rx \in Seq(Items) /\ gathered \in [Owners -> Seq(Items)])'
  BY <1>0, <1>10, <1>e DEF MarkReconnect, BufferTypes
<1>11. ASSUME NEW o \in Owners, CancelIo(o) PROVE (rx \in Seq(Items) /\ gathered \in [Owners -> Seq(Items)])'
  BY <1>0, <1>11, <1>e DEF CancelIo, BufferTypes
<1>12. ASSUME NEW o \in Owners, Start(o) PROVE (rx \in Seq(Items) /\ gathered \in [Owners -> Seq(Items)])'
  BY <1>0, <1>e, <1>12, StartFacts DEF BufferTypes
<1>13. ASSUME NEW o \in Owners, Connected(o) PROVE (rx \in Seq(Items) /\ gathered \in [Owners -> Seq(Items)])'
  BY <1>0, <1>e, <1>13, ConnectedFacts DEF BufferTypes
<1>14. ASSUME NEW o \in Owners, Written(o) PROVE (rx \in Seq(Items) /\ gathered \in [Owners -> Seq(Items)])'
  BY <1>0, <1>e, <1>14, WrittenFacts DEF BufferTypes
<1>15. ASSUME NEW o \in Owners, RequestFails(o) PROVE (rx \in Seq(Items) /\ gathered \in [Owners -> Seq(Items)])'
  BY <1>0, <1>e, <1>15, RequestFailsFacts DEF BufferTypes
<1>16. ASSUME NEW o \in Owners, NEW n \in 1 .. Len(rx), ReadSome(o, n) PROVE (rx \in Seq(Items) /\ gathered \in [Owners -> Seq(Items)])'
  <2>1. rx \in Seq(Items) /\ gathered \in [Owners -> Seq(Items)]
    BY <1>0 DEF BufferTypes
  <2>2. rx' = SubSeq(rx, n + 1, Len(rx))
    BY <1>16 DEF ReadSome
  <2>3. \/ gathered' = gathered
        \/ gathered' = [gathered EXCEPT ![o] = gathered[o] \o SubSeq(rx, 1, n)]
        \/ gathered' = [gathered EXCEPT ![o] = gathered[o] \o SubSeq(SubSeq(rx, 1, n), 1, n - 1)]
        \/ gathered' = [gathered EXCEPT ![o] = <<>>]
    BY <1>16 DEF ReadSome
  <2>4. /\ SubSeq(rx, n + 1, Len(rx)) \in Seq(Items)
        /\ gathered[o] \o SubSeq(rx, 1, n) \in Seq(Items)
        /\ gathered[o] \o SubSeq(SubSeq(rx, 1, n), 1, n - 1) \in Seq(Items)
    BY <2>1, <1>16, PartTypes
  <2>5. gathered' \in [Owners -> Seq(Items)]
    BY <1>e, <2>1, <2>3, <2>4
  <2> QED
    BY <2>2, <2>4, <2>5
<1>17. ASSUME NEW o \in Owners, Timeout(o) PROVE (rx \in Seq(Items) /\ gathered \in [Owners -> Seq(Items)])'
  BY <1>0, <1>e, <1>17, TimeoutFacts DEF BufferTypes
<1>18. ASSUME NEW o \in Owners, Terminate(o) PROVE (rx \in Seq(Items) /\ gathered \in [Owners -> Seq(Items)])'
  BY <1>0, <1>18, <1>e DEF Terminate, BufferTypes
<1>19. ASSUME NEW o \in Owners, Close(o) PROVE (rx \in Seq(Items) /\ gathered \in [Owners -> Seq(Items)])'
  BY <1>0, <1>19, <1>e DEF Close, BufferTypes
<1>20. CASE Interrupt
  BY <1>0, <1>e, <1>20, InterruptFacts DEF BufferTypes
<1>21. CASE Execute
  <2> DEFINE c == Head(todo)
  <2>1. c.owner \in Owners /\ c.call \in Nat /\ gathered' = gathered
    <3>1. todo \in Seq(Commands) /\ todo # <<>> /\ gathered' = gathered
      BY <1>0, <1>21 DEF Execute, AdapterTypes
    <3>2. c \in Commands
      BY <3>1
    <3> QED
      BY <3>1, <3>2 DEF Commands
  <2>2. \/ rx' = rx
        \/ rx' = rx \o <<VersionLine>>
        \/ rx' = rx \o <<Mark(c.owner, c.call, "lf")>>
        \/ \E n \in Answers : rx' = rx \o ([k \in 1 .. n |-> Piece(c.owner, c.call, k)] \o <<Mark(c.owner, c.call, "eot")>>)
    BY <1>21 DEF Execute
  <2>3. Answers \subseteq Nat /\ rx \in Seq(Items)
    BY <1>0, BoundAssumption DEF BufferTypes
  <2>4. rx' \in Seq(Items)
    <3> HIDE DEF c
    <3>1. CASE rx' = rx
      BY <2>3, <3>1
    <3>2. CASE rx' = rx \o <<VersionLine>>
      BY <2>1, <2>3, <3>2, OutputTypes, ConcatProperties
    <3>3. CASE rx' = rx \o <<Mark(c.owner, c.call, "lf")>>
      BY <2>1, <2>3, <3>3, OutputTypes, ConcatProperties
    <3>4. ASSUME NEW n \in Answers,
                 rx' = rx \o ([k \in 1 .. n |-> Piece(c.owner, c.call, k)] \o <<Mark(c.owner, c.call, "eot")>>)
          PROVE  rx' \in Seq(Items)
      BY <2>1, <2>3, <3>4, OutputTypes, ConcatProperties
    <3> QED
      BY <2>2, <3>1, <3>2, <3>3, <3>4
  <2> QED
    BY <1>0, <2>1, <2>4 DEF BufferTypes
<1>22. CASE Restart
  BY <1>0, <1>22, <1>e DEF Restart, BufferTypes
<1>23. CASE UNCHANGED vars
  BY <1>0, <1>23, <1>e DEF vars, BufferTypes
<1> QED
  BY <1>1, <1>2, <1>3, <1>4, <1>5, <1>6, <1>7, <1>8, <1>9, <1>10, <1>11, <1>12, <1>13, <1>14,
     <1>15, <1>16, <1>17, <1>18, <1>19, <1>20, <1>21, <1>22, <1>23 DEF Next, Thread, Cancel

\* The buffers of the transports keep their types.
LEMMA ResponseTypesStep ==
    ASSUME SettingInv, [Next]_vars
    PROVE  (response \in [Owners -> Seq(Items)] /\ filled \in [Owners -> Nat]
             /\ returned \in [Owners -> Seq(Nat \cup Items)])'
<1> USE NoneAssumption DEF controllerVars, callVars, bufferVars, ioVars, adapterVars
<1>0. CallerTypes /\ BufferTypes /\ GateInv /\ StrandInv
  BY DEF SettingInv
<1>e. /\ <<>> \in Seq(Items) /\ <<>> \in Seq(Commands) /\ <<>> \in Seq(Nat \cup Items)
      /\ <<>> \in Seq({"start", "cancel", "close"})
  OBVIOUS
<1>1. ASSUME NEW o \in Owners, NEW c \in NextCalls(o), Call(o, c) PROVE (response \in [Owners -> Seq(Items)] /\ filled \in [Owners -> Nat]
             /\ returned \in [Owners -> Seq(Nat \cup Items)])'
  <2>1. /\ response[o] \in Seq(Items) /\ filled[o] \in Nat /\ response \in [Owners -> Seq(Items)]
        /\ filled \in [Owners -> Nat] /\ returned \in [Owners -> Seq(Nat \cup Items)]
    BY <1>0 DEF BufferTypes
  <2>2. /\ \/ response' = [response EXCEPT ![o] = Tail(@)] /\ response[o] # <<>>
           \/ response' = [response EXCEPT ![o] = <<>>]
           \/ response' = response
        /\ \/ returned' = [returned EXCEPT ![o] = <<filled[o], Head(response[o])>>] /\ response[o] # <<>>
           \/ returned' = [returned EXCEPT ![o] = <<>>]
           \/ returned' = returned
        /\ filled' = filled
    BY <1>1 DEF Call
  <2>3. response' \in [Owners -> Seq(Items)]
    <3>1. response[o] # <<>> => Tail(response[o]) \in Seq(Items)
      BY <2>1
    <3> QED
      BY <1>e, <2>1, <2>2, <3>1
  <2>4. response[o] # <<>> => <<filled[o], Head(response[o])>> \in Seq(Nat \cup Items)
    <3>1. response[o] # <<>> => Head(response[o]) \in Items
      BY <2>1
    <3> QED
      BY <2>1, <3>1
  <2>5. returned' \in [Owners -> Seq(Nat \cup Items)]
    BY <1>e, <2>1, <2>2, <2>4
  <2> QED
    BY <2>1, <2>2, <2>3, <2>5
<1>2. ASSUME NEW o \in Owners, Refused(o) PROVE (response \in [Owners -> Seq(Items)] /\ filled \in [Owners -> Nat]
             /\ returned \in [Owners -> Seq(Nat \cup Items)])'
  BY <1>0, <1>2, <1>e DEF Refused, BufferTypes
<1>3. ASSUME NEW o \in Owners, Sleep(o) PROVE (response \in [Owners -> Seq(Items)] /\ filled \in [Owners -> Nat]
             /\ returned \in [Owners -> Seq(Nat \cup Items)])'
  BY <1>0, <1>3, <1>e DEF Sleep, BufferTypes
<1>4. ASSUME NEW o \in Owners, Enter(o) PROVE (response \in [Owners -> Seq(Items)] /\ filled \in [Owners -> Nat]
             /\ returned \in [Owners -> Seq(Nat \cup Items)])'
  BY <1>0, <1>e, <1>4, EnterFacts DEF BufferTypes
<1>5. ASSUME NEW o \in Owners, Leave(o) PROVE (response \in [Owners -> Seq(Items)] /\ filled \in [Owners -> Nat]
             /\ returned \in [Owners -> Seq(Nat \cup Items)])'
  BY <1>0, <1>5, <1>e DEF Leave, Invalidate, BufferTypes
<1>6. ASSUME NEW o \in Owners, Release(o) PROVE (response \in [Owners -> Seq(Items)] /\ filled \in [Owners -> Nat]
             /\ returned \in [Owners -> Seq(Nat \cup Items)])'
  <2> DEFINE k == call[o].kind
             g == gathered[o]
  <2>1. /\ g \in Seq(Items) /\ calls[o] \in Nat /\ response \in [Owners -> Seq(Items)]
        /\ filled \in [Owners -> Nat] /\ returned \in [Owners -> Seq(Nat \cup Items)]
    BY <1>0 DEF BufferTypes, CallerTypes
  <2>2. /\ returned' = [returned EXCEPT ![o] = IF status[o] = "ok" /\ k \in {"read", "spoll"} /\ g # <<>>
                                               THEN <<calls[o], g[1]>> ELSE <<>>]
        /\ response' = [response EXCEPT ![o] =
                          CASE status[o] = "ok" /\ k = "read" -> SubSeq(g, 2, Len(g))
                            [] status[o] = "ok" /\ k = "clr" -> <<>>
                            [] OTHER -> @]
        /\ filled' = [filled EXCEPT ![o] = IF status[o] = "ok" /\ k = "read" THEN calls[o] ELSE @]
    BY <1>6 DEF Release, Return
  <2> HIDE DEF k, g
  <2>3. SubSeq(g, 2, Len(g)) \in Seq(Items)
    BY <2>1
  <2>4. g # <<>> => <<calls[o], g[1]>> \in Seq(Nat \cup Items)
    <3>1. g # <<>> => g[1] \in Items
      BY <2>1
    <3> QED
      BY <2>1, <3>1
  <2>5. returned' \in [Owners -> Seq(Nat \cup Items)]
    BY <1>e, <2>1, <2>2, <2>4
  <2>6. response' \in [Owners -> Seq(Items)]
    BY <1>e, <2>1, <2>2, <2>3
  <2>7. filled' \in [Owners -> Nat]
    BY <2>1, <2>2
  <2> QED
    BY <2>5, <2>6, <2>7
<1>7. ASSUME NEW o \in Owners, ReturnRefused(o) PROVE (response \in [Owners -> Seq(Items)] /\ filled \in [Owners -> Nat]
             /\ returned \in [Owners -> Seq(Nat \cup Items)])'
  <2> DEFINE k == call[o].kind
             g == gathered[o]
  <2>1. /\ g \in Seq(Items) /\ calls[o] \in Nat /\ response \in [Owners -> Seq(Items)]
        /\ filled \in [Owners -> Nat] /\ returned \in [Owners -> Seq(Nat \cup Items)]
    BY <1>0 DEF BufferTypes, CallerTypes
  <2>2. /\ returned' = [returned EXCEPT ![o] = IF status[o] = "ok" /\ k \in {"read", "spoll"} /\ g # <<>>
                                               THEN <<calls[o], g[1]>> ELSE <<>>]
        /\ response' = [response EXCEPT ![o] =
                          CASE status[o] = "ok" /\ k = "read" -> SubSeq(g, 2, Len(g))
                            [] status[o] = "ok" /\ k = "clr" -> <<>>
                            [] OTHER -> @]
        /\ filled' = [filled EXCEPT ![o] = IF status[o] = "ok" /\ k = "read" THEN calls[o] ELSE @]
    BY <1>7 DEF ReturnRefused, Return
  <2> HIDE DEF k, g
  <2>3. SubSeq(g, 2, Len(g)) \in Seq(Items)
    BY <2>1
  <2>4. g # <<>> => <<calls[o], g[1]>> \in Seq(Nat \cup Items)
    <3>1. g # <<>> => g[1] \in Items
      BY <2>1
    <3> QED
      BY <2>1, <3>1
  <2>5. returned' \in [Owners -> Seq(Nat \cup Items)]
    BY <1>e, <2>1, <2>2, <2>4
  <2>6. response' \in [Owners -> Seq(Items)]
    BY <1>e, <2>1, <2>2, <2>3
  <2>7. filled' \in [Owners -> Nat]
    BY <2>1, <2>2
  <2> QED
    BY <2>5, <2>6, <2>7
<1>8. ASSUME NEW o \in Owners, RunHandler(o) PROVE (response \in [Owners -> Seq(Items)] /\ filled \in [Owners -> Nat]
             /\ returned \in [Owners -> Seq(Nat \cup Items)])'
  BY <1>0, <1>8, <1>e DEF RunHandler, BufferTypes
<1>9. ASSUME NEW o \in Owners, Look(o) PROVE (response \in [Owners -> Seq(Items)] /\ filled \in [Owners -> Nat]
             /\ returned \in [Owners -> Seq(Nat \cup Items)])'
  BY <1>0, <1>9, <1>e DEF Look, Wake, BufferTypes
<1>10. ASSUME NEW o \in Owners, MarkReconnect(o) PROVE (response \in [Owners -> Seq(Items)] /\ filled \in [Owners -> Nat]
             /\ returned \in [Owners -> Seq(Nat \cup Items)])'
  BY <1>0, <1>10, <1>e DEF MarkReconnect, BufferTypes
<1>11. ASSUME NEW o \in Owners, CancelIo(o) PROVE (response \in [Owners -> Seq(Items)] /\ filled \in [Owners -> Nat]
             /\ returned \in [Owners -> Seq(Nat \cup Items)])'
  BY <1>0, <1>11, <1>e DEF CancelIo, BufferTypes
<1>12. ASSUME NEW o \in Owners, Start(o) PROVE (response \in [Owners -> Seq(Items)] /\ filled \in [Owners -> Nat]
             /\ returned \in [Owners -> Seq(Nat \cup Items)])'
  BY <1>0, <1>e, <1>12, StartFacts DEF BufferTypes
<1>13. ASSUME NEW o \in Owners, Connected(o) PROVE (response \in [Owners -> Seq(Items)] /\ filled \in [Owners -> Nat]
             /\ returned \in [Owners -> Seq(Nat \cup Items)])'
  BY <1>0, <1>e, <1>13, ConnectedFacts DEF BufferTypes
<1>14. ASSUME NEW o \in Owners, Written(o) PROVE (response \in [Owners -> Seq(Items)] /\ filled \in [Owners -> Nat]
             /\ returned \in [Owners -> Seq(Nat \cup Items)])'
  BY <1>0, <1>e, <1>14, WrittenFacts DEF BufferTypes
<1>15. ASSUME NEW o \in Owners, RequestFails(o) PROVE (response \in [Owners -> Seq(Items)] /\ filled \in [Owners -> Nat]
             /\ returned \in [Owners -> Seq(Nat \cup Items)])'
  BY <1>0, <1>e, <1>15, RequestFailsFacts DEF BufferTypes
<1>16. ASSUME NEW o \in Owners, NEW n \in 1 .. Len(rx), ReadSome(o, n) PROVE (response \in [Owners -> Seq(Items)] /\ filled \in [Owners -> Nat]
             /\ returned \in [Owners -> Seq(Nat \cup Items)])'
  BY <1>0, <1>e, <1>16, ReadSomeFacts DEF BufferTypes
<1>17. ASSUME NEW o \in Owners, Timeout(o) PROVE (response \in [Owners -> Seq(Items)] /\ filled \in [Owners -> Nat]
             /\ returned \in [Owners -> Seq(Nat \cup Items)])'
  BY <1>0, <1>e, <1>17, TimeoutFacts DEF BufferTypes
<1>18. ASSUME NEW o \in Owners, Terminate(o) PROVE (response \in [Owners -> Seq(Items)] /\ filled \in [Owners -> Nat]
             /\ returned \in [Owners -> Seq(Nat \cup Items)])'
  BY <1>0, <1>18, <1>e DEF Terminate, BufferTypes
<1>19. ASSUME NEW o \in Owners, Close(o) PROVE (response \in [Owners -> Seq(Items)] /\ filled \in [Owners -> Nat]
             /\ returned \in [Owners -> Seq(Nat \cup Items)])'
  BY <1>0, <1>19, <1>e DEF Close, BufferTypes
<1>20. CASE Interrupt
  BY <1>0, <1>e, <1>20, InterruptFacts DEF BufferTypes
<1>21. CASE Execute
  BY <1>0, <1>21, <1>e DEF Execute, BufferTypes
<1>22. CASE Restart
  BY <1>0, <1>22, <1>e DEF Restart, BufferTypes
<1>23. CASE UNCHANGED vars
  BY <1>0, <1>23, <1>e DEF vars, BufferTypes
<1> QED
  BY <1>1, <1>2, <1>3, <1>4, <1>5, <1>6, <1>7, <1>8, <1>9, <1>10, <1>11, <1>12, <1>13, <1>14,
     <1>15, <1>16, <1>17, <1>18, <1>19, <1>20, <1>21, <1>22, <1>23 DEF Next, Thread, Cancel

\* What is written is a command, and comes after what the adapter has received.
LEMMA CommandFacts ==
    ASSUME CallerTypes, AdapterTypes, NEW o \in Owners, pc[o] \in Writes
    PROVE  Command(o) \in Commands /\ Received(o) \in Seq(Commands)
<1>1. call[o] \in Calls
  BY DEF CallerTypes, Writes
<1>2. call[o].kind \in CallKinds /\ call[o].end \in BOOLEAN
  BY <1>1 DEF Calls
<1>3. (IF pc[o] = "command" THEN call[o].kind ELSE pc[o]) \in {"init", "addr", "eoi"} \cup CallKinds
  BY <1>2 DEF Writes
<1>4. Command(o) \in Commands
  BY <1>2, <1>3 DEF Command, Commands, CallerTypes, AdapterTypes
<1>5. Append(todo, Command(o)) \in Seq(Commands)
  BY <1>4 DEF AdapterTypes
<1> QED
  BY <1>4, <1>5 DEF Received, AdapterTypes

\* The adapter's state keeps its types.
LEMMA AdapterTypesStep ==
    ASSUME SettingInv, [Next]_vars
    PROVE  AdapterTypes'
<1> USE NoneAssumption DEF controllerVars, callVars, bufferVars, ioVars, adapterVars
<1>0. CallerTypes /\ BufferTypes /\ GateInv /\ StrandInv /\ AdapterTypes
  BY DEF SettingInv
<1>e. /\ <<>> \in Seq(Items) /\ <<>> \in Seq(Commands) /\ <<>> \in Seq(Nat \cup Items)
      /\ <<>> \in Seq({"start", "cancel", "close"})
  OBVIOUS
<1>1. ASSUME NEW o \in Owners, NEW c \in NextCalls(o), Call(o, c) PROVE AdapterTypes'
  BY <1>0, <1>1, <1>e DEF Call, AdapterTypes
<1>2. ASSUME NEW o \in Owners, Refused(o) PROVE AdapterTypes'
  BY <1>0, <1>2, <1>e DEF Refused, AdapterTypes
<1>3. ASSUME NEW o \in Owners, Sleep(o) PROVE AdapterTypes'
  BY <1>0, <1>3, <1>e DEF Sleep, AdapterTypes
<1>4. ASSUME NEW o \in Owners, Enter(o) PROVE AdapterTypes'
  BY <1>0, <1>e, <1>4, EnterFacts DEF AdapterTypes
<1>5. ASSUME NEW o \in Owners, Leave(o) PROVE AdapterTypes'
  BY <1>0, <1>5, <1>e DEF Leave, Invalidate, AdapterTypes
<1>6. ASSUME NEW o \in Owners, Release(o) PROVE AdapterTypes'
  BY <1>0, <1>6, <1>e DEF Release, Return, Wake, AdapterTypes
<1>7. ASSUME NEW o \in Owners, ReturnRefused(o) PROVE AdapterTypes'
  BY <1>0, <1>7, <1>e DEF ReturnRefused, Return, AdapterTypes
<1>8. ASSUME NEW o \in Owners, RunHandler(o) PROVE AdapterTypes'
  BY <1>0, <1>8, <1>e DEF RunHandler, AdapterTypes
<1>9. ASSUME NEW o \in Owners, Look(o) PROVE AdapterTypes'
  BY <1>0, <1>9, <1>e DEF Look, Wake, AdapterTypes
<1>10. ASSUME NEW o \in Owners, MarkReconnect(o) PROVE AdapterTypes'
  BY <1>0, <1>10, <1>e DEF MarkReconnect, AdapterTypes
<1>11. ASSUME NEW o \in Owners, CancelIo(o) PROVE AdapterTypes'
  BY <1>0, <1>11, <1>e DEF CancelIo, AdapterTypes
<1>12. ASSUME NEW o \in Owners, Start(o) PROVE AdapterTypes'
  BY <1>0, <1>e, <1>12, StartFacts DEF AdapterTypes
<1>13. ASSUME NEW o \in Owners, Connected(o) PROVE AdapterTypes'
  <2>1. conn' \in Nat
    <3>1. conn' = conn + 1 /\ conn \in Nat
      BY <1>0, <1>13 DEF Connected, AdapterTypes
    <3> QED
      BY <3>1
  <2> QED
    BY <1>0, <1>e, <1>13, <2>1, ConnectedFacts DEF AdapterTypes
<1>14. ASSUME NEW o \in Owners, Written(o) PROVE AdapterTypes'
  BY <1>0, <1>e, <1>14, WrittenFacts, CommandFacts DEF AdapterTypes
<1>15. ASSUME NEW o \in Owners, RequestFails(o) PROVE AdapterTypes'
  BY <1>0, <1>e, <1>15, RequestFailsFacts, CommandFacts DEF AdapterTypes, MayReach
<1>16. ASSUME NEW o \in Owners, NEW n \in 1 .. Len(rx), ReadSome(o, n) PROVE AdapterTypes'
  BY <1>0, <1>e, <1>16, ReadSomeFacts DEF AdapterTypes
<1>17. ASSUME NEW o \in Owners, Timeout(o) PROVE AdapterTypes'
  BY <1>0, <1>e, <1>17, TimeoutFacts DEF AdapterTypes
<1>18. ASSUME NEW o \in Owners, Terminate(o) PROVE AdapterTypes'
  BY <1>0, <1>18, <1>e DEF Terminate, AdapterTypes
<1>19. ASSUME NEW o \in Owners, Close(o) PROVE AdapterTypes'
  BY <1>0, <1>19, <1>e DEF Close, AdapterTypes
<1>20. CASE Interrupt
  BY <1>0, <1>e, <1>20, InterruptFacts, CommandFacts DEF AdapterTypes, MayReach
<1>21. CASE Execute
  BY <1>0, <1>21, <1>e DEF Execute, AdapterTypes
<1>22. CASE Restart
  BY <1>0, <1>22, <1>e DEF Restart, AdapterTypes
<1>23. CASE UNCHANGED vars
  BY <1>0, <1>23, <1>e DEF vars, AdapterTypes
<1> QED
  BY <1>1, <1>2, <1>3, <1>4, <1>5, <1>6, <1>7, <1>8, <1>9, <1>10, <1>11, <1>12, <1>13, <1>14,
     <1>15, <1>16, <1>17, <1>18, <1>19, <1>20, <1>21, <1>22, <1>23 DEF Next, Thread, Cancel

-----------------------------------------------------------------------------
\* Only the active owner is inside the gate.
LEMMA OthersOutside ==
    ASSUME CallerTypes, GateInv
    PROVE  \A x \in Owners : x # active_owner => pc[x] \in Outside /\ pc[x] \notin Inside
BY DEF CallerTypes, GateInv

\* The step the active owner takes is the one the caches allow.
LEMMA StepKept ==
    ASSUME CallerTypes, GateInv, NEW o \in Owners, active_owner \in {o, None}, Moved(o), call' = call,
           pc'[o] \in {"eoi", "command"} /\ call[o].kind \in {"read", "write", "clr"} =>
               current_address' = Address[o],
           pc'[o] = "command" /\ call[o].kind = "write" => current_send_end' = call[o].end,
           pc'[o] = "reply" => Answered(o)
    PROVE  StepInv'
<1>1. \A x \in Owners : x # o => pc'[x] \notin Inside
  BY OthersOutside, NoneAssumption DEF Moved
<1>2. \A x \in Owners : x # o => pc'[x] \notin {"eoi", "command", "reply"}
  BY <1>1 DEF Inside, Requests, Writes, Reads
<1> QED
  BY <1>2 DEF StepInv, Answered

\* A command is written when the adapter is set for it.
LEMMA StepStep ==
    ASSUME SettingInv, [Next]_vars
    PROVE  StepInv'
<1> USE NoneAssumption DEF controllerVars, callVars, bufferVars, ioVars, adapterVars
<1>0. CallerTypes /\ BufferTypes /\ GateInv /\ StrandInv /\ AdapterTypes /\ ReadyInv /\ Trusted /\ StepInv
  BY DEF SettingInv
<1>p. \A x \in Owners : x # active_owner => pc[x] \notin Inside
  BY <1>0, OthersOutside
<1>q. \A x \in Owners : (pc[x] # "idle" => call[x] \in Calls) /\ (None \notin Owners)
  BY <1>0, NoneAssumption DEF CallerTypes
<1>1. ASSUME NEW o \in Owners, NEW c \in NextCalls(o), Call(o, c) PROVE StepInv'
  BY <1>0, <1>1, <1>p, <1>q DEF Call, StepInv, Answered, CallerTypes, Inside, Requests,
     Writes, Reads
<1>2. ASSUME NEW o \in Owners, Refused(o) PROVE StepInv'
  BY <1>0, <1>2, <1>p, <1>q DEF Refused, StepInv, Answered, CallerTypes, Inside, Requests,
     Writes, Reads
<1>3. ASSUME NEW o \in Owners, Sleep(o) PROVE StepInv'
  BY <1>0, <1>3, <1>p, <1>q DEF Sleep, StepInv, Answered, CallerTypes, Inside, Requests,
     Writes, Reads
<1>4. ASSUME NEW o \in Owners, Enter(o) PROVE StepInv'
  <2>1. Moved(o) /\ active_owner = None /\ call' = call /\ call[o] \in Calls
    BY <1>0, <1>q, <1>4, EnterFacts, StepFacts DEF Moved, Inside, Requests, Writes, Reads
  <2>2. \/ pc'[o] \in {"leave", "connect"}
        \/ /\ pc'[o] = StepAfter(o, "ready", current_address, current_send_end)
           /\ current_address' = current_address /\ current_send_end' = current_send_end
    BY <1>0, <1>4, EnterFacts
  <2> QED
    BY <1>0, <2>1, <2>2, StepFacts, StepKept
<1>5. ASSUME NEW o \in Owners, Leave(o) PROVE StepInv'
  BY <1>0, <1>5, <1>p, <1>q DEF Leave, Invalidate, StepInv, Answered, CallerTypes, Inside,
     Requests, Writes, Reads
<1>6. ASSUME NEW o \in Owners, Release(o) PROVE StepInv'
  BY <1>0, <1>6, <1>p, <1>q DEF Release, Return, Wake, StepInv, Answered, CallerTypes, Inside,
     Requests, Writes, Reads
<1>7. ASSUME NEW o \in Owners, ReturnRefused(o) PROVE StepInv'
  BY <1>0, <1>7, <1>p, <1>q DEF ReturnRefused, Return, StepInv, Answered, CallerTypes, Inside,
     Requests, Writes, Reads
<1>8. ASSUME NEW o \in Owners, RunHandler(o) PROVE StepInv'
  BY <1>0, <1>8, <1>p, <1>q DEF RunHandler, StepInv, Answered, CallerTypes, Inside, Requests,
     Writes, Reads
<1>9. ASSUME NEW o \in Owners, Look(o) PROVE StepInv'
  BY <1>0, <1>9, <1>p, <1>q DEF Look, Wake, StepInv, Answered, CallerTypes, Inside, Requests,
     Writes, Reads
<1>10. ASSUME NEW o \in Owners, MarkReconnect(o) PROVE StepInv'
  BY <1>0, <1>10, <1>p, <1>q DEF MarkReconnect, StepInv, Answered, CallerTypes, Inside,
     Requests, Writes, Reads
<1>11. ASSUME NEW o \in Owners, CancelIo(o) PROVE StepInv'
  BY <1>0, <1>11, <1>p, <1>q DEF CancelIo, StepInv, Answered, CallerTypes, Inside, Requests,
     Writes, Reads
<1>12. ASSUME NEW o \in Owners, Start(o) PROVE StepInv'
  BY <1>0, <1>q, <1>12, StartFacts, StepFacts, StepKept DEF StepInv, Answered
<1>13. ASSUME NEW o \in Owners, Connected(o) PROVE StepInv'
  BY <1>0, <1>q, <1>13, ConnectedFacts, StepFacts, StepKept DEF StepInv, Answered
<1>14. ASSUME NEW o \in Owners, Written(o) PROVE StepInv'
  BY <1>0, <1>q, <1>14, WrittenFacts, StepFacts, StepKept DEF StepInv, Answered
<1>15. ASSUME NEW o \in Owners, RequestFails(o) PROVE StepInv'
  BY <1>0, <1>q, <1>15, RequestFailsFacts, StepFacts, StepKept DEF StepInv, Answered
<1>16. ASSUME NEW o \in Owners, NEW n \in 1 .. Len(rx), ReadSome(o, n) PROVE StepInv'
  <2>1. Moved(o) /\ active_owner = o /\ call' = call /\ call[o] \in Calls /\ pc[o] \in Reads
    BY <1>0, <1>16, ReadSomeFacts
  <2>2. \/ pc'[o] \in {"leave", "version"}
        \/ pc'[o] = pc[o] /\ pc[o] = "reply"
        \/ /\ pc'[o] = StepAfter(o, "ready", None, None)
           /\ current_address' = None /\ current_send_end' = None
    BY <1>0, <1>16, ReadSomeFacts DEF Reads
  <2>3. pc[o] = "reply" => Answered(o)
    BY <1>0 DEF StepInv
  <2> QED
    BY <1>0, <2>1, <2>2, <2>3, StepFacts, StepKept
<1>17. ASSUME NEW o \in Owners, Timeout(o) PROVE StepInv'
  <2>1. \/ /\ active_owner = o /\ Moved(o) /\ pc'[o] = "leave"
        \/ UNCHANGED pc
        \/ pc' = [pc EXCEPT ![o] = "gate"]
    BY <1>0, <1>17, TimeoutFacts
  <2>2. UNCHANGED <<call, current_address, current_send_end>>
    BY <1>0, <1>17, TimeoutFacts
  <2>3. CASE active_owner = o /\ Moved(o) /\ pc'[o] = "leave"
    BY <1>0, <2>2, <2>3, StepKept
  <2>4. CASE UNCHANGED pc \/ pc' = [pc EXCEPT ![o] = "gate"]
    BY <1>0, <2>2, <2>4 DEF StepInv, Answered, CallerTypes
  <2> QED
    BY <2>1, <2>3, <2>4
<1>18. ASSUME NEW o \in Owners, Terminate(o) PROVE StepInv'
  BY <1>0, <1>18, <1>p, <1>q DEF Terminate, StepInv, Answered, CallerTypes, Inside, Requests,
     Writes, Reads
<1>19. ASSUME NEW o \in Owners, Close(o) PROVE StepInv'
  BY <1>0, <1>19, <1>p, <1>q DEF Close, StepInv, Answered, CallerTypes, Inside, Requests,
     Writes, Reads
<1>20. CASE Interrupt
  BY <1>0, <1>q, <1>20, InterruptFacts, StepFacts, StepKept DEF StepInv, Answered
<1>21. CASE Execute
  BY <1>0, <1>21, <1>p, <1>q DEF Execute, StepInv, Answered, CallerTypes, Inside, Requests,
     Writes, Reads
<1>22. CASE Restart
  BY <1>0, <1>22, <1>p, <1>q DEF Restart, StepInv, Answered, CallerTypes, Inside, Requests,
     Writes, Reads
<1>23. CASE UNCHANGED vars
  BY <1>0, <1>23, <1>p, <1>q DEF vars, StepInv, Answered, CallerTypes, Inside, Requests,
     Writes, Reads
<1> QED
  BY <1>1, <1>2, <1>3, <1>4, <1>5, <1>6, <1>7, <1>8, <1>9, <1>10, <1>11, <1>12, <1>13, <1>14,
     <1>15, <1>16, <1>17, <1>18, <1>19, <1>20, <1>21, <1>22, <1>23 DEF Next, Thread, Cancel

\* Nothing is in doubt while the active owner has a request, or nobody is active.
LEMMA NoDoubt ==
    ASSUME active_owner = None \/ pc[active_owner] # "leave" \/ status[active_owner] = "ok"
    PROVE  ~Doubt
BY NoneAssumption DEF Doubt

\* A failed transaction is in doubt.
LEMMA FailedDoubt ==
    ASSUME NEW o \in Owners, active_owner' = o, pc'[o] = "leave", status'[o] = "failed"
    PROVE  Doubt'
BY DEF Doubt

\* What is cached is still true when nothing has changed but the callers.
LEMMA TrustKept ==
    ASSUME Trusted, ~Doubt \/ Doubt', UNCHANGED <<todo, adr, eoi>>, linked' = linked,
           current_address' \in {current_address, None}, current_send_end' \in {current_send_end, None}
    PROVE  Trusted'
BY DEF Trusted, Final

\* A command that is received is the last one.
LEMMA ReceivedFacts ==
    ASSUME CallerTypes, AdapterTypes, NEW o \in Owners, pc[o] \in Writes, linked, NEW r, r = Received(o)
    PROVE  /\ r \in Seq(Commands) /\ Len(r) = Len(todo) + 1 /\ Command(o) \in Commands
           /\ r[Len(todo) + 1] = Command(o) /\ \A j \in 1 .. Len(todo) : r[j] = todo[j]
           /\ Command(o).owner = o /\ Command(o).end = call[o].end /\ Command(o).call = calls[o]
           /\ Command(o).conn = conn
           /\ pc[o] = "command" => Command(o).kind = call[o].kind
           /\ pc[o] # "command" => Command(o).kind = pc[o]
           /\ Command(o).kind = "addr" <=> pc[o] = "addr"
           /\ Command(o).kind = "eoi" <=> pc[o] = "eoi"
<1>1. call[o] \in Calls
  BY DEF CallerTypes, Writes
<1>2. call[o].kind \in CallKinds
  BY <1>1 DEF Calls
<1>3. /\ Command(o).owner = o /\ Command(o).end = call[o].end /\ Command(o).call = calls[o]
      /\ Command(o).conn = conn
      /\ Command(o).kind = IF pc[o] = "command" THEN call[o].kind ELSE pc[o]
  BY DEF Command
<1>4. Command(o) \in Commands /\ todo \in Seq(Commands)
  BY CommandFacts DEF AdapterTypes
<1>5. r = Append(todo, Command(o))
  BY DEF Received
<1>6. /\ r \in Seq(Commands) /\ Len(r) = Len(todo) + 1
      /\ r[Len(todo) + 1] = Command(o) /\ \A j \in 1 .. Len(todo) : r[j] = todo[j]
  BY <1>4, <1>5
<1> QED
  BY <1>2, <1>3, <1>4, <1>6 DEF CallKinds

\* The settings of an adapter that has received one more command.
LEMMA ReceivedSettings ==
    ASSUME CallerTypes, AdapterTypes, NEW o \in Owners, pc[o] \in Writes, linked, todo' = Received(o)
    PROVE  /\ \A i \in 1 .. Len(todo) + 1 : SettingAt(todo', i, "addr", adr) = SettingAt(todo, i, "addr", adr)
           /\ \A i \in 1 .. Len(todo) + 1 : SettingAt(todo', i, "eoi", eoi) = SettingAt(todo, i, "eoi", eoi)
           /\ SettingAt(todo', Len(todo) + 2, "addr", adr) =
                  IF pc[o] = "addr" THEN Address[o] ELSE SettingAt(todo, Len(todo) + 1, "addr", adr)
           /\ SettingAt(todo', Len(todo) + 2, "eoi", eoi) =
                  IF pc[o] = "eoi" THEN call[o].end ELSE SettingAt(todo, Len(todo) + 1, "eoi", eoi)
           /\ Len(todo') = Len(todo) + 1
<1> DEFINE c == Command(o)
           r == todo'
<1>1. /\ r \in Seq(Commands) /\ Len(r) = Len(todo) + 1 /\ c \in Commands
      /\ r[Len(todo) + 1] = c /\ \A j \in 1 .. Len(todo) : r[j] = todo[j]
      /\ c.owner = o /\ c.end = call[o].end
      /\ c.kind = "addr" <=> pc[o] = "addr"
      /\ c.kind = "eoi" <=> pc[o] = "eoi"
  BY ReceivedFacts
<1>2. todo \in Seq(Commands)
  BY DEF AdapterTypes
<1> HIDE DEF c, r
<1>a. /\ r \in Seq(Commands) /\ c \in Commands
      /\ r[Len(todo) + 1] = c /\ \A j \in 1 .. Len(todo) : r[j] = todo[j]
  BY <1>1
<1>3. /\ \A i \in 1 .. Len(todo) + 1 : SettingAt(r, i, "addr", adr) = SettingAt(todo, i, "addr", adr)
      /\ SettingAt(r, Len(todo) + 2, "addr", adr) =
            IF c.kind # "addr" THEN SettingAt(todo, Len(todo) + 1, "addr", adr)
            ELSE IF "addr" = "addr" THEN Address[c.owner] ELSE c.end
  BY <1>a, <1>2, SettingAppend
<1>4. /\ \A i \in 1 .. Len(todo) + 1 : SettingAt(r, i, "eoi", eoi) = SettingAt(todo, i, "eoi", eoi)
      /\ SettingAt(r, Len(todo) + 2, "eoi", eoi) =
            IF c.kind # "eoi" THEN SettingAt(todo, Len(todo) + 1, "eoi", eoi)
            ELSE IF "eoi" = "addr" THEN Address[c.owner] ELSE c.end
  BY <1>a, <1>2, SettingAppend
<1>5. /\ SettingAt(r, Len(todo) + 2, "addr", adr) =
            IF pc[o] = "addr" THEN Address[o] ELSE SettingAt(todo, Len(todo) + 1, "addr", adr)
      /\ SettingAt(r, Len(todo) + 2, "eoi", eoi) =
            IF pc[o] = "eoi" THEN call[o].end ELSE SettingAt(todo, Len(todo) + 1, "eoi", eoi)
  BY <1>1, <1>3, <1>4
<1> QED
  BY <1>1, <1>3, <1>4, <1>5 DEF r

\* The settings of an adapter that has executed its first command.
LEMMA ExecutedSettings ==
    ASSUME AdapterTypes, Execute
    PROVE  /\ todo # <<>> /\ Len(todo') = Len(todo) - 1 /\ Len(todo) \in Nat \ {0}
           /\ \A i \in 1 .. Len(todo) - 1 : todo'[i] = todo[i + 1]
           /\ \A i \in 1 .. Len(todo) : SettingAt(todo', i, "addr", adr') = SettingAt(todo, i + 1, "addr", adr)
           /\ \A i \in 1 .. Len(todo) : SettingAt(todo', i, "eoi", eoi') = SettingAt(todo, i + 1, "eoi", eoi)
<1>1. /\ todo \in Seq(Commands) /\ todo # <<>> /\ todo' = Tail(todo)
      /\ adr' = IF todo[1].kind = "addr" THEN Address[todo[1].owner] ELSE adr
      /\ eoi' = IF todo[1].kind = "eoi" THEN todo[1].end ELSE eoi
  BY DEF AdapterTypes, Execute
<1> DEFINE r == todo'
<1>2. /\ r \in Seq(Commands) /\ Len(r) = Len(todo) - 1 /\ Len(todo) \in Nat \ {0}
      /\ \A i \in 1 .. Len(todo) - 1 : r[i] = todo[i + 1]
  BY <1>1
<1>3. adr' = IF todo[1].kind # "addr" THEN adr
             ELSE IF "addr" = "addr" THEN Address[todo[1].owner] ELSE todo[1].end
  BY <1>1
<1>4. eoi' = IF todo[1].kind # "eoi" THEN eoi
             ELSE IF "eoi" = "addr" THEN Address[todo[1].owner] ELSE todo[1].end
  BY <1>1
<1> HIDE DEF r
<1>5. \A i \in 1 .. Len(todo) : SettingAt(r, i, "addr", adr') = SettingAt(todo, i + 1, "addr", adr)
  <2> DEFINE then == adr'
  <2>1. then = IF todo[1].kind # "addr" THEN adr
               ELSE IF "addr" = "addr" THEN Address[todo[1].owner] ELSE todo[1].end
    BY <1>3
  <2>2. \A i \in 1 .. Len(todo) : SettingAt(r, i, "addr", then) = SettingAt(todo, i + 1, "addr", adr)
    <3> HIDE DEF then
    <3> QED
      BY <1>1, <1>2, <2>1, SettingTail
  <2> QED
    BY <2>2
<1>6. \A i \in 1 .. Len(todo) : SettingAt(r, i, "eoi", eoi') = SettingAt(todo, i + 1, "eoi", eoi)
  <2> DEFINE then == eoi'
  <2>1. then = IF todo[1].kind # "eoi" THEN eoi
               ELSE IF "eoi" = "addr" THEN Address[todo[1].owner] ELSE todo[1].end
    BY <1>4
  <2>2. \A i \in 1 .. Len(todo) : SettingAt(r, i, "eoi", then) = SettingAt(todo, i + 1, "eoi", eoi)
    <3> HIDE DEF then
    <3> QED
      BY <1>1, <1>2, <2>1, SettingTail
  <2> QED
    BY <2>2
<1> QED
  BY <1>1, <1>2, <1>5, <1>6 DEF r

\* Outside the gate nothing depends on the connection.
LEMMA ReadyKept ==
    ASSUME CallerTypes, GateInv, NEW o \in Owners, active_owner \in {o, None}, Moved(o),
           ~initialized' => current_address' = None /\ current_send_end' = None,
           pc'[o] \in {"connect", "init", "version"} => ~initialized',
           pc'[o] \in {"addr", "eoi", "command", "reply"} => initialized'
    PROVE  ReadyInv'
<1>1. \A x \in Owners : x # o => pc'[x] \notin Inside
  BY OthersOutside, NoneAssumption DEF Moved
<1>2. \A x \in Owners : x # o => pc'[x] \notin {"connect", "init", "version", "addr", "eoi", "command", "reply"}
  BY <1>1 DEF Inside, Requests, Writes, Reads
<1> QED
  BY <1>2 DEF ReadyInv

\* Commands are written on a connection that was found to work.
LEMMA ReadyStep ==
    ASSUME SettingInv, [Next]_vars
    PROVE  ReadyInv'
<1> USE NoneAssumption DEF controllerVars, callVars, bufferVars, ioVars, adapterVars
<1>0. CallerTypes /\ BufferTypes /\ GateInv /\ StrandInv /\ AdapterTypes /\ ReadyInv /\ Trusted /\ StepInv
  BY DEF SettingInv
<1>p. \A x \in Owners : x # active_owner => pc[x] \notin Inside
  BY <1>0, OthersOutside
<1>q. \A x \in Owners : (pc[x] # "idle" => call[x] \in Calls) /\ (None \notin Owners)
  BY <1>0, NoneAssumption DEF CallerTypes
<1>1. ASSUME NEW o \in Owners, NEW c \in NextCalls(o), Call(o, c) PROVE ReadyInv'
  BY <1>0, <1>1, <1>p, <1>q DEF Call, ReadyInv, CallerTypes, Inside, Requests, Writes, Reads
<1>2. ASSUME NEW o \in Owners, Refused(o) PROVE ReadyInv'
  BY <1>0, <1>2, <1>p, <1>q DEF Refused, ReadyInv, CallerTypes, Inside, Requests, Writes, Reads
<1>3. ASSUME NEW o \in Owners, Sleep(o) PROVE ReadyInv'
  BY <1>0, <1>3, <1>p, <1>q DEF Sleep, ReadyInv, CallerTypes, Inside, Requests, Writes, Reads
<1>4. ASSUME NEW o \in Owners, Enter(o) PROVE ReadyInv'
  <2>1. Moved(o) /\ active_owner = None
    BY <1>0, <1>q, <1>4, EnterFacts, StepFacts DEF Moved, Inside, Requests, Writes, Reads
  <2>2. call[o] \in Calls
    BY <1>0, <1>q, <1>4, EnterFacts
  <2>3. ~initialized' => current_address' = None /\ current_send_end' = None
    BY <1>0, <1>4, EnterFacts DEF ReadyInv, Invalidate
  <2>4. \/ pc'[o] = "leave"
        \/ pc'[o] = "connect" /\ ~initialized'
        \/ pc'[o] = StepAfter(o, "ready", current_address, current_send_end) /\ initialized'
    <3>1. CASE pc'[o] \in {"leave", "connect"}
      BY <1>0, <1>4, <3>1, EnterFacts
    <3>2. CASE pc'[o] \notin {"leave", "connect"}
      BY <1>0, <1>4, <3>2, EnterFacts
    <3> QED
      BY <3>1, <3>2
  <2> QED
    BY <1>0, <2>1, <2>2, <2>3, <2>4, StepFacts, ReadyKept
<1>5. ASSUME NEW o \in Owners, Leave(o) PROVE ReadyInv'
  <2>1. active_owner = o
    BY <1>0, <1>5 DEF Leave, GateInv, Inside
  <2>2. /\ pc' = [pc EXCEPT ![o] = "release"]
        /\ \/ initialized' = FALSE /\ current_address' = None /\ current_send_end' = None
           \/ UNCHANGED <<initialized, current_address, current_send_end>>
    BY <1>5 DEF Leave, Invalidate
  <2>3. \A x \in Owners : pc'[x] \notin {"connect", "init", "version", "addr", "eoi", "command", "reply"}
    BY <1>0, <1>p, <2>1, <2>2 DEF CallerTypes, Inside, Requests, Writes, Reads
  <2> QED
    BY <1>0, <2>2, <2>3 DEF ReadyInv
<1>6. ASSUME NEW o \in Owners, Release(o) PROVE ReadyInv'
  BY <1>0, <1>6, <1>p, <1>q DEF Release, Return, Wake, ReadyInv, CallerTypes, Inside,
     Requests, Writes, Reads
<1>7. ASSUME NEW o \in Owners, ReturnRefused(o) PROVE ReadyInv'
  BY <1>0, <1>7, <1>p, <1>q DEF ReturnRefused, Return, ReadyInv, CallerTypes, Inside,
     Requests, Writes, Reads
<1>8. ASSUME NEW o \in Owners, RunHandler(o) PROVE ReadyInv'
  BY <1>0, <1>8, <1>p, <1>q DEF RunHandler, ReadyInv, CallerTypes, Inside, Requests, Writes,
     Reads
<1>9. ASSUME NEW o \in Owners, Look(o) PROVE ReadyInv'
  BY <1>0, <1>9, <1>p, <1>q DEF Look, Wake, ReadyInv, CallerTypes, Inside, Requests, Writes,
     Reads
<1>10. ASSUME NEW o \in Owners, MarkReconnect(o) PROVE ReadyInv'
  BY <1>0, <1>10, <1>p, <1>q DEF MarkReconnect, ReadyInv, CallerTypes, Inside, Requests,
     Writes, Reads
<1>11. ASSUME NEW o \in Owners, CancelIo(o) PROVE ReadyInv'
  BY <1>0, <1>11, <1>p, <1>q DEF CancelIo, ReadyInv, CallerTypes, Inside, Requests, Writes,
     Reads
<1>12. ASSUME NEW o \in Owners, Start(o) PROVE ReadyInv'
  BY <1>0, <1>q, <1>12, StartFacts, StepFacts, ReadyKept DEF ReadyInv
<1>13. ASSUME NEW o \in Owners, Connected(o) PROVE ReadyInv'
  BY <1>0, <1>q, <1>13, ConnectedFacts, StepFacts, ReadyKept DEF ReadyInv
<1>14. ASSUME NEW o \in Owners, Written(o) PROVE ReadyInv'
  <2> DEFINE a == IF pc[o] = "addr" THEN Address[o] ELSE current_address
             e == IF pc[o] = "eoi" THEN call[o].end ELSE current_send_end
  <2>1. Moved(o) /\ active_owner = o /\ pc[o] \in Writes /\ call[o] \in Calls /\ initialized' = initialized
    BY <1>0, <1>14, WrittenFacts
  <2>2. \/ pc'[o] = "leave"
        \/ pc[o] = "init" /\ pc'[o] = "version"
        \/ pc[o] # "init" /\ pc'[o] = StepAfter(o, pc[o], a, e)
    BY <1>0, <1>14, WrittenFacts
  <2>3. \/ current_address' = a /\ current_send_end' = e
        \/ UNCHANGED <<current_address, current_send_end>>
    BY <1>0, <1>14, WrittenFacts
  <2>4. /\ pc[o] = "init" => ~initialized /\ a = current_address /\ e = current_send_end
        /\ pc[o] # "init" => initialized
    BY <1>0, <2>1 DEF ReadyInv, Writes
  <2> HIDE DEF a, e
  <2> QED
    BY <1>0, <2>1, <2>2, <2>3, <2>4, StepFacts, ReadyKept DEF ReadyInv
<1>15. ASSUME NEW o \in Owners, RequestFails(o) PROVE ReadyInv'
  BY <1>0, <1>q, <1>15, RequestFailsFacts, StepFacts, ReadyKept DEF ReadyInv
<1>16. ASSUME NEW o \in Owners, NEW n \in 1 .. Len(rx), ReadSome(o, n) PROVE ReadyInv'
  <2>1. Moved(o) /\ active_owner = o /\ pc[o] \in Reads /\ call[o] \in Calls
    BY <1>0, <1>16, ReadSomeFacts
  <2>2. \/ /\ pc'[o] = "leave"
           /\ (current_address' = None /\ current_send_end' = None) \/ UNCHANGED <<initialized, current_address, current_send_end>>
        \/ pc'[o] = pc[o] /\ UNCHANGED <<initialized, current_address, current_send_end>>
        \/ pc'[o] = StepAfter(o, "ready", None, None) /\ initialized' = TRUE
    BY <1>0, <1>16, ReadSomeFacts
  <2> QED
    BY <1>0, <2>1, <2>2, StepFacts, ReadyKept DEF ReadyInv, Reads
<1>17. ASSUME NEW o \in Owners, Timeout(o) PROVE ReadyInv'
  <2>1. CASE active_owner = o /\ Moved(o) /\ pc'[o] = "leave"
    BY <1>0, <1>17, <2>1, TimeoutFacts, ReadyKept DEF ReadyInv
  <2>2. CASE UNCHANGED pc \/ pc' = [pc EXCEPT ![o] = "gate"]
    BY <1>0, <1>17, <2>2, TimeoutFacts DEF ReadyInv, CallerTypes
  <2> QED
    BY <1>0, <1>17, <2>1, <2>2, TimeoutFacts
<1>18. ASSUME NEW o \in Owners, Terminate(o) PROVE ReadyInv'
  BY <1>0, <1>18, <1>p, <1>q DEF Terminate, ReadyInv, CallerTypes, Inside, Requests, Writes,
     Reads
<1>19. ASSUME NEW o \in Owners, Close(o) PROVE ReadyInv'
  BY <1>0, <1>19, <1>p, <1>q DEF Close, ReadyInv, CallerTypes, Inside, Requests, Writes, Reads
<1>20. CASE Interrupt
  <2>1. CASE /\ active_owner \in Owners /\ Moved(active_owner) /\ pc'[active_owner] = "leave"
    BY <1>0, <1>20, <2>1, InterruptFacts, ReadyKept DEF ReadyInv
  <2>2. CASE UNCHANGED pc
    BY <1>0, <1>20, <2>2, InterruptFacts DEF ReadyInv
  <2> QED
    BY <1>0, <1>20, <2>1, <2>2, InterruptFacts
<1>21. CASE Execute
  BY <1>0, <1>21, <1>p, <1>q DEF Execute, ReadyInv, CallerTypes, Inside, Requests, Writes, Reads
<1>22. CASE Restart
  BY <1>0, <1>22, <1>p, <1>q DEF Restart, ReadyInv, CallerTypes, Inside, Requests, Writes, Reads
<1>23. CASE UNCHANGED vars
  BY <1>0, <1>23, <1>p, <1>q DEF vars, ReadyInv, CallerTypes, Inside, Requests, Writes, Reads
<1> QED
  BY <1>1, <1>2, <1>3, <1>4, <1>5, <1>6, <1>7, <1>8, <1>9, <1>10, <1>11, <1>12, <1>13, <1>14,
     <1>15, <1>16, <1>17, <1>18, <1>19, <1>20, <1>21, <1>22, <1>23 DEF Next, Thread, Cancel

\* What is cached is what the adapter will have.
LEMMA TrustStep ==
    ASSUME SettingInv, [Next]_vars
    PROVE  Trusted'
<1> USE NoneAssumption DEF controllerVars, callVars, bufferVars, ioVars, adapterVars
<1>0. CallerTypes /\ BufferTypes /\ GateInv /\ StrandInv /\ AdapterTypes /\ ReadyInv /\ Trusted /\ StepInv
  BY DEF SettingInv
<1>p. \A x \in Owners : x # active_owner => pc[x] \notin Inside
  BY <1>0, OthersOutside
<1>q. \A x \in Owners : (pc[x] # "idle" => call[x] \in Calls) /\ (None \notin Owners)
  BY <1>0, NoneAssumption DEF CallerTypes
<1>1. ASSUME NEW o \in Owners, NEW c \in NextCalls(o), Call(o, c) PROVE Trusted'
  <2>1. /\ UNCHANGED <<todo, adr, eoi, linked, current_address, current_send_end>>
    BY <1>1 DEF Call
  <2>2. Doubt => Doubt'
    BY <1>0, <1>1 DEF Call, Doubt, CallerTypes, GateInv, Inside
  <2> QED
    BY <1>0, <2>1, <2>2, TrustKept
<1>2. ASSUME NEW o \in Owners, Refused(o) PROVE Trusted'
  <2>1. /\ UNCHANGED <<todo, adr, eoi, linked, current_address, current_send_end>>
    BY <1>2 DEF Refused
  <2>2. Doubt => Doubt'
    BY <1>0, <1>2 DEF Refused, Doubt, CallerTypes, GateInv, Inside
  <2> QED
    BY <1>0, <2>1, <2>2, TrustKept
<1>3. ASSUME NEW o \in Owners, Sleep(o) PROVE Trusted'
  <2>1. /\ UNCHANGED <<todo, adr, eoi, linked, current_address, current_send_end>>
    BY <1>3 DEF Sleep
  <2>2. Doubt => Doubt'
    BY <1>0, <1>3 DEF Sleep, Doubt, CallerTypes, GateInv, Inside
  <2> QED
    BY <1>0, <2>1, <2>2, TrustKept
<1>4. ASSUME NEW o \in Owners, Enter(o) PROVE Trusted'
  <2>1. ~Doubt
    BY <1>0, <1>4, EnterFacts, NoDoubt
  <2>2. /\ UNCHANGED <<todo, adr, eoi, linked>>
        /\ current_address' \in {current_address, None} /\ current_send_end' \in {current_send_end, None}
    BY <1>0, <1>4, EnterFacts DEF Invalidate
  <2> QED
    BY <1>0, <2>1, <2>2, TrustKept
<1>5. ASSUME NEW o \in Owners, Leave(o) PROVE Trusted'
  <2>1. /\ UNCHANGED <<todo, adr, eoi, linked>>
        /\ \/ current_address' = None /\ current_send_end' = None
           \/ status[o] # "failed" /\ UNCHANGED <<current_address, current_send_end>>
    BY <1>5 DEF Leave, Invalidate, GiveUp
  <2>2. CASE current_address' = None /\ current_send_end' = None
    BY <2>2 DEF Trusted
  <2>3. CASE status[o] # "failed" /\ UNCHANGED <<current_address, current_send_end>>
    <3>1. ~Doubt
      BY <1>0, <1>5, <2>3 DEF Doubt, Leave, GateInv, Inside
    <3> QED
      BY <1>0, <2>1, <2>3, <3>1, TrustKept
  <2> QED
    BY <2>1, <2>2, <2>3
<1>6. ASSUME NEW o \in Owners, Release(o) PROVE Trusted'
  <2>1. /\ UNCHANGED <<todo, adr, eoi, linked, current_address, current_send_end>>
    BY <1>6 DEF Release
  <2>2. Doubt => Doubt'
    BY <1>0, <1>6 DEF Release, Doubt, CallerTypes, GateInv, Inside, Return, Wake
  <2> QED
    BY <1>0, <2>1, <2>2, TrustKept
<1>7. ASSUME NEW o \in Owners, ReturnRefused(o) PROVE Trusted'
  <2>1. /\ UNCHANGED <<todo, adr, eoi, linked, current_address, current_send_end>>
    BY <1>7 DEF ReturnRefused
  <2>2. Doubt => Doubt'
    BY <1>0, <1>7 DEF ReturnRefused, Doubt, CallerTypes, GateInv, Inside, Return
  <2> QED
    BY <1>0, <2>1, <2>2, TrustKept
<1>8. ASSUME NEW o \in Owners, RunHandler(o) PROVE Trusted'
  <2>1. /\ UNCHANGED <<todo, adr, eoi, linked, current_address, current_send_end>>
    BY <1>8 DEF RunHandler
  <2>2. Doubt => Doubt'
    BY <1>0, <1>8 DEF RunHandler, Doubt, CallerTypes, GateInv, Inside
  <2> QED
    BY <1>0, <2>1, <2>2, TrustKept
<1>9. ASSUME NEW o \in Owners, Look(o) PROVE Trusted'
  <2>1. /\ UNCHANGED <<todo, adr, eoi, linked, current_address, current_send_end>>
    BY <1>9 DEF Look
  <2>2. Doubt => Doubt'
    BY <1>0, <1>9 DEF Look, Doubt, CallerTypes, GateInv, Inside, Wake
  <2> QED
    BY <1>0, <2>1, <2>2, TrustKept
<1>10. ASSUME NEW o \in Owners, MarkReconnect(o) PROVE Trusted'
  <2>1. /\ UNCHANGED <<todo, adr, eoi, linked, current_address, current_send_end>>
    BY <1>10 DEF MarkReconnect
  <2>2. Doubt => Doubt'
    BY <1>0, <1>10 DEF MarkReconnect, Doubt, CallerTypes, GateInv, Inside
  <2> QED
    BY <1>0, <2>1, <2>2, TrustKept
<1>11. ASSUME NEW o \in Owners, CancelIo(o) PROVE Trusted'
  <2>1. /\ UNCHANGED <<todo, adr, eoi, linked, current_address, current_send_end>>
    BY <1>11 DEF CancelIo
  <2>2. Doubt => Doubt'
    BY <1>0, <1>11 DEF CancelIo, Doubt, CallerTypes, GateInv, Inside
  <2> QED
    BY <1>0, <2>1, <2>2, TrustKept
<1>12. ASSUME NEW o \in Owners, Start(o) PROVE Trusted'
  <2>1. ~Doubt
    BY <1>0, <1>12, StartFacts, NoDoubt DEF Requests, Writes, Reads
  <2> QED
    BY <1>0, <1>12, <2>1, StartFacts, TrustKept
<1>13. ASSUME NEW o \in Owners, Connected(o) PROVE Trusted'
  <2>1. current_address' = None /\ current_send_end' = None
    BY <1>0, <1>13, ConnectedFacts DEF ReadyInv
  <2> QED
    BY <2>1 DEF Trusted
<1>14. ASSUME NEW o \in Owners, Written(o) PROVE Trusted'
  <2> DEFINE a == IF pc[o] = "addr" THEN Address[o] ELSE current_address
             e == IF pc[o] = "eoi" THEN call[o].end ELSE current_send_end
  <2>1. /\ active_owner = o /\ active_owner' = o /\ pc[o] \in Writes /\ todo' = Received(o)
        /\ UNCHANGED <<adr, eoi, linked>>
    BY <1>0, <1>14, WrittenFacts
  <2>2. \/ pc'[o] = "leave" /\ status'[o] = "failed"
        \/ current_address' = a /\ current_send_end' = e
    BY <1>0, <1>14, WrittenFacts
  <2>3. ~Doubt
    BY <2>1, NoDoubt DEF Writes
  <2>4. CASE pc'[o] = "leave" /\ status'[o] = "failed"
    BY <2>1, <2>4, FailedDoubt DEF Trusted
  <2>5. CASE linked /\ current_address' = a /\ current_send_end' = e
    <3>1. /\ SettingAt(todo', Len(todo) + 2, "addr", adr) =
                 IF pc[o] = "addr" THEN Address[o] ELSE SettingAt(todo, Len(todo) + 1, "addr", adr)
          /\ SettingAt(todo', Len(todo) + 2, "eoi", eoi) =
                 IF pc[o] = "eoi" THEN call[o].end ELSE SettingAt(todo, Len(todo) + 1, "eoi", eoi)
          /\ Len(todo') = Len(todo) + 1
      BY <1>0, <2>1, <2>5, ReceivedSettings
    <3>2. Len(todo') + 1 = Len(todo) + 2
      <4>1. Len(todo) \in Nat
        BY <1>0 DEF AdapterTypes
      <4> QED
        BY <3>1, <4>1
    <3>3. current_address' # None => SettingAt(todo', Len(todo') + 1, "addr", adr') = current_address'
      BY <1>0, <2>1, <2>3, <2>5, <3>1, <3>2 DEF Trusted, Final
    <3>4. current_send_end' # None => SettingAt(todo', Len(todo') + 1, "eoi", eoi') = current_send_end'
      BY <1>0, <2>1, <2>3, <2>5, <3>1, <3>2 DEF Trusted, Final
    <3> QED
      BY <3>3, <3>4 DEF Trusted, Final
  <2>6. CASE ~linked
    BY <2>1, <2>6 DEF Trusted
  <2> QED
    BY <2>2, <2>4, <2>5, <2>6
<1>15. ASSUME NEW o \in Owners, RequestFails(o) PROVE Trusted'
  <2>1. Doubt'
    BY <1>0, <1>15, RequestFailsFacts, FailedDoubt
  <2> QED
    BY <2>1 DEF Trusted
<1>16. ASSUME NEW o \in Owners, NEW n \in 1 .. Len(rx), ReadSome(o, n) PROVE Trusted'
  <2>1. ~Doubt
    BY <1>0, <1>16, ReadSomeFacts, NoDoubt DEF Reads
  <2>2. /\ UNCHANGED <<todo, adr, eoi, linked>>
        /\ current_address' \in {current_address, None} /\ current_send_end' \in {current_send_end, None}
    BY <1>0, <1>16, ReadSomeFacts
  <2> QED
    BY <1>0, <2>1, <2>2, TrustKept
<1>17. ASSUME NEW o \in Owners, Timeout(o) PROVE Trusted'
  <2>1. UNCHANGED <<todo, adr, eoi, linked, current_address, current_send_end>>
    BY <1>0, <1>17, TimeoutFacts
  <2>2. Doubt => Doubt'
    BY <1>0, <1>17, TimeoutFacts, FailedDoubt DEF Doubt, CallerTypes
  <2> QED
    BY <1>0, <2>1, <2>2, TrustKept
<1>18. ASSUME NEW o \in Owners, Terminate(o) PROVE Trusted'
  <2>1. /\ UNCHANGED <<todo, adr, eoi, linked, current_address, current_send_end>>
    BY <1>18 DEF Terminate
  <2>2. Doubt => Doubt'
    BY <1>0, <1>18 DEF Terminate, Doubt, CallerTypes, GateInv, Inside
  <2> QED
    BY <1>0, <2>1, <2>2, TrustKept
<1>19. ASSUME NEW o \in Owners, Close(o) PROVE Trusted'
  <2>1. /\ UNCHANGED <<todo, adr, eoi, linked, current_address, current_send_end>>
    BY <1>19 DEF Close
  <2>2. Doubt => Doubt'
    BY <1>0, <1>19 DEF Close, Doubt, CallerTypes, GateInv, Inside
  <2> QED
    BY <1>0, <2>1, <2>2, TrustKept
<1>20. CASE Interrupt
  <2>1. UNCHANGED <<adr, eoi, linked, current_address, current_send_end, active_owner>>
    BY <1>0, <1>20, InterruptFacts
  <2>2. CASE active_owner \in Owners /\ pc'[active_owner] = "leave" /\ status'[active_owner] = "failed"
    BY <2>1, <2>2, FailedDoubt DEF Trusted
  <2>3. CASE UNCHANGED <<pc, status, io, todo>>
    BY <1>0, <2>1, <2>3, TrustKept DEF Doubt
  <2> QED
    BY <1>0, <1>20, <2>2, <2>3, InterruptFacts
<1>21. CASE Execute
  <2>1. /\ Len(todo') = Len(todo) - 1 /\ Len(todo) \in Nat \ {0}
        /\ \A i \in 1 .. Len(todo) : SettingAt(todo', i, "addr", adr') = SettingAt(todo, i + 1, "addr", adr)
        /\ \A i \in 1 .. Len(todo) : SettingAt(todo', i, "eoi", eoi') = SettingAt(todo, i + 1, "eoi", eoi)
    BY <1>0, <1>21, ExecutedSettings
  <2>2. Len(todo') + 1 = Len(todo) /\ Len(todo) \in 1 .. Len(todo)
    BY <2>1
  <2>3. /\ SettingAt(todo', Len(todo') + 1, "addr", adr') = SettingAt(todo, Len(todo) + 1, "addr", adr)
        /\ SettingAt(todo', Len(todo') + 1, "eoi", eoi') = SettingAt(todo, Len(todo) + 1, "eoi", eoi)
    BY <2>1, <2>2
  <2>4. UNCHANGED <<linked, current_address, current_send_end>> /\ Doubt' = Doubt
    BY <1>21 DEF Execute, Doubt
  <2> QED
    BY <1>0, <2>3, <2>4 DEF Trusted, Final
<1>22. CASE Restart
  BY <1>22 DEF Restart, Trusted
<1>23. CASE UNCHANGED vars
  <2>1. /\ UNCHANGED <<todo, adr, eoi, linked, current_address, current_send_end>>
    BY <1>23 DEF vars
  <2>2. Doubt => Doubt'
    BY <1>0, <1>23 DEF vars, Doubt, CallerTypes, GateInv, Inside
  <2> QED
    BY <1>0, <2>1, <2>2, TrustKept
<1> QED
  BY <1>1, <1>2, <1>3, <1>4, <1>5, <1>6, <1>7, <1>8, <1>9, <1>10, <1>11, <1>12, <1>13, <1>14,
     <1>15, <1>16, <1>17, <1>18, <1>19, <1>20, <1>21, <1>22, <1>23 DEF Next, Thread, Cancel

-----------------------------------------------------------------------------
\* A command that is received finds the adapter set for it.
LEMMA ReceivedRight ==
    ASSUME CallerTypes, AdapterTypes, Trusted, StepInv, RightInstrument, NEW o \in Owners,
           active_owner = o, pc[o] \in Writes, todo' = Received(o), UNCHANGED <<adr, eoi>>
    PROVE  RightInstrument'
<1>1. CASE ~linked
  BY <1>1 DEF Received, RightInstrument
<1>2. CASE linked
  <2>1. ~Doubt /\ Address[o] # None /\ None \notin BOOLEAN
    BY NoneAssumption, NoDoubt DEF Writes
  <2>2. /\ todo' \in Seq(Commands) /\ Len(todo') = Len(todo) + 1 /\ todo \in Seq(Commands)
        /\ todo'[Len(todo) + 1] = Command(o) /\ \A j \in 1 .. Len(todo) : todo'[j] = todo[j]
    BY <1>2, ReceivedFacts DEF AdapterTypes
  <2>3. /\ Command(o).owner = o /\ Command(o).end = call[o].end
        /\ Command(o).kind \in {"read", "write", "clr"} => pc[o] = "command" /\ Command(o).kind = call[o].kind
    BY <1>2, ReceivedFacts DEF Writes
  <2>4. /\ \A i \in 1 .. Len(todo) + 1 : SettingAt(todo', i, "addr", adr') = SettingAt(todo, i, "addr", adr)
        /\ \A i \in 1 .. Len(todo) + 1 : SettingAt(todo', i, "eoi", eoi') = SettingAt(todo, i, "eoi", eoi)
    BY <1>2, ReceivedSettings
  <2>5. call[o] \in Calls /\ call[o].end \in BOOLEAN
    BY DEF CallerTypes, Writes, Calls
  <2>6. /\ Command(o).kind \in {"read", "write", "clr"} =>
               SettingAt(todo, Len(todo) + 1, "addr", adr) = Address[o]
        /\ Command(o).kind = "write" => SettingAt(todo, Len(todo) + 1, "eoi", eoi) = call[o].end
    <3>1. Command(o).kind \in {"read", "write", "clr"} => current_address = Address[o]
      BY <2>3 DEF StepInv
    <3>2. Command(o).kind = "write" => current_send_end = call[o].end
      BY <2>3 DEF StepInv
    <3> QED
      BY <1>2, <2>1, <2>5, <3>1, <3>2 DEF Trusted, Final
  <2>7. ASSUME NEW i \in DOMAIN todo'
        PROVE  /\ todo'[i].kind \in {"read", "write", "clr"} =>
                     SettingAt(todo', i, "addr", adr') = Address[todo'[i].owner]
               /\ todo'[i].kind = "write" => SettingAt(todo', i, "eoi", eoi') = todo'[i].end
    <3>0. i \in 1 .. Len(todo) + 1 /\ Len(todo) \in Nat
      BY <2>2
    <3>1. CASE i = Len(todo) + 1
      BY <2>2, <2>3, <2>4, <2>6, <3>0, <3>1
    <3>2. CASE i \in 1 .. Len(todo)
      <4>1. i \in DOMAIN todo /\ todo'[i] = todo[i]
        BY <2>2, <3>2
      <4>2. /\ SettingAt(todo', i, "addr", adr') = SettingAt(todo, i, "addr", adr)
            /\ SettingAt(todo', i, "eoi", eoi') = SettingAt(todo, i, "eoi", eoi)
        BY <2>4, <3>0
      <4> QED
        BY <4>1, <4>2 DEF RightInstrument
    <3> QED
      BY <3>0, <3>1, <3>2
  <2> QED
    BY <2>7 DEF RightInstrument
<1> QED
  BY <1>1, <1>2

\* Every command finds the adapter set for it.
LEMMA RightStep ==
    ASSUME SettingInv, [Next]_vars
    PROVE  RightInstrument'
<1> USE NoneAssumption DEF controllerVars, callVars, bufferVars, ioVars, adapterVars
<1>0. CallerTypes /\ BufferTypes /\ GateInv /\ StrandInv /\ AdapterTypes /\ ReadyInv /\ Trusted /\ StepInv /\ RightInstrument
  BY DEF SettingInv
<1>1. ASSUME NEW o \in Owners, NEW c \in NextCalls(o), Call(o, c) PROVE RightInstrument'
  BY <1>0, <1>1 DEF Call, RightInstrument
<1>2. ASSUME NEW o \in Owners, Refused(o) PROVE RightInstrument'
  BY <1>0, <1>2 DEF Refused, RightInstrument
<1>3. ASSUME NEW o \in Owners, Sleep(o) PROVE RightInstrument'
  BY <1>0, <1>3 DEF Sleep, RightInstrument
<1>4. ASSUME NEW o \in Owners, Enter(o) PROVE RightInstrument'
  BY <1>0, <1>4, EnterFacts DEF RightInstrument
<1>5. ASSUME NEW o \in Owners, Leave(o) PROVE RightInstrument'
  BY <1>0, <1>5 DEF Leave, Invalidate, RightInstrument
<1>6. ASSUME NEW o \in Owners, Release(o) PROVE RightInstrument'
  BY <1>0, <1>6 DEF Release, Return, Wake, RightInstrument
<1>7. ASSUME NEW o \in Owners, ReturnRefused(o) PROVE RightInstrument'
  BY <1>0, <1>7 DEF ReturnRefused, Return, RightInstrument
<1>8. ASSUME NEW o \in Owners, RunHandler(o) PROVE RightInstrument'
  BY <1>0, <1>8 DEF RunHandler, RightInstrument
<1>9. ASSUME NEW o \in Owners, Look(o) PROVE RightInstrument'
  BY <1>0, <1>9 DEF Look, Wake, RightInstrument
<1>10. ASSUME NEW o \in Owners, MarkReconnect(o) PROVE RightInstrument'
  BY <1>0, <1>10 DEF MarkReconnect, RightInstrument
<1>11. ASSUME NEW o \in Owners, CancelIo(o) PROVE RightInstrument'
  BY <1>0, <1>11 DEF CancelIo, RightInstrument
<1>12. ASSUME NEW o \in Owners, Start(o) PROVE RightInstrument'
  BY <1>0, <1>12, StartFacts DEF RightInstrument
<1>13. ASSUME NEW o \in Owners, Connected(o) PROVE RightInstrument'
  <2>1. UNCHANGED <<adr, eoi>> /\ todo' \in {todo, <<>>}
    BY <1>13 DEF Connected
  <2>2. CASE todo' = todo
    BY <1>0, <2>1, <2>2 DEF RightInstrument
  <2>3. CASE todo' = <<>>
    BY <2>3 DEF RightInstrument
  <2> QED
    BY <2>1, <2>2, <2>3
<1>14. ASSUME NEW o \in Owners, Written(o) PROVE RightInstrument'
  BY <1>0, <1>14, WrittenFacts, ReceivedRight
<1>15. ASSUME NEW o \in Owners, RequestFails(o) PROVE RightInstrument'
  <2>1. active_owner = o /\ UNCHANGED <<adr, eoi>> /\ todo' \in MayReach(o)
    BY <1>0, <1>15, RequestFailsFacts
  <2>2. CASE pc[o] \in Writes /\ todo' = Received(o)
    BY <1>0, <2>1, <2>2, ReceivedRight
  <2>3. CASE todo' = todo
    BY <1>0, <2>1, <2>3 DEF RightInstrument
  <2> QED
    BY <2>1, <2>2, <2>3 DEF MayReach
<1>16. ASSUME NEW o \in Owners, NEW n \in 1 .. Len(rx), ReadSome(o, n) PROVE RightInstrument'
  BY <1>0, <1>16, ReadSomeFacts DEF RightInstrument
<1>17. ASSUME NEW o \in Owners, Timeout(o) PROVE RightInstrument'
  BY <1>0, <1>17, TimeoutFacts DEF RightInstrument
<1>18. ASSUME NEW o \in Owners, Terminate(o) PROVE RightInstrument'
  BY <1>0, <1>18 DEF Terminate, RightInstrument
<1>19. ASSUME NEW o \in Owners, Close(o) PROVE RightInstrument'
  BY <1>0, <1>19 DEF Close, RightInstrument
<1>20. CASE Interrupt
  <2>1. /\ UNCHANGED <<adr, eoi>>
        /\ \/ active_owner \in Owners /\ todo' \in MayReach(active_owner)
           \/ todo' = todo
    BY <1>0, <1>20, InterruptFacts
  <2>2. CASE active_owner \in Owners /\ pc[active_owner] \in Writes /\ todo' = Received(active_owner)
    BY <1>0, <2>1, <2>2, ReceivedRight
  <2>3. CASE todo' = todo
    BY <1>0, <2>1, <2>3 DEF RightInstrument
  <2> QED
    BY <2>1, <2>2, <2>3 DEF MayReach
<1>21. CASE Execute
  <2>1. /\ Len(todo') = Len(todo) - 1 /\ Len(todo) \in Nat \ {0}
        /\ \A i \in 1 .. Len(todo) - 1 : todo'[i] = todo[i + 1]
        /\ \A i \in 1 .. Len(todo) : SettingAt(todo', i, "addr", adr') = SettingAt(todo, i + 1, "addr", adr)
        /\ \A i \in 1 .. Len(todo) : SettingAt(todo', i, "eoi", eoi') = SettingAt(todo, i + 1, "eoi", eoi)
    BY <1>0, <1>21, ExecutedSettings
  <2>2. DOMAIN todo = 1 .. Len(todo) /\ DOMAIN todo' = 1 .. Len(todo')
    <3>1. todo \in Seq(Commands) /\ todo' \in Seq(Commands)
      BY <1>0, <1>21 DEF AdapterTypes, Execute
    <3> QED
      BY <3>1
  <2>3. ASSUME NEW i \in DOMAIN todo'
        PROVE  /\ todo'[i].kind \in {"read", "write", "clr"} =>
                     SettingAt(todo', i, "addr", adr') = Address[todo'[i].owner]
               /\ todo'[i].kind = "write" => SettingAt(todo', i, "eoi", eoi') = todo'[i].end
    <3>1. i \in 1 .. Len(todo) - 1 /\ i \in 1 .. Len(todo) /\ i + 1 \in DOMAIN todo
      BY <2>1, <2>2
    <3>2. /\ todo'[i] = todo[i + 1]
          /\ SettingAt(todo', i, "addr", adr') = SettingAt(todo, i + 1, "addr", adr)
          /\ SettingAt(todo', i, "eoi", eoi') = SettingAt(todo, i + 1, "eoi", eoi)
      BY <2>1, <3>1
    <3> QED
      BY <1>0, <3>1, <3>2 DEF RightInstrument
  <2> QED
    BY <2>3 DEF RightInstrument
<1>22. CASE Restart
  BY <1>0, <1>22 DEF Restart, RightInstrument
<1>23. CASE UNCHANGED vars
  BY <1>0, <1>23 DEF vars, RightInstrument
<1> QED
  BY <1>1, <1>2, <1>3, <1>4, <1>5, <1>6, <1>7, <1>8, <1>9, <1>10, <1>11, <1>12, <1>13, <1>14,
     <1>15, <1>16, <1>17, <1>18, <1>19, <1>20, <1>21, <1>22, <1>23 DEF Next, Thread, Cancel

\* The invariant holds initially.
LEMMA SettingInit == Init => SettingInv
<1> SUFFICES ASSUME Init PROVE SettingInv
  OBVIOUS
<1> USE NoneAssumption, KindAssumption DEF Init
<1>1. CallerTypes
  BY DEF CallerTypes, Inside, Outside
<1>2. BufferTypes
  <2>1. <<>> \in Seq(Items) /\ <<>> \in Seq({"start", "cancel", "close"}) /\ <<>> \in Seq(Nat \cup Items)
    OBVIOUS
  <2> QED
    BY <2>1 DEF BufferTypes
<1>3. AdapterTypes
  <2>1. <<>> \in Seq(Commands)
    OBVIOUS
  <2> QED
    BY <2>1 DEF AdapterTypes
<1>4. GateInv /\ StrandInv
  BY DEF GateInv, StrandInv, Inside, Requests, Writes, Reads
<1>5. ReadyInv /\ Trusted /\ StepInv
  BY DEF ReadyInv, Trusted, StepInv
<1>6. RightInstrument
  BY DEF RightInstrument
<1> QED
  BY <1>1, <1>2, <1>3, <1>4, <1>5, <1>6 DEF SettingInv

\* Every step preserves the invariant.
LEMMA SettingStep == SettingInv /\ [Next]_vars => SettingInv'
<1> SUFFICES ASSUME SettingInv, [Next]_vars PROVE SettingInv'
  OBVIOUS
<1>1. BufferTypes'
  BY StreamTypesStep, InputTypesStep, ResponseTypesStep DEF BufferTypes
<1> QED
  BY <1>1, CallerTypesStep, AdapterTypesStep, GateStep, StrandStep, ReadyStep, TrustStep, StepStep,
     RightStep DEF SettingInv

\* The gate, the strand, the caches and the adapter agree in every reachable state.
THEOREM SettingCorrect == Spec => []SettingInv
<1>1. Spec => []SettingInv
  BY SettingInit, SettingStep, PTL DEF Spec
<1> QED
  BY <1>1

\* No command of a session reaches the instrument of another one, and no data goes
\* out with the wrong EOI, whatever fails, is cancelled or is left over
\* (select_address, PrologixController::write).
THEOREM RightInstrumentAlways == Spec => []RightInstrument
<1>1. SettingInv => RightInstrument
  BY DEF SettingInv
<1> QED
  BY <1>1, SettingCorrect, PTL

-----------------------------------------------------------------------------

-----------------------------------------------------------------------------
\* The commands of this connection to which an answer is still to come.
Asked == {i \in DOMAIN todo : todo[i].conn = conn /\ todo[i].kind \in {"init", "spoll", "read"}}

\* The pieces q of an answer to call n of o, of which g were read before.
Answer(q, o, n, g) ==
    /\ \A i \in 1 .. Len(q) - 1 : q[i] = Piece(o, n, g + i)
    /\ q # <<>> => q[Len(q)] = Mark(o, n, "eot")

\* What is on its way to the caller that reads the version line.
VersionInv ==
    /\ \A i, j \in Asked : i = j
    /\ \A i \in Asked : todo[i].kind = "init"
    /\ Asked # {} => rx = <<>>
    /\ rx \in {<<>>, <<VersionLine>>}

\* What is on its way to the caller of o, which reads the answer to its command.
ReplyInv(o) ==
    /\ \A i, j \in Asked : i = j
    /\ \A i \in Asked : todo[i].kind = call[o].kind /\ todo[i].owner = o /\ todo[i].call = calls[o]
    /\ Asked # {} => rx = <<>> /\ gathered[o] = <<>>
    /\ call[o].kind = "read" =>
          /\ Answer(rx, o, calls[o], Len(gathered[o]))
          /\ \A i \in DOMAIN gathered[o] : gathered[o][i].k = i
    /\ call[o].kind = "spoll" => rx \in {<<>>, <<Mark(o, calls[o], "lf")>>} /\ gathered[o] = <<>>

\* On an open connection that is not in doubt nothing is on its way but what the
\* active owner waits for.
OnItsWay ==
    stream /\ ~Doubt =>
        /\ (\A o \in Owners : pc[o] \notin {"version", "reply"}) => rx = <<>> /\ Asked = {}
        /\ \A o \in Owners : pc[o] = "version" => VersionInv
        /\ \A o \in Owners : pc[o] = "reply" => ReplyInv(o)

\* Pieces q belong to call n of o, and follow each other.
Run(q, o, n) ==
    \A i \in DOMAIN q : /\ q[i].owner = o /\ q[i].call = n
                        /\ i > 1 => q[i].k = q[i - 1].k + 1

\* What a caller has gathered is its own.
GatheredInv ==
    \A o \in Owners :
        /\ pc[o] \notin {"reply", "leave", "release"} => gathered[o] = <<>>
        /\ status[o] = "ok" => Run(gathered[o], o, calls[o])

\* The inductive invariant for the answers, on TCP.
AnswerInv ==
    /\ \A i \in DOMAIN todo : todo[i].conn <= conn
    /\ ~stream => rx = <<>>
    /\ connection = "tcp" => OnItsWay /\ GatheredInv /\ Own

\* The commands to be answered, when one more is received.
LEMMA AskedReceived ==
    ASSUME CallerTypes, AdapterTypes, NEW o \in Owners, pc[o] \in Writes, linked, todo' = Received(o),
           conn' = conn
    PROVE  \A i : i \in Asked' <=> \/ i \in Asked
                                   \/ i = Len(todo) + 1 /\ Command(o).kind \in {"init", "spoll", "read"}
<1>1. /\ todo' \in Seq(Commands) /\ Len(todo') = Len(todo) + 1 /\ todo \in Seq(Commands)
      /\ todo'[Len(todo) + 1] = Command(o) /\ \A j \in 1 .. Len(todo) : todo'[j] = todo[j]
  BY ReceivedFacts DEF AdapterTypes
<1>2. Command(o).conn = conn
  BY ReceivedFacts
<1>3. /\ DOMAIN todo' = 1 .. Len(todo) + 1 /\ DOMAIN todo = 1 .. Len(todo) /\ Len(todo) \in Nat
  BY <1>1
<1>4. \A i \in 1 .. Len(todo) : i \in Asked' <=> i \in Asked
  BY <1>1, <1>3 DEF Asked
<1>5. Len(todo) + 1 \in Asked' <=> Command(o).kind \in {"init", "spoll", "read"}
  BY <1>1, <1>2, <1>3 DEF Asked
<1>6. \A i : i \in Asked' => i \in 1 .. Len(todo) \/ i = Len(todo) + 1
  BY <1>3 DEF Asked
<1>7. \A i : i \in Asked => i \in 1 .. Len(todo)
  BY <1>3 DEF Asked
<1> QED
  BY <1>4, <1>5, <1>6, <1>7

\* The commands to be answered, when the first one is executed.
LEMMA AskedExecuted ==
    ASSUME AdapterTypes, Execute
    PROVE  /\ \A i : i \in Asked' <=> i \in Nat \ {0} /\ i + 1 \in Asked
           /\ todo # <<>> /\ Head(todo) = todo[1] /\ todo[1] \in Commands
           /\ 1 \in Asked <=> todo[1].conn = conn /\ todo[1].kind \in {"init", "spoll", "read"}
<1>1. todo \in Seq(Commands) /\ todo # <<>> /\ todo' = Tail(todo) /\ conn' = conn
  BY DEF AdapterTypes, Execute, adapterVars
<1>2. /\ Len(todo) \in Nat \ {0} /\ DOMAIN todo' = 1 .. Len(todo) - 1 /\ DOMAIN todo = 1 .. Len(todo)
      /\ \A i \in 1 .. Len(todo) - 1 : todo'[i] = todo[i + 1]
      /\ Head(todo) = todo[1] /\ todo[1] \in Commands
  BY <1>1
<1>3. ASSUME NEW i PROVE i \in Asked' <=> i \in Nat \ {0} /\ i + 1 \in Asked
  <2>1. ASSUME i \in Asked' PROVE i \in Nat \ {0} /\ i + 1 \in Asked
    <3>1. i \in 1 .. Len(todo) - 1 /\ todo'[i].conn = conn /\ todo'[i].kind \in {"init", "spoll", "read"}
      BY <1>1, <1>2, <2>1 DEF Asked
    <3>2. i \in Nat \ {0} /\ i + 1 \in DOMAIN todo /\ todo'[i] = todo[i + 1]
      BY <1>2, <3>1
    <3> QED
      BY <3>1, <3>2 DEF Asked
  <2>2. ASSUME i \in Nat \ {0}, i + 1 \in Asked PROVE i \in Asked'
    <3>1. i + 1 \in 1 .. Len(todo) /\ todo[i + 1].conn = conn /\ todo[i + 1].kind \in {"init", "spoll", "read"}
      BY <1>2, <2>2 DEF Asked
    <3>2. i \in 1 .. Len(todo) - 1 /\ todo'[i] = todo[i + 1]
      BY <1>2, <2>2, <3>1
    <3> QED
      BY <1>1, <1>2, <3>1, <3>2 DEF Asked
  <2> QED
    BY <2>1, <2>2
<1> QED
  BY <1>1, <1>2, <1>3 DEF Asked

\* Nobody reads, and nothing is on its way.
Quiet == /\ \A o \in Owners : pc[o] \notin {"version", "reply"}
         /\ rx = <<>> /\ Asked = {}

\* Where nothing is on its way nothing has to be said.
LEMMA QuietWay == ASSUME Quiet' PROVE OnItsWay'
BY DEF Quiet, OnItsWay

\* The callers that read go on reading the same.
SameReaders ==
    \A o \in Owners : /\ pc'[o] = "version" <=> pc[o] = "version"
                      /\ pc'[o] = "reply" <=> pc[o] = "reply"
                      /\ pc[o] = "reply" => /\ call'[o] = call[o] /\ calls'[o] = calls[o]
                                            /\ gathered'[o] = gathered[o]

\* What is on its way is not disturbed by what does not touch the connection.
LEMMA WayKept ==
    ASSUME OnItsWay, ~Doubt \/ Doubt', UNCHANGED <<todo, conn, rx>>, stream' = stream,
           SameReaders
    PROVE  OnItsWay'
<1> SUFFICES ASSUME stream', ~Doubt' PROVE /\ (\A o \in Owners : pc'[o] \notin {"version", "reply"}) =>
                                                 rx' = <<>> /\ Asked' = {}
                                           /\ \A o \in Owners : pc'[o] = "version" => VersionInv'
                                           /\ \A o \in Owners : pc'[o] = "reply" => ReplyInv(o)'
  BY DEF OnItsWay
<1>1. Asked' = Asked
  BY DEF Asked
<1>2. (\A o \in Owners : pc'[o] \notin {"version", "reply"}) => rx' = <<>> /\ Asked' = {}
  BY <1>1 DEF OnItsWay, SameReaders
<1>3. ASSUME NEW o \in Owners, pc'[o] = "version" PROVE VersionInv'
  BY <1>1, <1>3 DEF OnItsWay, VersionInv, SameReaders
<1>4. ASSUME NEW o \in Owners, pc'[o] = "reply" PROVE ReplyInv(o)'
  <2>1. ReplyInv(o) /\ call'[o] = call[o] /\ calls'[o] = calls[o] /\ gathered'[o] = gathered[o]
    BY <1>4 DEF OnItsWay, SameReaders
  <2> QED
    BY <1>1, <2>1 DEF ReplyInv, Answer
<1> QED
  BY <1>2, <1>3, <1>4

\* No command is of a connection that is still to be made.
LEMMA ConnsReceived ==
    ASSUME CallerTypes, AdapterTypes, \A i \in DOMAIN todo : todo[i].conn <= conn, NEW o \in Owners,
           pc[o] \in Writes, todo' = Received(o), conn' = conn
    PROVE  \A i \in DOMAIN todo' : todo'[i].conn <= conn'
<1>1. CASE ~linked
  BY <1>1 DEF Received
<1>2. CASE linked
  <2>1. /\ todo' \in Seq(Commands) /\ Len(todo') = Len(todo) + 1 /\ todo \in Seq(Commands)
        /\ todo'[Len(todo) + 1] = Command(o) /\ \A j \in 1 .. Len(todo) : todo'[j] = todo[j]
        /\ Command(o).conn = conn /\ conn \in Nat
    BY <1>2, ReceivedFacts DEF AdapterTypes
  <2> QED
    BY <2>1
<1> QED
  BY <1>1, <1>2

\* No command belongs to a connection to come.
LEMMA ConnsStep ==
    ASSUME SettingInv, AnswerInv, [Next]_vars
    PROVE  (\A i \in DOMAIN todo : todo[i].conn <= conn)'
<1> USE NoneAssumption DEF controllerVars, callVars, bufferVars, ioVars, adapterVars
<1>0. CallerTypes /\ BufferTypes /\ GateInv /\ StrandInv /\ AdapterTypes /\ ReadyInv /\ Trusted /\ StepInv
      /\ (\A i \in DOMAIN todo : todo[i].conn <= conn)
  BY DEF SettingInv, AnswerInv
<1>1. ASSUME NEW o \in Owners, NEW c \in NextCalls(o), Call(o, c) PROVE (\A i \in DOMAIN todo : todo[i].conn <= conn)'
  BY <1>0, <1>1 DEF Call, AdapterTypes
<1>2. ASSUME NEW o \in Owners, Refused(o) PROVE (\A i \in DOMAIN todo : todo[i].conn <= conn)'
  BY <1>0, <1>2 DEF Refused, AdapterTypes
<1>3. ASSUME NEW o \in Owners, Sleep(o) PROVE (\A i \in DOMAIN todo : todo[i].conn <= conn)'
  BY <1>0, <1>3 DEF Sleep, AdapterTypes
<1>4. ASSUME NEW o \in Owners, Enter(o) PROVE (\A i \in DOMAIN todo : todo[i].conn <= conn)'
  BY <1>0, <1>4, EnterFacts
<1>5. ASSUME NEW o \in Owners, Leave(o) PROVE (\A i \in DOMAIN todo : todo[i].conn <= conn)'
  BY <1>0, <1>5 DEF Leave, Invalidate, AdapterTypes
<1>6. ASSUME NEW o \in Owners, Release(o) PROVE (\A i \in DOMAIN todo : todo[i].conn <= conn)'
  BY <1>0, <1>6 DEF Release, Return, Wake, AdapterTypes
<1>7. ASSUME NEW o \in Owners, ReturnRefused(o) PROVE (\A i \in DOMAIN todo : todo[i].conn <= conn)'
  BY <1>0, <1>7 DEF ReturnRefused, Return, AdapterTypes
<1>8. ASSUME NEW o \in Owners, RunHandler(o) PROVE (\A i \in DOMAIN todo : todo[i].conn <= conn)'
  BY <1>0, <1>8 DEF RunHandler, AdapterTypes
<1>9. ASSUME NEW o \in Owners, Look(o) PROVE (\A i \in DOMAIN todo : todo[i].conn <= conn)'
  BY <1>0, <1>9 DEF Look, Wake, AdapterTypes
<1>10. ASSUME NEW o \in Owners, MarkReconnect(o) PROVE (\A i \in DOMAIN todo : todo[i].conn <= conn)'
  BY <1>0, <1>10 DEF MarkReconnect, AdapterTypes
<1>11. ASSUME NEW o \in Owners, CancelIo(o) PROVE (\A i \in DOMAIN todo : todo[i].conn <= conn)'
  BY <1>0, <1>11 DEF CancelIo, AdapterTypes
<1>12. ASSUME NEW o \in Owners, Start(o) PROVE (\A i \in DOMAIN todo : todo[i].conn <= conn)'
  BY <1>0, <1>12, StartFacts
<1>13. ASSUME NEW o \in Owners, Connected(o) PROVE (\A i \in DOMAIN todo : todo[i].conn <= conn)'
  <2>1. conn' = conn + 1 /\ conn \in Nat /\ todo' \in {todo, <<>>} /\ todo \in Seq(Commands)
    BY <1>0, <1>13 DEF Connected, AdapterTypes
  <2>2. ASSUME NEW i \in DOMAIN todo PROVE todo[i].conn \in Nat
    <3>1. todo[i] \in Commands
      BY <2>1
    <3> QED
      BY <3>1 DEF Commands
  <2> QED
    BY <1>0, <2>1, <2>2
<1>14. ASSUME NEW o \in Owners, Written(o) PROVE (\A i \in DOMAIN todo : todo[i].conn <= conn)'
  <2>1. pc[o] \in Writes /\ todo' = Received(o) /\ conn' = conn
    BY <1>0, <1>14, WrittenFacts
  <2> QED
    BY <1>0, <2>1, ConnsReceived
<1>15. ASSUME NEW o \in Owners, RequestFails(o) PROVE (\A i \in DOMAIN todo : todo[i].conn <= conn)'
  <2>1. todo' \in MayReach(o) /\ conn' = conn
    BY <1>0, <1>15, RequestFailsFacts
  <2> QED
    BY <1>0, <2>1, ConnsReceived DEF MayReach
<1>16. ASSUME NEW o \in Owners, NEW n \in 1 .. Len(rx), ReadSome(o, n) PROVE (\A i \in DOMAIN todo : todo[i].conn <= conn)'
  BY <1>0, <1>16, ReadSomeFacts
<1>17. ASSUME NEW o \in Owners, Timeout(o) PROVE (\A i \in DOMAIN todo : todo[i].conn <= conn)'
  BY <1>0, <1>17, TimeoutFacts
<1>18. ASSUME NEW o \in Owners, Terminate(o) PROVE (\A i \in DOMAIN todo : todo[i].conn <= conn)'
  BY <1>0, <1>18 DEF Terminate, AdapterTypes
<1>19. ASSUME NEW o \in Owners, Close(o) PROVE (\A i \in DOMAIN todo : todo[i].conn <= conn)'
  BY <1>0, <1>19 DEF Close, AdapterTypes
<1>20. CASE Interrupt
  <2>1. /\ (active_owner \in Owners /\ todo' \in MayReach(active_owner)) \/ todo' = todo
        /\ conn' = conn
    BY <1>0, <1>20, InterruptFacts
  <2> QED
    BY <1>0, <2>1, ConnsReceived DEF MayReach
<1>21. CASE Execute
  <2>1. /\ Len(todo') = Len(todo) - 1 /\ Len(todo) \in Nat \ {0} /\ conn' = conn
        /\ \A i \in 1 .. Len(todo) - 1 : todo'[i] = todo[i + 1]
    BY <1>0, <1>21, ExecutedSettings DEF Execute
  <2>2. DOMAIN todo = 1 .. Len(todo) /\ DOMAIN todo' = 1 .. Len(todo')
    <3>1. todo \in Seq(Commands) /\ todo' \in Seq(Commands)
      BY <1>0, <1>21 DEF AdapterTypes, Execute
    <3> QED
      BY <3>1
  <2>3. \A i \in DOMAIN todo' : i + 1 \in DOMAIN todo /\ todo'[i] = todo[i + 1]
    BY <2>1, <2>2
  <2> QED
    BY <1>0, <2>1, <2>3
<1>22. CASE Restart
  BY <1>0, <1>22 DEF Restart, AdapterTypes
<1>23. CASE UNCHANGED vars
  BY <1>0, <1>23 DEF vars, AdapterTypes
<1> QED
  BY <1>1, <1>2, <1>3, <1>4, <1>5, <1>6, <1>7, <1>8, <1>9, <1>10, <1>11, <1>12, <1>13, <1>14,
     <1>15, <1>16, <1>17, <1>18, <1>19, <1>20, <1>21, <1>22, <1>23 DEF Next, Thread, Cancel

\* A stream that is closed has no input.
LEMMA ClosedStep ==
    ASSUME SettingInv, AnswerInv, [Next]_vars
    PROVE  (~stream => rx = <<>>)'
<1> USE NoneAssumption DEF controllerVars, callVars, bufferVars, ioVars, adapterVars
<1>0. CallerTypes /\ BufferTypes /\ GateInv /\ StrandInv /\ AdapterTypes /\ ReadyInv /\ Trusted /\ StepInv /\ (~stream => rx = <<>>)
  BY DEF SettingInv, AnswerInv
<1>1. ASSUME NEW o \in Owners, NEW c \in NextCalls(o), Call(o, c) PROVE (~stream => rx = <<>>)'
  BY <1>0, <1>1 DEF Call, BufferTypes
<1>2. ASSUME NEW o \in Owners, Refused(o) PROVE (~stream => rx = <<>>)'
  BY <1>0, <1>2 DEF Refused, BufferTypes
<1>3. ASSUME NEW o \in Owners, Sleep(o) PROVE (~stream => rx = <<>>)'
  BY <1>0, <1>3 DEF Sleep, BufferTypes
<1>4. ASSUME NEW o \in Owners, Enter(o) PROVE (~stream => rx = <<>>)'
  BY <1>0, <1>4, EnterFacts DEF Invalidate
<1>5. ASSUME NEW o \in Owners, Leave(o) PROVE (~stream => rx = <<>>)'
  BY <1>0, <1>5 DEF Leave, Invalidate, BufferTypes
<1>6. ASSUME NEW o \in Owners, Release(o) PROVE (~stream => rx = <<>>)'
  BY <1>0, <1>6 DEF Release, Return, Wake, BufferTypes
<1>7. ASSUME NEW o \in Owners, ReturnRefused(o) PROVE (~stream => rx = <<>>)'
  BY <1>0, <1>7 DEF ReturnRefused, Return, BufferTypes
<1>8. ASSUME NEW o \in Owners, RunHandler(o) PROVE (~stream => rx = <<>>)'
  BY <1>0, <1>8 DEF RunHandler, BufferTypes
<1>9. ASSUME NEW o \in Owners, Look(o) PROVE (~stream => rx = <<>>)'
  BY <1>0, <1>9 DEF Look, Wake, BufferTypes
<1>10. ASSUME NEW o \in Owners, MarkReconnect(o) PROVE (~stream => rx = <<>>)'
  BY <1>0, <1>10 DEF MarkReconnect, BufferTypes
<1>11. ASSUME NEW o \in Owners, CancelIo(o) PROVE (~stream => rx = <<>>)'
  BY <1>0, <1>11 DEF CancelIo, BufferTypes
<1>12. ASSUME NEW o \in Owners, Start(o) PROVE (~stream => rx = <<>>)'
  BY <1>0, <1>12, StartFacts
<1>13. ASSUME NEW o \in Owners, Connected(o) PROVE (~stream => rx = <<>>)'
  BY <1>0, <1>13, ConnectedFacts
<1>14. ASSUME NEW o \in Owners, Written(o) PROVE (~stream => rx = <<>>)'
  BY <1>0, <1>14, WrittenFacts
<1>15. ASSUME NEW o \in Owners, RequestFails(o) PROVE (~stream => rx = <<>>)'
  BY <1>0, <1>15, RequestFailsFacts
<1>16. ASSUME NEW o \in Owners, NEW n \in 1 .. Len(rx), ReadSome(o, n) PROVE (~stream => rx = <<>>)'
  <2>1. stream /\ stream' = stream
    BY <1>0, <1>16, ReadSomeFacts
  <2> QED
    BY <2>1
<1>17. ASSUME NEW o \in Owners, Timeout(o) PROVE (~stream => rx = <<>>)'
  BY <1>0, <1>17, TimeoutFacts
<1>18. ASSUME NEW o \in Owners, Terminate(o) PROVE (~stream => rx = <<>>)'
  BY <1>0, <1>18 DEF Terminate, BufferTypes
<1>19. ASSUME NEW o \in Owners, Close(o) PROVE (~stream => rx = <<>>)'
  BY <1>0, <1>19 DEF Close, BufferTypes
<1>20. CASE Interrupt
  BY <1>0, <1>20, InterruptFacts
<1>21. CASE Execute
  BY <1>0, <1>21 DEF Execute, BufferTypes
<1>22. CASE Restart
  BY <1>0, <1>22 DEF Restart, BufferTypes
<1>23. CASE UNCHANGED vars
  BY <1>0, <1>23 DEF vars, BufferTypes
<1> QED
  BY <1>1, <1>2, <1>3, <1>4, <1>5, <1>6, <1>7, <1>8, <1>9, <1>10, <1>11, <1>12, <1>13, <1>14,
     <1>15, <1>16, <1>17, <1>18, <1>19, <1>20, <1>21, <1>22, <1>23 DEF Next, Thread, Cancel

-----------------------------------------------------------------------------
\* A failed transaction awaits nothing.
LEMMA DoubtWay == ASSUME Doubt' PROVE OnItsWay'
BY DEF OnItsWay

\* Nobody but the active owner reads.
LEMMA NobodyReads ==
    ASSUME CallerTypes, GateInv, NEW o \in Owners, active_owner \in {o, None},
           \A x \in Owners : x # o => pc'[x] = pc[x]
    PROVE  \A x \in Owners : x # o => pc'[x] \notin {"version", "reply"} /\ pc[x] \notin {"version", "reply"}
<1>1. \A x \in Owners : x # o => pc[x] \notin Inside
  BY OthersOutside, NoneAssumption
<1> QED
  BY <1>1 DEF Inside, Requests, Reads

\* A command is executed, and its answer sent.
LEMMA WayExecute ==
    ASSUME CallerTypes, BufferTypes, AdapterTypes, StepInv, OnItsWay, connection = "tcp", Execute
    PROVE  OnItsWay'
<1> SUFFICES ASSUME stream', ~Doubt' PROVE OnItsWay'
  BY DEF OnItsWay
<1> DEFINE c == todo[1]
<1>1. UNCHANGED <<active_owner, pc, status, call, calls, gathered, stream, conn>>
  BY DEF Execute, controllerVars, callVars
<1>2. stream /\ ~Doubt
  BY <1>1 DEF Doubt
<1>3. /\ \A i : i \in Asked' <=> i \in Nat \ {0} /\ i + 1 \in Asked
      /\ todo # <<>> /\ Head(todo) = c /\ c \in Commands
      /\ 1 \in Asked <=> c.conn = conn /\ c.kind \in {"init", "spoll", "read"}
  BY AskedExecuted
<1>4. /\ 1 \notin Asked => rx' = rx
      /\ 1 \in Asked /\ c.kind = "init" => rx' = rx \o <<VersionLine>>
      /\ 1 \in Asked /\ c.kind = "spoll" => rx' = rx \o <<Mark(c.owner, c.call, "lf")>>
      /\ 1 \in Asked /\ c.kind = "read" =>
           \/ rx' = rx
           \/ \E n \in Answers : rx' = rx \o ([k \in 1 .. n |-> Piece(c.owner, c.call, k)]
                                              \o <<Mark(c.owner, c.call, "eot")>>)
  BY <1>2, <1>3 DEF Execute
<1>5. \A i \in Asked' : i \in Nat \ {0} /\ i + 1 \in Asked /\ todo'[i] = todo[i + 1]
  <2>1. /\ Len(todo') = Len(todo) - 1 /\ Len(todo) \in Nat \ {0}
        /\ \A i \in 1 .. Len(todo) - 1 : todo'[i] = todo[i + 1]
    BY ExecutedSettings
  <2>2. DOMAIN todo = 1 .. Len(todo)
    BY DEF AdapterTypes
  <2>3. \A i \in Asked : i \in 1 .. Len(todo)
    BY <2>2 DEF Asked
  <2> QED
    BY <1>3, <2>1, <2>3
<1>6. rx \in Seq(Items)
  BY DEF BufferTypes
<1> HIDE DEF c
<1>7. CASE \A o \in Owners : pc[o] \notin {"version", "reply"}
  <2>1. rx = <<>> /\ Asked = {}
    BY <1>2, <1>7 DEF OnItsWay
  <2>2. rx' = <<>> /\ Asked' = {}
    BY <1>3, <1>4, <2>1
  <2> QED
    BY <1>1, <1>7, <2>2, QuietWay DEF Quiet
<1>8. ASSUME NEW o \in Owners, pc[o] = "version" PROVE VersionInv'
  <2>1. VersionInv
    BY <1>2, <1>8 DEF OnItsWay
  <2>2. CASE 1 \in Asked
    <3>1. rx = <<>> /\ c.kind = "init" /\ \A i \in Asked : i = 1
      BY <2>1, <2>2 DEF VersionInv, c
    <3>2. Asked' = {}
      <4>1. \A i \in Asked' : i \in Nat \ {0} /\ i + 1 = 1
        BY <1>5, <3>1
      <4>2. \A i \in Nat \ {0} : i + 1 # 1
        OBVIOUS
      <4> QED
        BY <4>1, <4>2
    <3>3. rx' = <<VersionLine>>
      BY <1>4, <2>2, <3>1
    <3> QED
      BY <3>2, <3>3 DEF VersionInv
  <2>3. CASE 1 \notin Asked
    <3>1. rx' = rx
      BY <1>4, <2>3
    <3>2. \A i, j \in Asked' : i = j
      <4>1. \A i, j \in Nat : i + 1 = j + 1 => i = j
        OBVIOUS
      <4> QED
        BY <1>5, <2>1, <4>1 DEF VersionInv
    <3> QED
      BY <1>5, <2>1, <3>1, <3>2 DEF VersionInv
  <2> QED
    BY <2>2, <2>3
<1>9. ASSUME NEW o \in Owners, pc[o] = "reply" PROVE ReplyInv(o)'
  <2>1. ReplyInv(o) /\ Answered(o)
    BY <1>2, <1>9 DEF OnItsWay, StepInv
  <2>2. CASE 1 \in Asked
    <3>1. /\ rx = <<>> /\ gathered[o] = <<>> /\ \A i \in Asked : i = 1
          /\ c.kind = call[o].kind /\ c.owner = o /\ c.call = calls[o]
      BY <2>1, <2>2 DEF ReplyInv, c
    <3>2. Asked' = {}
      <4>1. \A i \in Asked' : i \in Nat \ {0} /\ i + 1 = 1
        BY <1>5, <3>1
      <4>2. \A i \in Nat \ {0} : i + 1 # 1
        OBVIOUS
      <4> QED
        BY <4>1, <4>2
    <3>3. CASE call[o].kind = "spoll"
      <4>1. rx' = <<Mark(o, calls[o], "lf")>>
        BY <1>4, <2>2, <3>1, <3>3
      <4> QED
        BY <1>1, <3>1, <3>2, <3>3, <4>1 DEF ReplyInv
    <3>4. CASE call[o].kind = "read"
      <4>1. \/ rx' = rx
            \/ \E n \in Answers : rx' = rx \o ([k \in 1 .. n |-> Piece(c.owner, c.call, k)]
                                               \o <<Mark(c.owner, c.call, "eot")>>)
        BY <1>4, <2>2, <3>1, <3>4
      <4>2. CASE rx' = rx
        BY <1>1, <3>1, <3>2, <3>4, <4>2 DEF ReplyInv, Answer
      <4>3. ASSUME NEW n \in Answers, rx' = rx \o ([k \in 1 .. n |-> Piece(c.owner, c.call, k)]
                                                  \o <<Mark(c.owner, c.call, "eot")>>)
            PROVE  Answer(rx', o, calls[o], 0)
        <5>1. n \in Nat \ {0}
          BY BoundAssumption
        <5> DEFINE ps == [k \in 1 .. n |-> Piece(o, calls[o], k)]
                   end == Mark(o, calls[o], "eot")
        <5>2. ps \in Seq(Items) /\ Len(ps) = n /\ end \in Items /\ \A k \in 1 .. n : ps[k] = Piece(o, calls[o], k)
          <6>1. \A k \in 1 .. n : Piece(o, calls[o], k) \in Items
            BY <5>1 DEF Piece, Items, CallerTypes
          <6>2. ps \in Seq(Items)
            BY <5>1, <6>1
          <6> QED
            BY <5>1, <6>2 DEF Mark, Items, CallerTypes
        <5>3. rx' = ps \o <<end>>
          <6>1. rx' = <<>> \o (ps \o <<end>>)
            BY <3>1, <4>3
          <6>2. ps \o <<end>> \in Seq(Items)
            <7> HIDE DEF ps, end
            <7> QED
              BY <5>2
          <6> HIDE DEF ps, end
          <6> QED
            BY <6>1, <6>2, ConcatEmptySeq
        <5> HIDE DEF ps, end
        <5>4. /\ Len(rx') = n + 1 /\ rx'[n + 1] = end
              /\ \A i \in 1 .. n : rx'[i] = ps[i]
          BY <5>1, <5>2, <5>3
        <5>5. \A i \in 1 .. n : 0 + i = i
          BY <5>1
        <5>6. \A i \in 1 .. Len(rx') - 1 : rx'[i] = Piece(o, calls[o], 0 + i)
          BY <5>1, <5>2, <5>4, <5>5
        <5> QED
          BY <5>1, <5>4, <5>6 DEF Answer, end
      <4>4. CASE Answer(rx', o, calls[o], 0)
        <5>1. Len(gathered'[o]) = 0 /\ gathered'[o] = <<>> /\ call'[o] = call[o] /\ calls'[o] = calls[o]
          BY <1>1, <3>1
        <5>2. Answer(rx', o, calls'[o], Len(gathered'[o]))
          BY <4>4, <5>1
        <5> QED
          BY <3>2, <3>4, <5>1, <5>2 DEF ReplyInv
      <4> QED
        BY <4>1, <4>2, <4>3, <4>4
    <3> QED
      BY <2>1, <3>3, <3>4 DEF Answered
  <2>3. CASE 1 \notin Asked
    <3>1. rx' = rx
      BY <1>4, <2>3
    <3>2. \A i, j \in Asked' : i = j
      <4>1. \A i, j \in Nat : i + 1 = j + 1 => i = j
        OBVIOUS
      <4> QED
        BY <1>5, <2>1, <4>1 DEF ReplyInv
    <3>3. /\ Asked' # {} => rx' = <<>> /\ gathered'[o] = <<>>
          /\ \A i \in Asked' : /\ todo'[i].kind = call'[o].kind
                               /\ todo'[i].owner = o /\ todo'[i].call = calls'[o]
      BY <1>1, <1>5, <2>1, <3>1 DEF ReplyInv
    <3> QED
      BY <1>1, <2>1, <3>1, <3>2, <3>3 DEF ReplyInv, Answer
  <2> QED
    BY <2>2, <2>3
<1> QED
  BY <1>1, <1>7, <1>8, <1>9 DEF OnItsWay

\* What a read does when all that is on its way is what it waits for.
LEMMA ReadOutcome ==
    ASSUME CallerTypes, BufferTypes, AdapterTypes, GateInv, StrandInv, StepInv, OnItsWay, GatheredInv,
           connection = "tcp", NEW o \in Owners, NEW n \in 1 .. Len(rx), ReadSome(o, n)
    PROVE  /\ Asked = {} /\ rx # <<>> /\ (pc[o] = "version" => VersionInv) /\ (pc[o] = "reply" => ReplyInv(o))
           /\ pc[o] = "version" => rx = <<VersionLine>> /\ n = 1 /\ gathered' = gathered /\ pc'[o] # "reply"
           /\ pc[o] = "reply" /\ call[o].kind = "spoll" =>
                 /\ rx = <<Mark(o, calls[o], "lf")>> /\ n = 1 /\ pc'[o] = "leave"
                 /\ gathered' \in {gathered, [gathered EXCEPT ![o] = <<Mark(o, calls[o], "lf")>>]}
           /\ pc[o] = "reply" /\ call[o].kind = "read" =>
                 \/ gathered' = gathered /\ pc'[o] = "leave" /\ status'[o] = "failed"
                 \/ n = Len(rx) /\ pc'[o] = "leave" /\ gathered' = [gathered EXCEPT ![o] = @ \o SubSeq(rx, 1, n - 1)]
                 \/ /\ n < Len(rx) /\ gathered' = [gathered EXCEPT ![o] = @ \o SubSeq(rx, 1, n)]
                    /\ pc'[o] = "reply" \/ (pc'[o] = "leave" /\ status'[o] = "failed")
<1> DEFINE delimiter == IF pc[o] = "reply" /\ call[o].kind = "read" THEN "eot" ELSE "lf"
           limit     == IF delimiter = "eot" THEN MaxResponse ELSE MaxResponse + 1
           chunk     == SubSeq(rx, 1, n)
           ends      == {i \in 1 .. n : chunk[i].mark = delimiter}
           data      == gathered[o] \o (IF delimiter = "eot" /\ ends # {} THEN SubSeq(chunk, 1, n - 1) ELSE chunk)
           bad       == \/ Len(data) > limit \/ ends \notin {{}, {n}}
                        \/ ends # {} /\ ~Accepted(o, data)
<1>1. /\ active_owner = o /\ pc[o] \in Reads /\ stream /\ rx \in Seq(Items) /\ n \in Nat /\ n <= Len(rx) /\ 1 <= n
      /\ gathered \in [Owners -> Seq(Items)]
  <2>1. active_owner = o /\ pc[o] \in Reads /\ stream
    BY ReadSomeFacts
  <2>2. rx \in Seq(Items) /\ gathered \in [Owners -> Seq(Items)]
    BY DEF BufferTypes
  <2> QED
    BY <2>1, <2>2
<1>2. ~Doubt
  BY <1>1, NoDoubt DEF Reads
<1>3. /\ pc[o] = "version" => VersionInv
      /\ pc[o] = "reply" => ReplyInv(o) /\ Answered(o)
  BY <1>1, <1>2 DEF OnItsWay, StepInv
<1>4. rx # <<>> /\ Asked = {}
  <2>1. rx # <<>>
    BY <1>1
  <2> QED
    BY <1>1, <1>3, <2>1 DEF VersionInv, ReplyInv, Reads
<1>5. /\ bad => Fail(o) /\ gathered' = gathered
      /\ ~bad /\ ends = {} => /\ gathered' = [gathered EXCEPT ![o] = data]
                              /\ Fail(o) \/ UNCHANGED <<pc, status>>
      /\ ~bad /\ ends # {} /\ pc[o] = "version" => gathered' = [gathered EXCEPT ![o] = <<>>]
      /\ ~bad /\ ends # {} /\ pc[o] # "version" =>
             gathered' = [gathered EXCEPT ![o] = data] /\ Request(o, "leave", strand)
  BY DEF ReadSome
<1>6. /\ chunk \in Seq(Items) /\ Len(chunk) = n /\ \A i \in 1 .. n : chunk[i] = rx[i]
  BY <1>1
<1>7. /\ Fail(o) => pc'[o] = "leave" /\ status'[o] = "failed"
      /\ Request(o, "leave", strand) => pc'[o] = "leave"
  BY DEF Fail, Request, CallerTypes
<1>8. ASSUME pc[o] = "version"
      PROVE  rx = <<VersionLine>> /\ n = 1 /\ gathered' = gathered /\ pc'[o] # "reply"
  <2>1. rx = <<VersionLine>>
    BY <1>3, <1>4, <1>8 DEF VersionInv
  <2>2. n = 1 /\ rx[1].mark = "lf"
    BY <1>1, <2>1 DEF VersionLine, Mark
  <2>3. 1 \in ends
    BY <1>6, <1>8, <2>2
  <2>4. gathered[o] = <<>>
    BY <1>8 DEF GatheredInv
  <2>5. gathered' = gathered
    <3>1. ends # {}
      BY <2>3
    <3> HIDE DEF ends, bad
    <3>2. gathered' = gathered \/ gathered' = [gathered EXCEPT ![o] = <<>>]
      BY <1>5, <1>8, <3>1
    <3> QED
      BY <1>1, <2>4, <3>2
  <2>6. pc'[o] # "reply"
    <3>1. \/ pc'[o] = "leave" \/ pc' = pc \/ pc'[o] = StepAfter(o, "ready", None, None)
      BY <1>8, ReadSomeFacts
    <3>2. call[o] \in Calls
      BY <1>8 DEF CallerTypes
    <3> QED
      BY <1>8, <3>1, <3>2, StepFacts
  <2> QED
    BY <2>1, <2>2, <2>5, <2>6
<1>9. ASSUME pc[o] = "reply", call[o].kind = "spoll"
      PROVE  /\ rx = <<Mark(o, calls[o], "lf")>> /\ n = 1 /\ pc'[o] = "leave"
             /\ gathered' \in {gathered, [gathered EXCEPT ![o] = <<Mark(o, calls[o], "lf")>>]}
  <2>1. rx = <<Mark(o, calls[o], "lf")>> /\ gathered[o] = <<>>
    BY <1>3, <1>4, <1>9 DEF ReplyInv
  <2>2. n = 1 /\ rx[1].mark = "lf" /\ rx[1] = Mark(o, calls[o], "lf")
    BY <1>1, <2>1 DEF Mark
  <2>3. 1 \in ends
    BY <1>6, <1>9, <2>2
  <2>4. data = <<Mark(o, calls[o], "lf")>>
    <3>1. data = gathered[o] \o chunk
      BY <1>9
    <3>2. data = chunk
      BY <1>6, <2>1, <3>1, ConcatEmptySeq
    <3>3. chunk = <<Mark(o, calls[o], "lf")>>
      <4> DEFINE m == Mark(o, calls[o], "lf")
      <4>1. rx = <<m>> /\ n = 1
        BY <2>1, <2>2
      <4> HIDE DEF m
      <4>2. chunk = rx
        BY <1>1, <1>6, <4>1, SubSeqFull
      <4> QED
        BY <4>1, <4>2 DEF m
    <3> QED
      BY <3>2, <3>3
  <2> HIDE DEF data
  <2> QED
    BY <1>5, <1>7, <1>9, <2>1, <2>2, <2>3, <2>4
<1>10. ASSUME pc[o] = "reply", call[o].kind = "read"
       PROVE  \/ gathered' = gathered /\ pc'[o] = "leave" /\ status'[o] = "failed"
              \/ n = Len(rx) /\ pc'[o] = "leave" /\ gathered' = [gathered EXCEPT ![o] = @ \o SubSeq(rx, 1, n - 1)]
              \/ /\ n < Len(rx) /\ gathered' = [gathered EXCEPT ![o] = @ \o SubSeq(rx, 1, n)]
                 /\ pc'[o] = "reply" \/ (pc'[o] = "leave" /\ status'[o] = "failed")
  <2>1. Answer(rx, o, calls[o], Len(gathered[o]))
    BY <1>3, <1>10 DEF ReplyInv
  <2>2. /\ \A i \in 1 .. Len(rx) - 1 : rx[i].mark = "more"
        /\ rx[Len(rx)].mark = "eot"
    <3>1. /\ \A i \in 1 .. Len(rx) - 1 : rx[i] = Piece(o, calls[o], Len(gathered[o]) + i)
          /\ rx[Len(rx)] = Mark(o, calls[o], "eot")
      BY <1>4, <2>1 DEF Answer
    <3>2. \A k : Piece(o, calls[o], k).mark = "more"
      BY DEF Piece
    <3>3. Mark(o, calls[o], "eot").mark = "eot"
      BY DEF Mark
    <3> QED
      BY <3>1, <3>2, <3>3
  <2>3. delimiter = "eot"
    BY <1>10
  <2>4. CASE n < Len(rx)
    <3>1. \A i \in 1 .. n : chunk[i].mark = "more"
      <4>1. n \in Nat /\ Len(rx) \in Nat /\ n <= Len(rx) - 1
        BY <1>1, <2>4
      <4>2. ASSUME NEW i \in 1 .. n PROVE chunk[i].mark = "more"
        <5> HIDE DEF chunk
        <5>1. i \in 1 .. Len(rx) - 1
          BY <4>1
        <5>2. rx[i].mark = "more"
          BY <2>2, <5>1
        <5> QED
          BY <1>6, <5>2
      <4> QED
        BY <4>2
    <3>2. ends = {}
      BY <2>3, <3>1
    <3>3. data = gathered[o] \o SubSeq(rx, 1, n)
      BY <3>2
    <3> HIDE DEF data, ends
    <3> QED
      BY <1>5, <1>7, <1>10, <2>4, <3>2, <3>3
  <2>5. CASE n = Len(rx)
    <3>1. n \in ends
      BY <1>1, <1>6, <2>2, <2>3, <2>5
    <3>2. SubSeq(chunk, 1, n - 1) = SubSeq(rx, 1, n - 1)
      BY <1>1, <1>6
    <3>3. data = gathered[o] \o SubSeq(rx, 1, n - 1)
      BY <2>3, <3>1, <3>2
    <3> HIDE DEF data, ends
    <3> QED
      BY <1>5, <1>7, <1>10, <2>5, <3>1, <3>3
  <2> QED
    BY <1>1, <2>4, <2>5
<1> QED
  BY <1>3, <1>4, <1>8, <1>9, <1>10

\* Part of what is on its way is read.
LEMMA WayRead ==
    ASSUME CallerTypes, BufferTypes, AdapterTypes, GateInv, StrandInv, StepInv, OnItsWay, GatheredInv,
           connection = "tcp", NEW o \in Owners, NEW n \in 1 .. Len(rx), ReadSome(o, n)
    PROVE  OnItsWay'
<1>1. /\ active_owner = o /\ active_owner' = o /\ pc[o] \in Reads /\ rx' = SubSeq(rx, n + 1, Len(rx))
      /\ \A x \in Owners : x # o => pc'[x] = pc[x]
      /\ UNCHANGED <<todo, conn, call, calls>>
  BY ReadSomeFacts DEF Moved
<1>2. /\ Asked = {} /\ rx # <<>> /\ (pc[o] = "version" => VersionInv) /\ (pc[o] = "reply" => ReplyInv(o))
      /\ pc[o] = "version" => rx = <<VersionLine>> /\ n = 1 /\ gathered' = gathered /\ pc'[o] # "reply"
      /\ pc[o] = "reply" /\ call[o].kind = "spoll" =>
            rx = <<Mark(o, calls[o], "lf")>> /\ n = 1 /\ pc'[o] = "leave"
      /\ pc[o] = "reply" /\ call[o].kind = "read" =>
            \/ pc'[o] = "leave" /\ status'[o] = "failed"
            \/ n = Len(rx) /\ pc'[o] = "leave"
            \/ /\ n < Len(rx) /\ gathered' = [gathered EXCEPT ![o] = @ \o SubSeq(rx, 1, n)]
               /\ pc'[o] = "reply" \/ (pc'[o] = "leave" /\ status'[o] = "failed")
  BY ReadOutcome
<1>3. Asked' = {}
  BY <1>1, <1>2 DEF Asked
<1>4. \A x \in Owners : x # o => pc'[x] \notin {"version", "reply"}
  BY <1>1, NobodyReads
<1>5. rx \in Seq(Items) /\ n \in Nat /\ 1 <= n /\ n <= Len(rx) /\ gathered \in [Owners -> Seq(Items)]
  BY DEF BufferTypes
<1>6. n = Len(rx) => rx' = <<>>
  BY <1>1, <1>5
<1>7. CASE pc[o] = "version"
  <2>1. n = Len(rx)
    BY <1>2, <1>7
  <2>2. rx' = <<>> /\ pc'[o] # "reply"
    BY <1>2, <1>6, <1>7, <2>1
  <2>3. VersionInv'
    BY <1>3, <2>2 DEF VersionInv
  <2> QED
    BY <1>3, <1>4, <2>2, <2>3 DEF OnItsWay
<1>8. CASE pc'[o] = "leave" /\ status'[o] = "failed"
  BY <1>1, <1>8, FailedDoubt, DoubtWay
<1>9. CASE pc[o] = "reply" /\ n = Len(rx) /\ pc'[o] = "leave"
  <2>1. \A x \in Owners : pc'[x] \notin {"version", "reply"}
    BY <1>4, <1>9
  <2> QED
    BY <1>3, <1>6, <1>9, <2>1, QuietWay DEF Quiet
<1>10. CASE /\ pc[o] = "reply" /\ call[o].kind = "read" /\ n < Len(rx)
            /\ gathered' = [gathered EXCEPT ![o] = @ \o SubSeq(rx, 1, n)]
            /\ pc'[o] = "reply" \/ (pc'[o] = "leave" /\ status'[o] = "failed")
  <2> DEFINE g == gathered[o]
             h == gathered'[o]
  <2>1. /\ Answer(rx, o, calls[o], Len(g)) /\ \A i \in DOMAIN g : g[i].k = i
    BY <1>2, <1>10 DEF ReplyInv
  <2>2. /\ g \in Seq(Items) /\ h = g \o SubSeq(rx, 1, n)
    BY <1>5, <1>10
  <2>3. /\ h \in Seq(Items) /\ Len(h) = Len(g) + n /\ Len(g) \in Nat
        /\ \A i \in 1 .. Len(g) : h[i] = g[i]
        /\ \A i \in 1 .. n : h[Len(g) + i] = rx[i]
    <3> DEFINE c == SubSeq(rx, 1, n)
    <3>1. c \in Seq(Items) /\ Len(c) = n /\ \A i \in 1 .. n : c[i] = rx[i]
      BY <1>5
    <3>2. h = g \o c
      BY <2>2
    <3> HIDE DEF c, h, g
    <3> QED
      BY <2>2, <3>1, <3>2, <1>5
  <2>4. /\ Len(rx') = Len(rx) - n /\ \A i \in 1 .. Len(rx) - n : rx'[i] = rx[n + i]
    BY <1>1, <1>5, <1>10
  <2> HIDE DEF g, h
  <2>5. \A i \in 1 .. Len(rx) - 1 : rx[i] = Piece(o, calls[o], Len(g) + i)
    BY <2>1 DEF Answer
  <2>6. rx[Len(rx)] = Mark(o, calls[o], "eot")
    BY <1>2, <2>1 DEF Answer
  <2>7. Answer(rx', o, calls[o], Len(h))
    <3>1. ASSUME NEW i \in 1 .. Len(rx') - 1 PROVE rx'[i] = Piece(o, calls[o], Len(h) + i)
      <4>1. n + i \in 1 .. Len(rx) - 1 /\ i \in 1 .. Len(rx) - n /\ Len(g) + (n + i) = Len(h) + i
        BY <1>5, <1>10, <2>3, <2>4
      <4>2. rx'[i] = rx[n + i] /\ rx[n + i] = Piece(o, calls[o], Len(g) + (n + i))
        BY <2>4, <2>5, <4>1
      <4> QED
        BY <4>1, <4>2
    <3>2. rx'[Len(rx')] = Mark(o, calls[o], "eot")
      <4>1. Len(rx') \in 1 .. Len(rx) - n /\ n + Len(rx') = Len(rx)
        BY <1>5, <1>10, <2>4
      <4> QED
        BY <2>4, <2>6, <4>1
    <3> QED
      BY <3>1, <3>2 DEF Answer
  <2>8. \A i \in DOMAIN h : h[i].k = i
    <3> SUFFICES ASSUME NEW i \in DOMAIN h PROVE h[i].k = i
      OBVIOUS
    <3>1. i \in 1 .. Len(g) + n
      BY <2>3
    <3>2. CASE i \in 1 .. Len(g)
      BY <2>1, <2>2, <2>3, <3>2
    <3>3. CASE i \notin 1 .. Len(g)
      <4>1. i - Len(g) \in 1 .. n /\ Len(g) + (i - Len(g)) = i /\ i - Len(g) \in 1 .. Len(rx) - 1
        BY <1>5, <1>10, <2>3, <3>1, <3>3
      <4>2. h[i] = Piece(o, calls[o], i)
        BY <2>3, <2>5, <4>1
      <4> QED
        BY <4>2 DEF Piece
    <3> QED
      BY <3>2, <3>3
  <2>9. ReplyInv(o)'
    BY <1>1, <1>3, <1>10, <2>7, <2>8 DEF ReplyInv, h
  <2>10. CASE pc'[o] = "reply"
    BY <1>4, <2>9, <2>10 DEF OnItsWay
  <2> QED
    BY <1>8, <1>10, <2>10
<1>11. pc[o] = "reply" => call[o].kind \in {"read", "spoll"}
  BY DEF StepInv, Answered
<1>12. pc[o] = "reply" /\ call[o].kind = "spoll" => n = Len(rx) /\ pc'[o] = "leave"
  BY <1>2
<1> QED
  BY <1>1, <1>2, <1>7, <1>8, <1>9, <1>10, <1>11, <1>12 DEF Reads

\* Nothing is on its way but what the active owner waits for.
LEMMA WayStep ==
    ASSUME SettingInv, AnswerInv, connection = "tcp", [Next]_vars
    PROVE  OnItsWay'
<1> USE NoneAssumption DEF controllerVars, callVars, bufferVars, ioVars, adapterVars
<1>0. CallerTypes /\ BufferTypes /\ GateInv /\ StrandInv /\ AdapterTypes /\ ReadyInv /\ Trusted /\ StepInv
      /\ (\A i \in DOMAIN todo : todo[i].conn <= conn) /\ OnItsWay /\ GatheredInv /\ connection = "tcp"
  BY DEF SettingInv, AnswerInv
<1>p. \A x \in Owners : x # active_owner => pc[x] \notin Inside
  BY <1>0, OthersOutside
<1>q. \A x \in Owners : (pc[x] # "idle" => call[x] \in Calls) /\ (None \notin Owners)
  BY <1>0, NoneAssumption DEF CallerTypes
<1>1. ASSUME NEW o \in Owners, NEW c \in NextCalls(o), Call(o, c) PROVE OnItsWay'
  <2>1. UNCHANGED <<todo, conn, rx>> /\ stream' = stream
    BY <1>1 DEF Call
  <2>2. Doubt => Doubt'
    BY <1>0, <1>1 DEF Call, Doubt, CallerTypes, GateInv, Inside
  <2>3. \A x \in Owners :
           /\ pc'[x] = "version" <=> pc[x] = "version"
           /\ pc'[x] = "reply" <=> pc[x] = "reply"
    BY <1>0, <1>1 DEF Call, CallerTypes
  <2>4. \A x \in Owners :
           pc[x] = "reply" => call'[x] = call[x] /\ calls'[x] = calls[x] /\ gathered'[x] = gathered[x]
    BY <1>0, <1>1 DEF Call, CallerTypes, BufferTypes
  <2>5. ~Doubt \/ Doubt'
    BY <2>2
  <2>6. OnItsWay
    BY <1>0
  <2>7. SameReaders
    BY <2>3, <2>4 DEF SameReaders
  <2> QED
    BY <2>1, <2>5, <2>6, <2>7, WayKept
<1>2. ASSUME NEW o \in Owners, Refused(o) PROVE OnItsWay'
  <2>1. UNCHANGED <<todo, conn, rx>> /\ stream' = stream
    BY <1>2 DEF Refused
  <2>2. Doubt => Doubt'
    BY <1>0, <1>2 DEF Refused, Doubt, CallerTypes, GateInv, Inside
  <2>3. \A x \in Owners :
           /\ pc'[x] = "version" <=> pc[x] = "version"
           /\ pc'[x] = "reply" <=> pc[x] = "reply"
    BY <1>0, <1>2 DEF Refused, CallerTypes
  <2>4. \A x \in Owners :
           pc[x] = "reply" => call'[x] = call[x] /\ calls'[x] = calls[x] /\ gathered'[x] = gathered[x]
    BY <1>0, <1>2 DEF Refused, CallerTypes, BufferTypes
  <2>5. ~Doubt \/ Doubt'
    BY <2>2
  <2>6. OnItsWay
    BY <1>0
  <2>7. SameReaders
    BY <2>3, <2>4 DEF SameReaders
  <2> QED
    BY <2>1, <2>5, <2>6, <2>7, WayKept
<1>3. ASSUME NEW o \in Owners, Sleep(o) PROVE OnItsWay'
  <2>1. UNCHANGED <<todo, conn, rx>> /\ stream' = stream
    BY <1>3 DEF Sleep
  <2>2. Doubt => Doubt'
    BY <1>0, <1>3 DEF Sleep, Doubt, CallerTypes, GateInv, Inside
  <2>3. \A x \in Owners :
           /\ pc'[x] = "version" <=> pc[x] = "version"
           /\ pc'[x] = "reply" <=> pc[x] = "reply"
    BY <1>0, <1>3 DEF Sleep, CallerTypes
  <2>4. \A x \in Owners :
           pc[x] = "reply" => call'[x] = call[x] /\ calls'[x] = calls[x] /\ gathered'[x] = gathered[x]
    BY <1>0, <1>3 DEF Sleep, CallerTypes, BufferTypes
  <2>5. ~Doubt \/ Doubt'
    BY <2>2
  <2>6. OnItsWay
    BY <1>0
  <2>7. SameReaders
    BY <2>3, <2>4 DEF SameReaders
  <2> QED
    BY <2>1, <2>5, <2>6, <2>7, WayKept
<1>4. ASSUME NEW o \in Owners, Enter(o) PROVE OnItsWay'
  <2>1. /\ active_owner = None /\ pc[o] = "gate" /\ call[o] \in Calls
        /\ \A x \in Owners : x # o => pc'[x] = pc[x]
        /\ UNCHANGED <<call, calls, gathered, todo, conn>>
    BY <1>0, <1>q, <1>4, EnterFacts
  <2>2. pc'[o] \notin {"version", "reply"}
    BY <1>0, <2>1, <1>4, EnterFacts, StepFacts
  <2>3. stream' => UNCHANGED <<stream, rx>>
    BY <1>0, <1>4, EnterFacts DEF Invalidate
  <2>4. ~Doubt
    BY <2>1, NoDoubt
  <2>5. CASE stream'
    BY <1>0, <2>1, <2>2, <2>3, <2>4, <2>5, WayKept DEF SameReaders
  <2>6. CASE ~stream'
    BY <2>6 DEF OnItsWay
  <2> QED
    BY <2>5, <2>6
<1>5. ASSUME NEW o \in Owners, Leave(o) PROVE OnItsWay'
  <2>1. /\ pc[o] = "leave" /\ pc' = [pc EXCEPT ![o] = "release"]
        /\ UNCHANGED <<active_owner, call, calls, gathered, todo, conn>>
        /\ \/ stream' = FALSE
           \/ status[o] # "failed" /\ UNCHANGED <<stream, rx>>
    BY <1>5 DEF Leave, Invalidate, GiveUp
  <2>2. CASE stream' = FALSE
    BY <2>2 DEF OnItsWay
  <2>3. CASE status[o] # "failed" /\ UNCHANGED <<stream, rx>>
    <3>1. ~Doubt
      BY <1>0, <1>5, <2>3 DEF Doubt, Leave, GateInv, Inside
    <3>2. \A x \in Owners :
             /\ pc'[x] = "version" <=> pc[x] = "version"
             /\ pc'[x] = "reply" <=> pc[x] = "reply"
      BY <1>0, <2>1 DEF CallerTypes
    <3> QED
      BY <1>0, <2>1, <2>3, <3>1, <3>2, WayKept DEF SameReaders
  <2> QED
    BY <2>1, <2>2, <2>3
<1>6. ASSUME NEW o \in Owners, Release(o) PROVE OnItsWay'
  <2>1. UNCHANGED <<todo, conn, rx>> /\ stream' = stream
    BY <1>6 DEF Release
  <2>2. Doubt => Doubt'
    BY <1>0, <1>6 DEF Release, Doubt, CallerTypes, GateInv, Inside, Return, Wake
  <2>3. \A x \in Owners :
           /\ pc'[x] = "version" <=> pc[x] = "version"
           /\ pc'[x] = "reply" <=> pc[x] = "reply"
    BY <1>0, <1>6 DEF Release, CallerTypes, Return, Wake
  <2>4. \A x \in Owners :
           pc[x] = "reply" => call'[x] = call[x] /\ calls'[x] = calls[x] /\ gathered'[x] = gathered[x]
    BY <1>0, <1>6 DEF Release, CallerTypes, BufferTypes, Return, Wake
  <2>5. ~Doubt \/ Doubt'
    BY <2>2
  <2>6. OnItsWay
    BY <1>0
  <2>7. SameReaders
    BY <2>3, <2>4 DEF SameReaders
  <2> QED
    BY <2>1, <2>5, <2>6, <2>7, WayKept
<1>7. ASSUME NEW o \in Owners, ReturnRefused(o) PROVE OnItsWay'
  <2>1. UNCHANGED <<todo, conn, rx>> /\ stream' = stream
    BY <1>7 DEF ReturnRefused
  <2>2. Doubt => Doubt'
    BY <1>0, <1>7 DEF ReturnRefused, Doubt, CallerTypes, GateInv, Inside, Return
  <2>3. \A x \in Owners :
           /\ pc'[x] = "version" <=> pc[x] = "version"
           /\ pc'[x] = "reply" <=> pc[x] = "reply"
    BY <1>0, <1>7 DEF ReturnRefused, CallerTypes, Return
  <2>4. \A x \in Owners :
           pc[x] = "reply" => call'[x] = call[x] /\ calls'[x] = calls[x] /\ gathered'[x] = gathered[x]
    BY <1>0, <1>7 DEF ReturnRefused, CallerTypes, BufferTypes, Return
  <2>5. ~Doubt \/ Doubt'
    BY <2>2
  <2>6. OnItsWay
    BY <1>0
  <2>7. SameReaders
    BY <2>3, <2>4 DEF SameReaders
  <2> QED
    BY <2>1, <2>5, <2>6, <2>7, WayKept
<1>8. ASSUME NEW o \in Owners, RunHandler(o) PROVE OnItsWay'
  <2>1. UNCHANGED <<todo, conn, rx>> /\ stream' = stream
    BY <1>8 DEF RunHandler
  <2>2. Doubt => Doubt'
    BY <1>0, <1>8 DEF RunHandler, Doubt, CallerTypes, GateInv, Inside
  <2>3. \A x \in Owners :
           /\ pc'[x] = "version" <=> pc[x] = "version"
           /\ pc'[x] = "reply" <=> pc[x] = "reply"
    BY <1>0, <1>8 DEF RunHandler, CallerTypes
  <2>4. \A x \in Owners :
           pc[x] = "reply" => call'[x] = call[x] /\ calls'[x] = calls[x] /\ gathered'[x] = gathered[x]
    BY <1>0, <1>8 DEF RunHandler, CallerTypes, BufferTypes
  <2>5. ~Doubt \/ Doubt'
    BY <2>2
  <2>6. OnItsWay
    BY <1>0
  <2>7. SameReaders
    BY <2>3, <2>4 DEF SameReaders
  <2> QED
    BY <2>1, <2>5, <2>6, <2>7, WayKept
<1>9. ASSUME NEW o \in Owners, Look(o) PROVE OnItsWay'
  <2>1. UNCHANGED <<todo, conn, rx>> /\ stream' = stream
    BY <1>9 DEF Look
  <2>2. Doubt => Doubt'
    BY <1>0, <1>9 DEF Look, Doubt, CallerTypes, GateInv, Inside, Wake
  <2>3. \A x \in Owners :
           /\ pc'[x] = "version" <=> pc[x] = "version"
           /\ pc'[x] = "reply" <=> pc[x] = "reply"
    BY <1>0, <1>9 DEF Look, CallerTypes, Wake
  <2>4. \A x \in Owners :
           pc[x] = "reply" => call'[x] = call[x] /\ calls'[x] = calls[x] /\ gathered'[x] = gathered[x]
    BY <1>0, <1>9 DEF Look, CallerTypes, BufferTypes, Wake
  <2>5. ~Doubt \/ Doubt'
    BY <2>2
  <2>6. OnItsWay
    BY <1>0
  <2>7. SameReaders
    BY <2>3, <2>4 DEF SameReaders
  <2> QED
    BY <2>1, <2>5, <2>6, <2>7, WayKept
<1>10. ASSUME NEW o \in Owners, MarkReconnect(o) PROVE OnItsWay'
  <2>1. UNCHANGED <<todo, conn, rx>> /\ stream' = stream
    BY <1>10 DEF MarkReconnect
  <2>2. Doubt => Doubt'
    BY <1>0, <1>10 DEF MarkReconnect, Doubt, CallerTypes, GateInv, Inside
  <2>3. \A x \in Owners :
           /\ pc'[x] = "version" <=> pc[x] = "version"
           /\ pc'[x] = "reply" <=> pc[x] = "reply"
    BY <1>0, <1>10 DEF MarkReconnect, CallerTypes
  <2>4. \A x \in Owners :
           pc[x] = "reply" => call'[x] = call[x] /\ calls'[x] = calls[x] /\ gathered'[x] = gathered[x]
    BY <1>0, <1>10 DEF MarkReconnect, CallerTypes, BufferTypes
  <2>5. ~Doubt \/ Doubt'
    BY <2>2
  <2>6. OnItsWay
    BY <1>0
  <2>7. SameReaders
    BY <2>3, <2>4 DEF SameReaders
  <2> QED
    BY <2>1, <2>5, <2>6, <2>7, WayKept
<1>11. ASSUME NEW o \in Owners, CancelIo(o) PROVE OnItsWay'
  <2>1. UNCHANGED <<todo, conn, rx>> /\ stream' = stream
    BY <1>11 DEF CancelIo
  <2>2. Doubt => Doubt'
    BY <1>0, <1>11 DEF CancelIo, Doubt, CallerTypes, GateInv, Inside
  <2>3. \A x \in Owners :
           /\ pc'[x] = "version" <=> pc[x] = "version"
           /\ pc'[x] = "reply" <=> pc[x] = "reply"
    BY <1>0, <1>11 DEF CancelIo, CallerTypes
  <2>4. \A x \in Owners :
           pc[x] = "reply" => call'[x] = call[x] /\ calls'[x] = calls[x] /\ gathered'[x] = gathered[x]
    BY <1>0, <1>11 DEF CancelIo, CallerTypes, BufferTypes
  <2>5. ~Doubt \/ Doubt'
    BY <2>2
  <2>6. OnItsWay
    BY <1>0
  <2>7. SameReaders
    BY <2>3, <2>4 DEF SameReaders
  <2> QED
    BY <2>1, <2>5, <2>6, <2>7, WayKept
<1>12. ASSUME NEW o \in Owners, Start(o) PROVE OnItsWay'
  <2>1. /\ active_owner = o /\ active_owner' = o /\ pc[o] \in Requests
        /\ UNCHANGED <<call, calls, gathered, todo, conn, stream, rx>>
    BY <1>0, <1>12, StartFacts
  <2>2. ~Doubt
    BY <2>1, NoDoubt DEF Requests, Writes, Reads
  <2>3. CASE pc'[o] = "leave" /\ status'[o] = "failed"
    BY <2>1, <2>3, FailedDoubt, DoubtWay
  <2>4. CASE UNCHANGED <<pc, status>>
    BY <1>0, <2>1, <2>2, <2>4, WayKept DEF SameReaders
  <2> QED
    BY <1>0, <1>12, <2>3, <2>4, StartFacts
<1>13. ASSUME NEW o \in Owners, Connected(o) PROVE OnItsWay'
  <2>1. /\ active_owner = o /\ active_owner' = o /\ rx' = <<>> /\ conn' = conn + 1 /\ todo' \in {todo, <<>>}
        /\ \A x \in Owners : x # o => pc'[x] = pc[x]
        /\ pc'[o] = "init" \/ (pc'[o] = "leave" /\ status'[o] = "failed")
    BY <1>0, <1>13, ConnectedFacts DEF Moved
  <2>2. CASE pc'[o] = "leave" /\ status'[o] = "failed"
    BY <2>1, <2>2, FailedDoubt, DoubtWay
  <2>3. CASE pc'[o] = "init"
    <3>1. Asked' = {}
      <4>1. conn \in Nat /\ todo \in Seq(Commands)
        BY <1>0 DEF AdapterTypes
      <4>2. \A i \in DOMAIN todo : todo[i].conn # conn + 1
        <5>1. ASSUME NEW i \in DOMAIN todo PROVE todo[i].conn \in Nat
          <6>1. todo[i] \in Commands
            BY <4>1
          <6> QED
            BY <6>1 DEF Commands
        <5> QED
          BY <1>0, <4>1, <5>1
      <4>3. CASE todo' = todo
        BY <2>1, <4>2, <4>3 DEF Asked
      <4>4. CASE todo' = <<>>
        BY <4>4 DEF Asked
      <4> QED
        BY <2>1, <4>3, <4>4
    <3>2. \A x \in Owners : pc'[x] \notin {"version", "reply"}
      BY <1>0, <2>1, <2>3, NobodyReads
    <3> QED
      BY <2>1, <3>1, <3>2, QuietWay DEF Quiet
  <2> QED
    BY <2>1, <2>2, <2>3
<1>14. ASSUME NEW o \in Owners, Written(o) PROVE OnItsWay'
  <2> DEFINE a == IF pc[o] = "addr" THEN Address[o] ELSE current_address
             e == IF pc[o] = "eoi" THEN call[o].end ELSE current_send_end
  <2>1. /\ active_owner = o /\ active_owner' = o /\ pc[o] \in Writes /\ stream /\ call[o] \in Calls
        /\ todo' = Received(o) /\ UNCHANGED <<call, calls, gathered, rx, conn>>
        /\ \A x \in Owners : x # o => pc'[x] = pc[x]
    BY <1>0, <1>14, WrittenFacts DEF Moved
  <2>2. \/ pc'[o] = "leave" /\ status'[o] = "failed"
        \/ pc'[o] = (IF pc[o] = "init" THEN "version" ELSE StepAfter(o, pc[o], a, e))
    BY <1>0, <1>14, WrittenFacts
  <2>3. ~Doubt
    BY <2>1, NoDoubt DEF Writes
  <2>4. \A x \in Owners : x # o => pc'[x] \notin {"version", "reply"} /\ pc[x] \notin {"version", "reply"}
    BY <1>0, <2>1, NobodyReads
  <2>5. rx = <<>> /\ Asked = {}
    BY <1>0, <2>1, <2>3, <2>4 DEF OnItsWay, Writes
  <2>6. CASE pc'[o] = "leave" /\ status'[o] = "failed"
    BY <2>1, <2>6, FailedDoubt, DoubtWay
  <2>7. CASE pc'[o] = (IF pc[o] = "init" THEN "version" ELSE StepAfter(o, pc[o], a, e))
    <3>1. /\ pc[o] = "init" => pc'[o] = "version"
          /\ pc[o] \in {"addr", "eoi"} => pc'[o] \notin {"version", "reply"}
          /\ pc[o] = "command" => pc'[o] \in {"leave", "reply"} /\ (pc'[o] = "reply" <=> Answered(o))
      <4> HIDE DEF a, e
      <4> QED
        BY <2>1, <2>7, StepFacts
    <3>2. \A i : i \in Asked' <=> /\ linked /\ i = Len(todo) + 1
                                  /\ Command(o).kind \in {"init", "spoll", "read"}
      <4>1. CASE linked
        BY <1>0, <2>1, <2>5, <4>1, AskedReceived
      <4>2. CASE ~linked
        BY <2>1, <2>5, <4>2 DEF Received, Asked
      <4> QED
        BY <4>1, <4>2
    <3>3. /\ linked => /\ Command(o).kind = (IF pc[o] = "command" THEN call[o].kind ELSE pc[o])
                       /\ Command(o).owner = o /\ Command(o).call = calls[o]
                       /\ todo'[Len(todo) + 1] = Command(o)
          /\ call[o].kind # "init" /\ gathered[o] = <<>>
      <4>1. call[o].kind # "init"
        BY <2>1 DEF Calls, CallKinds
      <4>2. gathered[o] = <<>>
        BY <1>0, <2>1 DEF GatheredInv, Writes
      <4> QED
        BY <1>0, <2>1, <4>1, <4>2, ReceivedFacts
    <3>4. CASE pc[o] = "init"
      <4>1. VersionInv'
        BY <2>1, <2>5, <3>2, <3>3, <3>4 DEF VersionInv
      <4> QED
        BY <2>4, <3>1, <3>4, <4>1 DEF OnItsWay
    <3>5. CASE pc'[o] \notin {"version", "reply"}
      <4>1. Asked' = {}
        BY <2>1, <3>1, <3>2, <3>3, <3>5 DEF Writes, Answered
      <4> QED
        BY <2>1, <2>4, <2>5, <3>5, <4>1, QuietWay DEF Quiet
    <3>6. CASE pc'[o] = "reply"
      <4>1. pc[o] = "command" /\ Answered(o)
        BY <2>1, <3>1, <3>6 DEF Writes
      <4>2. ReplyInv(o)'
        <5>1. /\ rx' = <<>> /\ gathered'[o] = <<>> /\ call'[o] = call[o] /\ calls'[o] = calls[o]
          BY <2>1, <2>5, <3>3
        <5>2. \A i \in Asked' : todo'[i].kind = call[o].kind /\ todo'[i].owner = o /\ todo'[i].call = calls[o]
          BY <3>2, <3>3, <4>1
        <5>3. \A i, j \in Asked' : i = j
          BY <3>2
        <5>4. Answer(rx', o, calls'[o], Len(gathered'[o]))
          BY <5>1 DEF Answer
        <5> QED
          BY <5>1, <5>2, <5>3, <5>4 DEF ReplyInv
      <4> QED
        BY <2>4, <3>6, <4>2 DEF OnItsWay
    <3> QED
      BY <2>1, <3>1, <3>4, <3>5, <3>6 DEF Writes
  <2> QED
    BY <2>2, <2>6, <2>7
<1>15. ASSUME NEW o \in Owners, RequestFails(o) PROVE OnItsWay'
  BY <1>0, <1>15, RequestFailsFacts, FailedDoubt, DoubtWay
<1>16. ASSUME NEW o \in Owners, NEW n \in 1 .. Len(rx), ReadSome(o, n) PROVE OnItsWay'
  BY <1>0, <1>16, WayRead
<1>17. ASSUME NEW o \in Owners, Timeout(o) PROVE OnItsWay'
  <2>1. UNCHANGED <<call, calls, gathered, todo, conn, stream, rx, active_owner>>
    BY <1>0, <1>17, TimeoutFacts
  <2>2. CASE active_owner = o /\ pc'[o] = "leave" /\ status'[o] = "failed"
    BY <2>1, <2>2, FailedDoubt, DoubtWay
  <2>3. CASE (pc' = pc \/ (pc[o] = "asleep" /\ pc' = [pc EXCEPT ![o] = "gate"])) /\ status' = status
    <3>1. Doubt => Doubt'
      BY <1>0, <2>1, <2>3 DEF Doubt, CallerTypes
    <3>2. \A x \in Owners :
             /\ pc'[x] = "version" <=> pc[x] = "version"
             /\ pc'[x] = "reply" <=> pc[x] = "reply"
      BY <1>0, <2>3 DEF CallerTypes
    <3>3. ~Doubt \/ Doubt'
      BY <3>1
    <3>4. OnItsWay
      BY <1>0
    <3>5. SameReaders
      BY <2>1, <3>2 DEF SameReaders
    <3> QED
      BY <2>1, <3>3, <3>4, <3>5, WayKept
  <2> QED
    BY <1>0, <1>17, <2>2, <2>3, TimeoutFacts
<1>18. ASSUME NEW o \in Owners, Terminate(o) PROVE OnItsWay'
  <2>1. UNCHANGED <<todo, conn, rx>> /\ stream' = stream
    BY <1>18 DEF Terminate
  <2>2. Doubt => Doubt'
    BY <1>0, <1>18 DEF Terminate, Doubt, CallerTypes, GateInv, Inside
  <2>3. \A x \in Owners :
           /\ pc'[x] = "version" <=> pc[x] = "version"
           /\ pc'[x] = "reply" <=> pc[x] = "reply"
    BY <1>0, <1>18 DEF Terminate, CallerTypes
  <2>4. \A x \in Owners :
           pc[x] = "reply" => call'[x] = call[x] /\ calls'[x] = calls[x] /\ gathered'[x] = gathered[x]
    BY <1>0, <1>18 DEF Terminate, CallerTypes, BufferTypes
  <2>5. ~Doubt \/ Doubt'
    BY <2>2
  <2>6. OnItsWay
    BY <1>0
  <2>7. SameReaders
    BY <2>3, <2>4 DEF SameReaders
  <2> QED
    BY <2>1, <2>5, <2>6, <2>7, WayKept
<1>19. ASSUME NEW o \in Owners, Close(o) PROVE OnItsWay'
  <2>1. UNCHANGED <<todo, conn, rx>> /\ stream' = stream
    BY <1>19 DEF Close
  <2>2. Doubt => Doubt'
    BY <1>0, <1>19 DEF Close, Doubt, CallerTypes, GateInv, Inside
  <2>3. \A x \in Owners :
           /\ pc'[x] = "version" <=> pc[x] = "version"
           /\ pc'[x] = "reply" <=> pc[x] = "reply"
    BY <1>0, <1>19 DEF Close, CallerTypes
  <2>4. \A x \in Owners :
           pc[x] = "reply" => call'[x] = call[x] /\ calls'[x] = calls[x] /\ gathered'[x] = gathered[x]
    BY <1>0, <1>19 DEF Close, CallerTypes, BufferTypes
  <2>5. ~Doubt \/ Doubt'
    BY <2>2
  <2>6. OnItsWay
    BY <1>0
  <2>7. SameReaders
    BY <2>3, <2>4 DEF SameReaders
  <2> QED
    BY <2>1, <2>5, <2>6, <2>7, WayKept
<1>20. CASE Interrupt
  <2>1. UNCHANGED <<call, calls, gathered, conn, active_owner>>
    BY <1>0, <1>20, InterruptFacts
  <2>2. CASE active_owner \in Owners /\ pc'[active_owner] = "leave" /\ status'[active_owner] = "failed"
    BY <2>1, <2>2, FailedDoubt, DoubtWay
  <2>3. CASE UNCHANGED <<pc, status, io, todo>>
    <3>1. CASE stream' = FALSE
      BY <3>1 DEF OnItsWay
    <3>2. CASE UNCHANGED <<stream, rx>>
      BY <1>0, <2>1, <2>3, <3>2, WayKept DEF Doubt, SameReaders
    <3> QED
      BY <1>0, <1>20, <3>1, <3>2, InterruptFacts
  <2> QED
    BY <1>0, <1>20, <2>2, <2>3, InterruptFacts
<1>21. CASE Execute
  BY <1>0, <1>21, WayExecute
<1>22. CASE Restart
  <2>1. todo' = <<>> /\ UNCHANGED <<active_owner, pc, status, call, calls, gathered, rx, stream, conn>>
    BY <1>22 DEF Restart
  <2>2. Asked' = {} /\ Doubt' = Doubt
    BY <2>1 DEF Asked, Doubt
  <2>3. ASSUME NEW o \in Owners, stream, ~Doubt, pc[o] = "version" PROVE VersionInv'
    BY <1>0, <2>1, <2>2, <2>3 DEF OnItsWay, VersionInv
  <2>4. ASSUME NEW o \in Owners, stream, ~Doubt, pc[o] = "reply" PROVE ReplyInv(o)'
    BY <1>0, <2>1, <2>2, <2>4 DEF OnItsWay, ReplyInv, Answer
  <2> QED
    BY <1>0, <2>1, <2>2, <2>3, <2>4 DEF OnItsWay
<1>23. CASE UNCHANGED vars
  <2>1. UNCHANGED <<todo, conn, rx>> /\ stream' = stream
    BY <1>23 DEF vars
  <2>2. Doubt => Doubt'
    BY <1>0, <1>23 DEF vars, Doubt, CallerTypes, GateInv, Inside
  <2>3. \A x \in Owners :
           /\ pc'[x] = "version" <=> pc[x] = "version"
           /\ pc'[x] = "reply" <=> pc[x] = "reply"
    BY <1>0, <1>23 DEF vars, CallerTypes
  <2>4. \A x \in Owners :
           pc[x] = "reply" => call'[x] = call[x] /\ calls'[x] = calls[x] /\ gathered'[x] = gathered[x]
    BY <1>0, <1>23 DEF vars, CallerTypes, BufferTypes
  <2>5. ~Doubt \/ Doubt'
    BY <2>2
  <2>6. OnItsWay
    BY <1>0
  <2>7. SameReaders
    BY <2>3, <2>4 DEF SameReaders
  <2> QED
    BY <2>1, <2>5, <2>6, <2>7, WayKept
<1> QED
  BY <1>1, <1>2, <1>3, <1>4, <1>5, <1>6, <1>7, <1>8, <1>9, <1>10, <1>11, <1>12, <1>13, <1>14,
     <1>15, <1>16, <1>17, <1>18, <1>19, <1>20, <1>21, <1>22, <1>23 DEF Next, Thread, Cancel

-----------------------------------------------------------------------------
\* What one caller has gathered does not depend on the others.
GatheredOf(o) ==
    /\ pc[o] \notin {"reply", "leave", "release"} => gathered[o] = <<>>
    /\ status[o] = "ok" => Run(gathered[o], o, calls[o])

\* A step of one caller leaves what the others have gathered.
LEMMA GatheredKept ==
    ASSUME GatheredInv, NEW o \in Owners, GatheredOf(o)',
           \A x \in Owners : x # o => /\ gathered'[x] = gathered[x] /\ calls'[x] = calls[x]
                                      /\ status'[x] = status[x]
                                      /\ pc'[x] \notin {"reply", "leave", "release"} =>
                                             pc[x] \notin {"reply", "leave", "release"}
    PROVE  GatheredInv'
<1>1. ASSUME NEW x \in Owners, x # o PROVE GatheredOf(x)'
  BY <1>1 DEF GatheredInv, GatheredOf
<1> QED
  BY <1>1 DEF GatheredInv, GatheredOf

\* A caller that has gathered nothing has gathered nothing wrong.
LEMMA NothingGathered ==
    ASSUME NEW o \in Owners, gathered'[o] = <<>>
    PROVE  GatheredOf(o)'
BY DEF GatheredOf, Run

\* Two sequences, one after the other.
LEMMA Joined ==
    ASSUME NEW S, NEW q \in Seq(S), NEW r \in Seq(S)
    PROVE  /\ q \o r \in Seq(S) /\ Len(q \o r) = Len(q) + Len(r) /\ Len(q) \in Nat
           /\ \A i \in 1 .. Len(q) : (q \o r)[i] = q[i]
           /\ \A i \in 1 .. Len(r) : (q \o r)[Len(q) + i] = r[i]
OBVIOUS

\* What is read from the input is gathered in order.
LEMMA GatheredRead ==
    ASSUME CallerTypes, BufferTypes, AdapterTypes, GateInv, StrandInv, StepInv, OnItsWay, GatheredInv,
           connection = "tcp", NEW o \in Owners, NEW n \in 1 .. Len(rx), ReadSome(o, n)
    PROVE  GatheredInv'
<1>1. /\ active_owner = o /\ pc[o] \in Reads /\ UNCHANGED <<call, calls>>
      /\ \A x \in Owners : x # o => pc'[x] = pc[x] /\ status'[x] = status[x]
      /\ (pc'[o] = "leave" /\ status'[o] = "failed") \/ status' = status
      /\ pc[o] = "reply" => pc'[o] \in {"reply", "leave"}
  BY ReadSomeFacts DEF Moved
<1>2. /\ rx # <<>> /\ (pc[o] = "reply" => ReplyInv(o))
      /\ pc[o] = "version" => gathered' = gathered
      /\ pc[o] = "reply" /\ call[o].kind = "spoll" =>
            gathered' \in {gathered, [gathered EXCEPT ![o] = <<Mark(o, calls[o], "lf")>>]}
      /\ pc[o] = "reply" /\ call[o].kind = "read" =>
            \/ gathered' = gathered
            \/ n = Len(rx) /\ gathered' = [gathered EXCEPT ![o] = @ \o SubSeq(rx, 1, n - 1)]
            \/ n < Len(rx) /\ gathered' = [gathered EXCEPT ![o] = @ \o SubSeq(rx, 1, n)]
  BY ReadOutcome
<1>3. rx \in Seq(Items) /\ n \in Nat /\ 1 <= n /\ n <= Len(rx) /\ gathered \in [Owners -> Seq(Items)]
  BY DEF BufferTypes
<1>4. \A x \in Owners : x # o => gathered'[x] = gathered[x]
  BY <1>1, <1>2, <1>3 DEF Reads, StepInv, Answered
<1>5. GatheredOf(o) /\ (status'[o] = "ok" => status[o] = "ok")
  BY <1>1 DEF GatheredInv, GatheredOf
<1>6. GatheredOf(o)'
  <2>1. CASE pc[o] = "version"
    BY <1>2, <1>5, <2>1, NothingGathered DEF GatheredOf
  <2>2. CASE pc[o] = "reply" /\ gathered' = gathered
    BY <1>1, <1>5, <2>2 DEF GatheredOf
  <2>3. CASE pc[o] = "reply" /\ gathered' = [gathered EXCEPT ![o] = <<Mark(o, calls[o], "lf")>>]
    <3> DEFINE m == Mark(o, calls[o], "lf")
    <3>1. gathered'[o] = <<m>> /\ m.owner = o /\ m.call = calls[o]
      BY <1>3, <2>3 DEF Mark
    <3> HIDE DEF m
    <3>2. Run(gathered'[o], o, calls[o])
      BY <3>1 DEF Run
    <3> QED
      BY <1>1, <2>3, <3>2 DEF GatheredOf
  <2>4. ASSUME NEW m \in Nat, m <= Len(rx) - 1, pc[o] = "reply", call[o].kind = "read",
               gathered' = [gathered EXCEPT ![o] = @ \o SubSeq(rx, 1, m)]
        PROVE  GatheredOf(o)'
    <3> DEFINE g == gathered[o]
               h == gathered'[o]
               c == SubSeq(rx, 1, m)
    <3>1. Answer(rx, o, calls[o], Len(g)) /\ \A i \in DOMAIN g : g[i].k = i
      BY <1>2, <2>4 DEF ReplyInv
    <3>2. g \in Seq(Items) /\ h = g \o c
      BY <1>3, <2>4
    <3>3. c \in Seq(Items) /\ Len(c) = m /\ \A i \in 1 .. m : c[i] = rx[i]
      BY <1>3, <2>4
    <3> HIDE DEF g, h, c
    <3>4. /\ h \in Seq(Items) /\ Len(h) = Len(g) + m /\ Len(g) \in Nat
          /\ \A i \in 1 .. Len(g) : h[i] = g[i]
          /\ \A i \in 1 .. m : h[Len(g) + i] = c[i]
      <4>1. g \in Seq(Items) /\ c \in Seq(Items)
        BY <3>2, <3>3
      <4>2. /\ g \o c \in Seq(Items) /\ Len(g \o c) = Len(g) + Len(c) /\ Len(g) \in Nat
            /\ \A i \in 1 .. Len(g) : (g \o c)[i] = g[i]
            /\ \A i \in 1 .. Len(c) : (g \o c)[Len(g) + i] = c[i]
        BY <4>1, Joined
      <4>3. h = g \o c /\ Len(c) = m
        BY <3>2, <3>3
      <4> QED
        BY <4>2, <4>3
    <3>5. \A i \in 1 .. m : h[Len(g) + i] = Piece(o, calls[o], Len(g) + i)
      <4>1. \A i \in 1 .. m : i \in 1 .. Len(rx) - 1
        BY <1>3, <2>4
      <4>2. \A i \in 1 .. Len(rx) - 1 : rx[i] = Piece(o, calls[o], Len(g) + i)
        BY <3>1 DEF Answer
      <4> QED
        BY <3>3, <3>4, <4>1, <4>2
    <3>6. ASSUME status[o] = "ok", NEW i \in DOMAIN h
          PROVE  h[i].owner = o /\ h[i].call = calls[o] /\ h[i].k = i
      <4>1. i \in 1 .. Len(g) + m
        BY <3>4
      <4>2. CASE i \in 1 .. Len(g)
        <5>1. i \in DOMAIN g /\ h[i] = g[i]
          BY <3>2, <3>4, <4>2
        <5>2. Run(g, o, calls[o])
          BY <1>5, <3>6 DEF GatheredOf, g
        <5> QED
          BY <3>1, <5>1, <5>2 DEF Run
      <4>3. CASE i \notin 1 .. Len(g)
        <5>1. i - Len(g) \in 1 .. m /\ Len(g) + (i - Len(g)) = i
          BY <2>4, <3>4, <4>1, <4>3
        <5>2. h[i] = Piece(o, calls[o], i)
          BY <3>5, <5>1
        <5> QED
          BY <5>2 DEF Piece
      <4> QED
        BY <4>2, <4>3
    <3>7. status[o] = "ok" => Run(h, o, calls[o])
      <4> SUFFICES ASSUME status[o] = "ok", NEW i \in DOMAIN h
                   PROVE  /\ h[i].owner = o /\ h[i].call = calls[o]
                          /\ i > 1 => h[i].k = h[i - 1].k + 1
        BY DEF Run
      <4>1. h[i].owner = o /\ h[i].call = calls[o] /\ h[i].k = i
        BY <3>6
      <4>2. i > 1 => i - 1 \in DOMAIN h /\ (i - 1) + 1 = i
        BY <3>4
      <4>3. i > 1 => h[i - 1].k = i - 1
        BY <3>6, <4>2
      <4> QED
        BY <4>1, <4>2, <4>3
    <3> QED
      BY <1>1, <1>5, <2>4, <3>7 DEF GatheredOf, h
  <2>5. CASE n = Len(rx) /\ pc[o] = "reply" /\ call[o].kind = "read"
             /\ gathered' = [gathered EXCEPT ![o] = @ \o SubSeq(rx, 1, n - 1)]
    <3>1. n - 1 \in Nat /\ n - 1 <= Len(rx) - 1
      BY <1>3
    <3> QED
      BY <2>4, <2>5, <3>1
  <2>6. CASE n < Len(rx) /\ pc[o] = "reply" /\ call[o].kind = "read"
             /\ gathered' = [gathered EXCEPT ![o] = @ \o SubSeq(rx, 1, n)]
    <3>1. n \in Nat /\ n <= Len(rx) - 1
      BY <1>3, <2>6
    <3> QED
      BY <2>4, <2>6, <3>1
  <2>7. pc[o] = "reply" => call[o].kind \in {"read", "spoll"}
    BY DEF StepInv, Answered
  <2> QED
    BY <1>1, <1>2, <2>1, <2>2, <2>3, <2>5, <2>6, <2>7 DEF Reads
<1> QED
  BY <1>1, <1>4, <1>6, GatheredKept

\* What a caller has gathered is its own.
LEMMA GatheredStep ==
    ASSUME SettingInv, AnswerInv, connection = "tcp", [Next]_vars
    PROVE  GatheredInv'
<1> USE NoneAssumption DEF controllerVars, callVars, bufferVars, ioVars, adapterVars
<1>0. CallerTypes /\ BufferTypes /\ GateInv /\ StrandInv /\ AdapterTypes /\ ReadyInv /\ Trusted /\ StepInv
      /\ (\A i \in DOMAIN todo : todo[i].conn <= conn) /\ OnItsWay /\ GatheredInv /\ connection = "tcp"
  BY DEF SettingInv, AnswerInv
<1>p. \A x \in Owners : x # active_owner => pc[x] \notin Inside
  BY <1>0, OthersOutside
<1>q. \A x \in Owners : (pc[x] # "idle" => call[x] \in Calls) /\ (None \notin Owners)
  BY <1>0, NoneAssumption DEF CallerTypes
<1>1. ASSUME NEW o \in Owners, NEW c \in NextCalls(o), Call(o, c) PROVE GatheredInv'
  <2>1. /\ gathered' = gathered /\ status' = status /\ calls' = [calls EXCEPT ![o] = @ + 1]
        /\ pc' = pc \/ pc' = [pc EXCEPT ![o] = "gate"]
        /\ gathered[o] = <<>>
    BY <1>0, <1>1 DEF Call, GatheredInv
  <2>2. GatheredOf(o)'
    BY <2>1, NothingGathered
  <2> QED
    BY <1>0, <2>1, <2>2, GatheredKept DEF CallerTypes
<1>2. ASSUME NEW o \in Owners, Refused(o) PROVE GatheredInv'
  <2>1. /\ gathered' = gathered /\ status' = [status EXCEPT ![o] = "failed"] /\ calls' = calls
        /\ pc' = [pc EXCEPT ![o] = "return"] /\ pc[o] = "gate"
    BY <1>2 DEF Refused
  <2>2. GatheredOf(o)'
    BY <1>0, <2>1, NothingGathered DEF GatheredInv
  <2> QED
    BY <1>0, <2>1, <2>2, GatheredKept DEF CallerTypes
<1>3. ASSUME NEW o \in Owners, Sleep(o) PROVE GatheredInv'
  <2>1. /\ gathered' = gathered /\ status' = status /\ calls' = calls
        /\ pc' = [pc EXCEPT ![o] = "asleep"] /\ pc[o] = "gate"
    BY <1>3 DEF Sleep
  <2>2. GatheredOf(o)'
    BY <1>0, <2>1, NothingGathered DEF GatheredInv
  <2> QED
    BY <1>0, <2>1, <2>2, GatheredKept DEF CallerTypes
<1>4. ASSUME NEW o \in Owners, Enter(o) PROVE GatheredInv'
  <2>1. /\ gathered' = gathered /\ calls' = calls /\ pc[o] = "gate"
        /\ \A x \in Owners : x # o => pc'[x] = pc[x] /\ status'[x] = status[x]
    BY <1>0, <1>4, EnterFacts
  <2>2. GatheredOf(o)'
    BY <1>0, <2>1, NothingGathered DEF GatheredInv
  <2> QED
    BY <1>0, <2>1, <2>2, GatheredKept
<1>5. ASSUME NEW o \in Owners, Leave(o) PROVE GatheredInv'
  <2>1. /\ gathered' = gathered /\ calls' = calls /\ pc' = [pc EXCEPT ![o] = "release"]
        /\ status' = [status EXCEPT ![o] = IF op[o] = "completed" THEN "failed" ELSE @]
    BY <1>5 DEF Leave
  <2>2. GatheredOf(o)'
    BY <1>0, <2>1 DEF GatheredInv, GatheredOf, CallerTypes
  <2> QED
    BY <1>0, <2>1, <2>2, GatheredKept DEF CallerTypes
<1>6. ASSUME NEW o \in Owners, Release(o) PROVE GatheredInv'
  <2>1. /\ gathered' = [gathered EXCEPT ![o] = <<>>] /\ status' = [status EXCEPT ![o] = "ok"] /\ calls' = calls
        /\ pc' = Wake([pc EXCEPT ![o] = "idle"])
    BY <1>6 DEF Release, Return
  <2>2. GatheredOf(o)'
    BY <1>0, <2>1, NothingGathered DEF BufferTypes
  <2>3. \A x \in Owners : x # o => /\ gathered'[x] = gathered[x] /\ status'[x] = status[x]
                                   /\ pc'[x] \in {pc[x], "gate"} /\ (pc'[x] = "gate" => pc[x] \in {"asleep", "gate"})
    BY <1>0, <2>1 DEF BufferTypes, CallerTypes, Wake
  <2> QED
    BY <1>0, <2>1, <2>2, <2>3, GatheredKept
<1>7. ASSUME NEW o \in Owners, ReturnRefused(o) PROVE GatheredInv'
  <2>1. /\ gathered' = [gathered EXCEPT ![o] = <<>>] /\ status' = [status EXCEPT ![o] = "ok"] /\ calls' = calls
        /\ pc' = [pc EXCEPT ![o] = "idle"]
    BY <1>7 DEF ReturnRefused, Return
  <2>2. GatheredOf(o)'
    BY <1>0, <2>1, NothingGathered DEF BufferTypes
  <2>3. \A x \in Owners : x # o => gathered'[x] = gathered[x] /\ status'[x] = status[x] /\ pc'[x] = pc[x]
    BY <1>0, <2>1 DEF BufferTypes, CallerTypes
  <2> QED
    BY <1>0, <2>1, <2>2, <2>3, GatheredKept
<1>8. ASSUME NEW o \in Owners, RunHandler(o) PROVE GatheredInv'
  BY <1>0, <1>8 DEF RunHandler, GatheredInv
<1>9. ASSUME NEW o \in Owners, Look(o) PROVE GatheredInv'
  BY <1>0, <1>9 DEF Look, Wake, GatheredInv, CallerTypes
<1>10. ASSUME NEW o \in Owners, MarkReconnect(o) PROVE GatheredInv'
  BY <1>0, <1>10 DEF MarkReconnect, GatheredInv
<1>11. ASSUME NEW o \in Owners, CancelIo(o) PROVE GatheredInv'
  BY <1>0, <1>11 DEF CancelIo, GatheredInv
<1>12. ASSUME NEW o \in Owners, Start(o) PROVE GatheredInv'
  <2>1. /\ gathered' = gathered /\ calls' = calls
        /\ \A x \in Owners : x # o => pc'[x] = pc[x] /\ status'[x] = status[x]
        /\ (pc'[o] = "leave" /\ status'[o] = "failed") \/ (pc'[o] = pc[o] /\ status'[o] = status[o])
    BY <1>0, <1>12, StartFacts DEF Moved
  <2>2. GatheredOf(o)'
    BY <1>0, <2>1 DEF GatheredInv, GatheredOf
  <2> QED
    BY <1>0, <2>1, <2>2, GatheredKept
<1>13. ASSUME NEW o \in Owners, Connected(o) PROVE GatheredInv'
  <2>1. /\ gathered' = gathered /\ calls' = calls /\ pc[o] = "connect"
        /\ \A x \in Owners : x # o => pc'[x] = pc[x] /\ status'[x] = status[x]
    BY <1>0, <1>13, ConnectedFacts DEF Moved
  <2>2. GatheredOf(o)'
    BY <1>0, <2>1, NothingGathered DEF GatheredInv
  <2> QED
    BY <1>0, <2>1, <2>2, GatheredKept
<1>14. ASSUME NEW o \in Owners, Written(o) PROVE GatheredInv'
  <2>1. /\ gathered' = gathered /\ calls' = calls /\ pc[o] \in Writes
        /\ \A x \in Owners : x # o => pc'[x] = pc[x] /\ status'[x] = status[x]
    BY <1>0, <1>14, WrittenFacts DEF Moved
  <2>2. GatheredOf(o)'
    BY <1>0, <2>1, NothingGathered DEF GatheredInv, Writes
  <2> QED
    BY <1>0, <2>1, <2>2, GatheredKept
<1>15. ASSUME NEW o \in Owners, RequestFails(o) PROVE GatheredInv'
  <2>1. /\ gathered' = gathered /\ calls' = calls /\ pc'[o] = "leave" /\ status'[o] = "failed"
        /\ \A x \in Owners : x # o => pc'[x] = pc[x] /\ status'[x] = status[x]
    BY <1>0, <1>15, RequestFailsFacts DEF Moved
  <2>2. GatheredOf(o)'
    BY <2>1 DEF GatheredOf
  <2> QED
    BY <1>0, <2>1, <2>2, GatheredKept
<1>16. ASSUME NEW o \in Owners, NEW n \in 1 .. Len(rx), ReadSome(o, n) PROVE GatheredInv'
  BY <1>0, <1>16, GatheredRead
<1>17. ASSUME NEW o \in Owners, Timeout(o) PROVE GatheredInv'
  <2>1. gathered' = gathered /\ calls' = calls
    BY <1>0, <1>17, TimeoutFacts
  <2>2. CASE Moved(o) /\ pc'[o] = "leave" /\ status'[o] = "failed"
    <3>1. GatheredOf(o)'
      BY <2>2 DEF GatheredOf
    <3> QED
      BY <1>0, <2>1, <2>2, <3>1, GatheredKept DEF Moved
  <2>3. CASE (pc' = pc \/ (pc[o] = "asleep" /\ pc' = [pc EXCEPT ![o] = "gate"])) /\ status' = status
    BY <1>0, <2>1, <2>3 DEF GatheredInv, CallerTypes
  <2> QED
    BY <1>0, <1>17, <2>2, <2>3, TimeoutFacts
<1>18. ASSUME NEW o \in Owners, Terminate(o) PROVE GatheredInv'
  BY <1>0, <1>18 DEF Terminate, GatheredInv
<1>19. ASSUME NEW o \in Owners, Close(o) PROVE GatheredInv'
  BY <1>0, <1>19 DEF Close, GatheredInv
<1>20. CASE Interrupt
  <2>1. gathered' = gathered /\ calls' = calls
    BY <1>0, <1>20, InterruptFacts
  <2>2. CASE /\ active_owner \in Owners /\ Moved(active_owner)
             /\ pc'[active_owner] = "leave" /\ status'[active_owner] = "failed"
    <3>1. GatheredOf(active_owner)'
      <4>1. active_owner' = active_owner
        BY <1>0, <1>20, InterruptFacts
      <4> QED
        BY <2>2, <4>1 DEF GatheredOf
    <3>2. ASSUME NEW o \in Owners PROVE GatheredOf(o)'
      BY <1>0, <2>1, <2>2, <3>1 DEF GatheredInv, GatheredOf, Moved
    <3> QED
      BY <3>2 DEF GatheredInv, GatheredOf
  <2>3. CASE UNCHANGED <<pc, status, io, todo>>
    BY <1>0, <2>1, <2>3 DEF GatheredInv
  <2> QED
    BY <1>0, <1>20, <2>2, <2>3, InterruptFacts
<1>21. CASE Execute
  BY <1>0, <1>21 DEF Execute, GatheredInv
<1>22. CASE Restart
  BY <1>0, <1>22 DEF Restart, GatheredInv
<1>23. CASE UNCHANGED vars
  BY <1>0, <1>23 DEF vars, GatheredInv
<1> QED
  BY <1>1, <1>2, <1>3, <1>4, <1>5, <1>6, <1>7, <1>8, <1>9, <1>10, <1>11, <1>12, <1>13, <1>14,
     <1>15, <1>16, <1>17, <1>18, <1>19, <1>20, <1>21, <1>22, <1>23 DEF Next, Thread, Cancel

-----------------------------------------------------------------------------
\* A call returns what it has gathered.
LEMMA OwnReturned ==
    ASSUME Own, NEW o \in Owners, Return(o), status[o] = "ok" => Run(gathered[o], o, calls[o]),
           gathered[o] \in Seq(Items), response \in [Owners -> Seq(Items)], filled \in [Owners -> Nat],
           returned \in [Owners -> Seq(Nat \cup Items)]
    PROVE  Own'
<1> DEFINE g == gathered[o]
           k == call[o].kind
<1>1. /\ returned' = [returned EXCEPT ![o] = IF status[o] = "ok" /\ k \in {"read", "spoll"} /\ g # <<>>
                                             THEN <<calls[o], g[1]>> ELSE <<>>]
      /\ response' = [response EXCEPT ![o] =
                        CASE status[o] = "ok" /\ k = "read" -> SubSeq(g, 2, Len(g))
                          [] status[o] = "ok" /\ k = "clr" -> <<>>
                          [] OTHER -> @]
      /\ filled' = [filled EXCEPT ![o] = IF status[o] = "ok" /\ k = "read" THEN calls[o] ELSE @]
  BY DEF Return
<1>2. g \in Seq(Items) /\ (status[o] = "ok" => Run(g, o, calls[o]))
  OBVIOUS
<1> HIDE DEF g, k
<1>3. ASSUME NEW x \in Owners, x # o
      PROVE  returned'[x] = returned[x] /\ response'[x] = response[x] /\ filled'[x] = filled[x]
  BY <1>1, <1>3
<1>4. returned'[o] # <<>> => returned'[o][2].owner = o /\ returned'[o][2].call = returned'[o][1]
  <2>1. CASE status[o] = "ok" /\ k \in {"read", "spoll"} /\ g # <<>>
    <3>1. returned'[o] = <<calls[o], g[1]>>
      BY <1>1, <2>1
    <3>2. 1 \in DOMAIN g
      BY <1>2, <2>1
    <3>3. g[1].owner = o /\ g[1].call = calls[o]
      BY <1>2, <2>1, <3>2 DEF Run
    <3> QED
      BY <3>1, <3>3
  <2>2. CASE ~(status[o] = "ok" /\ k \in {"read", "spoll"} /\ g # <<>>)
    BY <1>1, <2>2
  <2> QED
    BY <2>1, <2>2
<1>5. ASSUME NEW i \in DOMAIN response'[o]
      PROVE  /\ response'[o][i].owner = o /\ response'[o][i].call = filled'[o]
             /\ i > 1 => response'[o][i].k = response'[o][i - 1].k + 1
  <2>1. CASE status[o] = "ok" /\ k = "read"
    <3> DEFINE r == SubSeq(g, 2, Len(g))
    <3>1. response'[o] = r /\ filled'[o] = calls[o]
      BY <1>1, <2>1
    <3>2. r \in Seq(Items) /\ \A j \in DOMAIN r : j \in Nat /\ j + 1 \in DOMAIN g /\ r[j] = g[j + 1] /\ j + 1 > 1
      BY <1>2
    <3>3. i \in DOMAIN r /\ (i > 1 => i - 1 \in DOMAIN r) /\ i \in Nat
      BY <1>5, <3>1, <3>2
    <3> HIDE DEF r
    <3>4. r[i].owner = o /\ r[i].call = calls[o]
      BY <1>2, <2>1, <3>2, <3>3 DEF Run
    <3>5. i > 1 => r[i].k = r[i - 1].k + 1
      <4> SUFFICES ASSUME i > 1 PROVE r[i].k = r[i - 1].k + 1
        OBVIOUS
      <4>1. r[i] = g[i + 1] /\ r[i - 1] = g[(i - 1) + 1] /\ (i - 1) + 1 = i /\ (i + 1) - 1 = i
        BY <3>2, <3>3
      <4>2. g[i + 1].k = g[(i + 1) - 1].k + 1
        BY <1>2, <2>1, <3>2, <3>3 DEF Run
      <4> QED
        BY <4>1, <4>2
    <3> QED
      BY <3>1, <3>4, <3>5
  <2>2. CASE ~(status[o] = "ok" /\ k = "read")
    <3>1. filled'[o] = filled[o] /\ (response'[o] = <<>> \/ response'[o] = response[o])
      BY <1>1, <2>2
    <3> QED
      BY <1>5, <3>1 DEF Own
  <2> QED
    BY <2>1, <2>2
<1>6. ASSUME NEW x \in Owners
      PROVE  /\ returned'[x] # <<>> => returned'[x][2].owner = x /\ returned'[x][2].call = returned'[x][1]
             /\ \A i \in DOMAIN response'[x] :
                   /\ response'[x][i].owner = x /\ response'[x][i].call = filled'[x]
                   /\ i > 1 => response'[x][i].k = response'[x][i - 1].k + 1
  <2>1. CASE x = o
    BY <1>4, <1>5, <2>1
  <2>2. CASE x # o
    BY <1>3, <2>2, SMTT(60) DEF Own
  <2> QED
    BY <2>1, <2>2
<1> QED
  BY <1>6 DEF Own

\* A session gets the answer to its own command.
LEMMA OwnStep ==
    ASSUME SettingInv, AnswerInv, connection = "tcp", [Next]_vars
    PROVE  Own'
<1> USE NoneAssumption DEF controllerVars, callVars, bufferVars, ioVars, adapterVars
<1>0. CallerTypes /\ BufferTypes /\ GateInv /\ StrandInv /\ AdapterTypes /\ ReadyInv /\ Trusted /\ StepInv
      /\ (\A i \in DOMAIN todo : todo[i].conn <= conn) /\ OnItsWay /\ GatheredInv /\ connection = "tcp" /\ Own
  BY DEF SettingInv, AnswerInv
<1>1. ASSUME NEW o \in Owners, NEW c \in NextCalls(o), Call(o, c) PROVE Own'
  <2>1. /\ response[o] \in Seq(Items) /\ response \in [Owners -> Seq(Items)]
        /\ returned \in [Owners -> Seq(Nat \cup Items)] /\ filled' = filled
    BY <1>0, <1>1 DEF BufferTypes, Call
  <2>2. \A x \in Owners : x # o => response'[x] = response[x] /\ returned'[x] = returned[x]
    BY <2>1, <1>1 DEF Call
  <2>3. \/ /\ response[o] # <<>> /\ response'[o] = Tail(response[o])
           /\ returned'[o] = <<filled[o], Head(response[o])>>
        \/ /\ response'[o] \in {response[o], <<>>} /\ returned'[o] \in {returned[o], <<>>}
    BY <2>1, <1>1 DEF Call
  <2>4. returned'[o] # <<>> => returned'[o][2].owner = o /\ returned'[o][2].call = returned'[o][1]
    <3>1. response[o] # <<>> => 1 \in DOMAIN response[o] /\ Head(response[o]) = response[o][1]
      BY <2>1
    <3> QED
      BY <1>0, <2>3, <3>1 DEF Own
  <2>5. ASSUME NEW i \in DOMAIN response'[o]
        PROVE  /\ response'[o][i].owner = o /\ response'[o][i].call = filled'[o]
               /\ i > 1 => response'[o][i].k = response'[o][i - 1].k + 1
    <3> DEFINE r == response[o]
               t == response'[o]
    <3>1. CASE r # <<>> /\ t = Tail(r)
      <4>1. r \in Seq(Items)
        BY <2>1
      <4> HIDE DEF r, t
      <4>2. \A j \in DOMAIN t : j \in Nat /\ j + 1 \in DOMAIN r /\ t[j] = r[j + 1] /\ j + 1 > 1
        BY <3>1, <4>1
      <4>3. i \in DOMAIN t /\ (i > 1 => i - 1 \in DOMAIN t)
        <5>1. i \in DOMAIN t
          BY <2>5 DEF t
        <5> QED
          BY <3>1, <4>1, <5>1
      <4>4. \A j \in DOMAIN r :
               /\ r[j].owner = o /\ r[j].call = filled[o]
               /\ j > 1 => r[j].k = r[j - 1].k + 1
        BY <1>0 DEF Own, r
      <4>5. t[i].owner = o /\ t[i].call = filled[o]
        BY <4>2, <4>3, <4>4
      <4>6. i > 1 => t[i].k = t[i - 1].k + 1
        <5> SUFFICES ASSUME i > 1 PROVE t[i].k = t[i - 1].k + 1
          OBVIOUS
        <5>1. t[i] = r[i + 1] /\ t[i - 1] = r[(i - 1) + 1] /\ (i - 1) + 1 = i /\ (i + 1) - 1 = i
          BY <4>2, <4>3
        <5>2. r[i + 1].k = r[(i + 1) - 1].k + 1
          BY <4>2, <4>3, <4>4
        <5> QED
          BY <5>1, <5>2
      <4> QED
        BY <2>1, <4>5, <4>6 DEF t
    <3>2. CASE t \in {r, <<>>}
      BY <1>0, <2>1, <2>5, <3>2 DEF Own
    <3> QED
      BY <2>3, <3>1, <3>2
  <2> QED
    BY <1>0, <2>1, <2>2, <2>4, <2>5, SMTT(60) DEF Own
<1>2. ASSUME NEW o \in Owners, Refused(o) PROVE Own'
  BY <1>0, <1>2 DEF Refused, Own
<1>3. ASSUME NEW o \in Owners, Sleep(o) PROVE Own'
  BY <1>0, <1>3 DEF Sleep, Own
<1>4. ASSUME NEW o \in Owners, Enter(o) PROVE Own'
  <2>1. UNCHANGED <<response, filled, returned>>
    BY <1>0, <1>4, EnterFacts
  <2> QED
    BY <1>0, <2>1 DEF Own
<1>5. ASSUME NEW o \in Owners, Leave(o) PROVE Own'
  BY <1>0, <1>5 DEF Leave, Own
<1>6. ASSUME NEW o \in Owners, Release(o) PROVE Own'
  <2>0. /\ status[o] = "ok" => Run(gathered[o], o, calls[o])
        /\ gathered[o] \in Seq(Items) /\ response \in [Owners -> Seq(Items)] /\ filled \in [Owners -> Nat]
        /\ returned \in [Owners -> Seq(Nat \cup Items)]
    BY <1>0 DEF GatheredInv, BufferTypes
  <2>1. Return(o)
    BY <1>6 DEF Release
  <2> QED
    BY <1>0, <2>0, <2>1, OwnReturned
<1>7. ASSUME NEW o \in Owners, ReturnRefused(o) PROVE Own'
  <2>0. /\ status[o] = "ok" => Run(gathered[o], o, calls[o])
        /\ gathered[o] \in Seq(Items) /\ response \in [Owners -> Seq(Items)] /\ filled \in [Owners -> Nat]
        /\ returned \in [Owners -> Seq(Nat \cup Items)]
    BY <1>0 DEF GatheredInv, BufferTypes
  <2>1. Return(o)
    BY <1>7 DEF ReturnRefused
  <2> QED
    BY <1>0, <2>0, <2>1, OwnReturned
<1>8. ASSUME NEW o \in Owners, RunHandler(o) PROVE Own'
  BY <1>0, <1>8 DEF RunHandler, Own
<1>9. ASSUME NEW o \in Owners, Look(o) PROVE Own'
  BY <1>0, <1>9 DEF Look, Own
<1>10. ASSUME NEW o \in Owners, MarkReconnect(o) PROVE Own'
  BY <1>0, <1>10 DEF MarkReconnect, Own
<1>11. ASSUME NEW o \in Owners, CancelIo(o) PROVE Own'
  BY <1>0, <1>11 DEF CancelIo, Own
<1>12. ASSUME NEW o \in Owners, Start(o) PROVE Own'
  <2>1. UNCHANGED <<response, filled, returned>>
    BY <1>0, <1>12, StartFacts
  <2> QED
    BY <1>0, <2>1 DEF Own
<1>13. ASSUME NEW o \in Owners, Connected(o) PROVE Own'
  <2>1. UNCHANGED <<response, filled, returned>>
    BY <1>0, <1>13, ConnectedFacts
  <2> QED
    BY <1>0, <2>1 DEF Own
<1>14. ASSUME NEW o \in Owners, Written(o) PROVE Own'
  <2>1. UNCHANGED <<response, filled, returned>>
    BY <1>0, <1>14, WrittenFacts
  <2> QED
    BY <1>0, <2>1 DEF Own
<1>15. ASSUME NEW o \in Owners, RequestFails(o) PROVE Own'
  <2>1. UNCHANGED <<response, filled, returned>>
    BY <1>0, <1>15, RequestFailsFacts
  <2> QED
    BY <1>0, <2>1 DEF Own
<1>16. ASSUME NEW o \in Owners, NEW n \in 1 .. Len(rx), ReadSome(o, n) PROVE Own'
  <2>1. UNCHANGED <<response, filled, returned>>
    BY <1>0, <1>16, ReadSomeFacts
  <2> QED
    BY <1>0, <2>1 DEF Own
<1>17. ASSUME NEW o \in Owners, Timeout(o) PROVE Own'
  <2>1. UNCHANGED <<response, filled, returned>>
    BY <1>0, <1>17, TimeoutFacts
  <2> QED
    BY <1>0, <2>1 DEF Own
<1>18. ASSUME NEW o \in Owners, Terminate(o) PROVE Own'
  BY <1>0, <1>18 DEF Terminate, Own
<1>19. ASSUME NEW o \in Owners, Close(o) PROVE Own'
  BY <1>0, <1>19 DEF Close, Own
<1>20. CASE Interrupt
  <2>1. UNCHANGED <<response, filled, returned>>
    BY <1>0, <1>20, InterruptFacts
  <2> QED
    BY <1>0, <2>1 DEF Own
<1>21. CASE Execute
  BY <1>0, <1>21 DEF Execute, Own
<1>22. CASE Restart
  BY <1>0, <1>22 DEF Restart, Own
<1>23. CASE UNCHANGED vars
  BY <1>0, <1>23 DEF vars, Own
<1> QED
  BY <1>1, <1>2, <1>3, <1>4, <1>5, <1>6, <1>7, <1>8, <1>9, <1>10, <1>11, <1>12, <1>13, <1>14,
     <1>15, <1>16, <1>17, <1>18, <1>19, <1>20, <1>21, <1>22, <1>23 DEF Next, Thread, Cancel

\* The kind of connection does not change.
LEMMA LineStep ==
    ASSUME SettingInv, [Next]_vars
    PROVE  connection = connection'
<1> USE NoneAssumption DEF controllerVars, callVars, bufferVars, ioVars, adapterVars
<1>1. ASSUME NEW o \in Owners, NEW c \in NextCalls(o), Call(o, c) PROVE connection = connection'
  BY <1>1 DEF Call
<1>2. ASSUME NEW o \in Owners, Refused(o) PROVE connection = connection'
  BY <1>2 DEF Refused
<1>3. ASSUME NEW o \in Owners, Sleep(o) PROVE connection = connection'
  BY <1>3 DEF Sleep
<1>4. ASSUME NEW o \in Owners, Enter(o) PROVE connection = connection'
  BY <1>4 DEF Enter
<1>5. ASSUME NEW o \in Owners, Leave(o) PROVE connection = connection'
  BY <1>5 DEF Leave
<1>6. ASSUME NEW o \in Owners, Release(o) PROVE connection = connection'
  BY <1>6 DEF Release
<1>7. ASSUME NEW o \in Owners, ReturnRefused(o) PROVE connection = connection'
  BY <1>7 DEF ReturnRefused
<1>8. ASSUME NEW o \in Owners, RunHandler(o) PROVE connection = connection'
  BY <1>8 DEF RunHandler
<1>9. ASSUME NEW o \in Owners, Look(o) PROVE connection = connection'
  BY <1>9 DEF Look
<1>10. ASSUME NEW o \in Owners, MarkReconnect(o) PROVE connection = connection'
  BY <1>10 DEF MarkReconnect
<1>11. ASSUME NEW o \in Owners, CancelIo(o) PROVE connection = connection'
  BY <1>11 DEF CancelIo
<1>12. ASSUME NEW o \in Owners, Start(o) PROVE connection = connection'
  BY <1>12 DEF Start
<1>13. ASSUME NEW o \in Owners, Connected(o) PROVE connection = connection'
  BY <1>13 DEF Connected
<1>14. ASSUME NEW o \in Owners, Written(o) PROVE connection = connection'
  BY <1>14 DEF Written
<1>15. ASSUME NEW o \in Owners, RequestFails(o) PROVE connection = connection'
  BY <1>15 DEF RequestFails
<1>16. ASSUME NEW o \in Owners, NEW n \in 1 .. Len(rx), ReadSome(o, n) PROVE connection = connection'
  BY <1>16 DEF ReadSome
<1>17. ASSUME NEW o \in Owners, Timeout(o) PROVE connection = connection'
  BY <1>17 DEF Timeout
<1>18. ASSUME NEW o \in Owners, Terminate(o) PROVE connection = connection'
  BY <1>18 DEF Terminate
<1>19. ASSUME NEW o \in Owners, Close(o) PROVE connection = connection'
  BY <1>19 DEF Close
<1>20. CASE Interrupt
  BY <1>20 DEF Interrupt
<1>21. CASE Execute
  BY <1>21 DEF Execute
<1>22. CASE Restart
  BY <1>22 DEF Restart
<1>23. CASE UNCHANGED vars
  BY <1>23 DEF vars
<1> QED
  BY <1>1, <1>2, <1>3, <1>4, <1>5, <1>6, <1>7, <1>8, <1>9, <1>10, <1>11, <1>12, <1>13, <1>14,
     <1>15, <1>16, <1>17, <1>18, <1>19, <1>20, <1>21, <1>22, <1>23 DEF Next, Thread, Cancel

\* Every step preserves the invariant.
LEMMA AnswerStep == SettingInv /\ AnswerInv /\ [Next]_vars => AnswerInv'
<1> SUFFICES ASSUME SettingInv, AnswerInv, [Next]_vars PROVE AnswerInv'
  OBVIOUS
<1>1. connection' = connection
  BY LineStep
<1>2. connection = "tcp" => OnItsWay' /\ GatheredInv' /\ Own'
  BY WayStep, GatheredStep, OwnStep
<1> QED
  BY <1>1, <1>2, ConnsStep, ClosedStep DEF AnswerInv

\* On TCP nothing is on its way to a caller but the answer to its own command.
THEOREM AnswerCorrect == Spec => [](SettingInv /\ AnswerInv)
<1>1. Init => AnswerInv
  BY DEF Init, AnswerInv, OnItsWay, GatheredInv, Own, Run, Asked
<1> QED
  BY <1>1, SettingInit, SettingStep, AnswerStep, PTL DEF Spec

\* On TCP a read hands out the answer to its own ++read, in order and from the first
\* piece on, and a serial poll its own status byte (transact, invalidate, read_until).
THEOREM OwnResponseAlways == Spec => []OwnResponse
<1>1. AnswerInv => OwnResponse
  BY DEF AnswerInv, OwnResponse
<1> QED
  BY <1>1, AnswerCorrect, PTL
=============================================================================
