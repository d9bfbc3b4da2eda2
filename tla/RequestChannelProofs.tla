------------------------ MODULE RequestChannelProofs ------------------------
(***************************************************************************)
(* Proofs about RequestChannel.  The three invariants of the channel need  *)
(* each other's reasons: that a request is answered once needs to know     *)
(* that start_next finds only requests in the queue that are not done      *)
(* (QueueInv), which enqueue() guarantees because a request is posted once *)
(* (PostedInv).  That a caller gets its own response needs to know, for    *)
(* every point of an exchange, what the device still has to send and what  *)
(* has arrived and is not read (StreamInv), and that only the front of the *)
(* queue is active (WireInv).  All of them are about the strand up to the  *)
(* start_next that restarts the active request, where the model ends.      *)
(***************************************************************************)
EXTENDS RequestChannel, WellFoundedInduction, TLAPS

\* A request is posted to the strand once.
PostedInv ==
    /\ \A i \in DOMAIN posted : posted[i][1] = "enqueue" => stage[posted[i][2]] \in {"posted", "done"}
    /\ \A i, j \in DOMAIN posted : posted[i][1] = "enqueue" /\ posted[i] = posted[j] => i = j

\* The queue holds requests that are waiting or active, each once.
QueueInv ==
    /\ \A i, j \in DOMAIN queue : queue[i] = queue[j] => i = j
    /\ \A i \in DOMAIN queue : stage[queue[i]] \in Active \cup {"queued"}
    /\ closed => queue = <<>>

\* The front of the queue is active and nothing else is; what is not started yet
\* has not been written.
WireInv ==
    /\ \A r \in Requests : stage[r] \in Active => queue # <<>> /\ queue[1] = r
    /\ queue # <<>> => stage[queue[1]] \in Active
    /\ \A r \in Requests : sent[r] <= 1 /\ (stage[r] \in {"none", "calling", "posted", "queued"} => sent[r] = 0)

\* The device owes nothing and nothing is left to read; the device owes the
\* response to r, or has sent it.
Quiet == received = <<>> /\ inbound = <<>>
Owes(r) ==
    \/ received = <<r>> /\ inbound = <<>>
    \/ received = <<>> /\ inbound = <<<<r, "header">>, <<r, "payload">>>>
OwesPayload(r) == received = <<>> /\ inbound = <<<<r, "payload">>>>

\* Where the stream is while r is active.
Aligned(r) ==
    /\ stage[r] = "writing" /\ io[r] = "busy" => Quiet
    /\ stage[r] = "writing" /\ io[r] = "ready" => IF r \in Silent THEN Quiet ELSE Owes(r)
    /\ stage[r] = "header" /\ io[r] = "busy" => Owes(r)
    /\ stage[r] = "header" /\ io[r] = "ready" => OwesPayload(r)
    /\ stage[r] = "payload" /\ io[r] = "busy" => OwesPayload(r)
    /\ stage[r] = "payload" /\ io[r] = "ready" => Quiet

\* As long as no request was given up before its response was read, the stream
\* is where the active request expects it to be.
StreamInv ==
    ~undrained /\ ~broken /\ ~closed =>
        /\ \A r \in Requests : Aligned(r)
        /\ (\A r \in Requests : stage[r] \notin Active) => Quiet

\* What the active request has read is its own.  Its socket operation is under
\* way or has come to an end, and fails on a broken connection only.
PartInv ==
    \A r \in Requests : stage[r] \in Active =>
        /\ io[r] # "none"
        /\ io[r] = "failed" => broken
        /\ stage[r] # "writing" /\ io[r] = "ready" => part[r] \in Parts
        /\ ~undrained /\ stage[r] = "header" /\ io[r] = "ready" => part[r] = <<r, "header">>
        /\ ~undrained /\ stage[r] = "payload" /\ io[r] = "ready" => part[r] = <<r, "payload">>

StrandInv == PostedInv /\ QueueInv /\ WireInv /\ StreamInv /\ PartInv

ChannelInv ==
    /\ TypeOK
    /\ AnsweredOnce
    /\ ResponsesDrained
    /\ ~restarted => StrandInv

-----------------------------------------------------------------------------
\* start_next stops within the queue or at its end.
LEMMA FirstStartableBounds ==
    ASSUME NEW q \in Seq(Requests)
    PROVE  FirstStartable(q) \in 1 .. Len(q) + 1
<1>1. CASE Startable(q) = {}
  BY <1>1 DEF FirstStartable
<1>2. CASE Startable(q) # {}
  <2>1. Startable(q) \subseteq Nat /\ Startable(q) \subseteq 1 .. Len(q)
    BY DEF Startable
  <2>2. PICK R : R = OpToRel(<, Nat)
    BY Zenon
  <2>3. IsWellFoundedOn(R, Nat)
    BY <2>2, NatLessThanWellFounded, Zenon
  <2>4. PICK x \in Startable(q) : \A y \in Startable(q) : ~ (<<y, x>> \in R)
    BY <1>2, <2>1, <2>3, WFMin, Zenon
  <2>5. R = {ss \in Nat \X Nat : ss[1] < ss[2]}
    BY <2>2, Zenon DEF OpToRel
  <2>6. ASSUME NEW y \in Startable(q) PROVE x <= y
    <3>1. <<y, x>> \in Nat \X Nat /\ ~(<<y, x>> \in R)
      BY <2>1, <2>4
    <3>2. ~(y < x)
      BY <2>5, <3>1
    <3>. QED
      BY <2>1, <3>2
  <2>7. FirstStartable(q) \in Startable(q)
    BY <1>2, <2>6 DEF FirstStartable
  <2>. QED
    BY <2>1, <2>7
<1>. QED
  BY <1>1, <1>2

\* What finish() erases from the queue is the request and nothing else.
LEMMA EraseFacts ==
    ASSUME NEW q \in Seq(Requests), NEW r, NEW e,
           \A i, j \in DOMAIN q : q[i] = q[j] => i = j,
           e = Erase(q, r)
    PROVE  /\ e \in Seq(Requests)
           /\ \A i, j \in DOMAIN e : e[i] = e[j] => i = j
           /\ \A i \in DOMAIN e : e[i] # r /\ \E j \in DOMAIN q : e[i] = q[j]
           /\ \A j \in DOMAIN q : q[j] # r => \E i \in DOMAIN e : e[i] = q[j]
           /\ q # <<>> /\ q[1] # r => e # <<>> /\ e[1] = q[1]
           /\ q = <<>> => e = <<>>
<1>1. CASE \A i \in DOMAIN q : q[i] # r
  BY <1>1 DEF Erase
<1>2. CASE \E i \in DOMAIN q : q[i] = r
  <2>1. PICK k \in DOMAIN q : /\ q[k] = r
                              /\ e = [i \in 1 .. Len(q) - 1 |-> IF i < k THEN q[i] ELSE q[i + 1]]
    BY <1>2 DEF Erase
  <2>2. Len(q) \in Nat /\ Len(q) >= 1 /\ DOMAIN q = 1 .. Len(q) /\ k \in 1 .. Len(q)
    BY <2>1
  <2>3. e \in Seq(Requests) /\ Len(e) = Len(q) - 1 /\ DOMAIN e = 1 .. Len(q) - 1
    BY <2>1, <2>2
  <2>4. \A i \in DOMAIN e : e[i] = IF i < k THEN q[i] ELSE q[i + 1]
    BY <2>1, <2>3
  <2>5. \A i, j \in DOMAIN e : e[i] = e[j] => i = j
    BY <2>2, <2>3, <2>4, SMTT(60)
  <2>6. \A i \in DOMAIN e : e[i] # r /\ \E j \in DOMAIN q : e[i] = q[j]
    BY <2>1, <2>2, <2>3, <2>4
  <2>7. ASSUME NEW j \in DOMAIN q, q[j] # r PROVE \E i \in DOMAIN e : e[i] = q[j]
    <3>1. CASE j < k
      <4>1. j \in DOMAIN e /\ e[j] = q[j]
        BY <2>2, <2>3, <2>4, <3>1
      <4>. QED
        BY <4>1
    <3>2. CASE ~(j < k)
      <4>1. j > k /\ j - 1 \in DOMAIN e /\ e[j - 1] = q[j]
        BY <2>1, <2>2, <2>3, <2>4, <2>7, <3>2
      <4>. QED
        BY <4>1
    <3>. QED
      BY <3>1, <3>2
  <2>8. q # <<>> /\ q[1] # r => e # <<>> /\ e[1] = q[1]
    BY <2>1, <2>2, <2>3, <2>4
  <2>. QED
    BY <2>2, <2>3, <2>5, <2>6, <2>7, <2>8
<1>. QED
  BY <1>1, <1>2

\* What Settle does, request by request: the requests before position k of q are
\* dropped, over are these and the ones finished, front is the one started.
Settled(rs, proposed, q, k, dropped, front, over) ==
    /\ dropped = IF closed' THEN {} ELSE {q[i] : i \in 1 .. k - 1}
    /\ queue' = IF closed' THEN q ELSE SubSeq(q, k, Len(q))
    /\ front = IF closed' \/ queue' = <<>> THEN {} ELSE {Head(queue')}
    /\ over = rs \cup dropped
    /\ front \cap over = {}
    /\ \A r \in Requests :
          /\ result'[r] = IF r \in over /\ ~Done(r)
                            THEN IF op[r] = "completed" THEN "completed" ELSE proposed
                            ELSE result[r]
          /\ answers'[r] = IF r \in over /\ ~Done(r) THEN answers[r] + 1 ELSE answers[r]
    /\ \A r \in Requests :
          stage'[r] = IF r \in front THEN FirstStage(r) ELSE IF r \in over THEN "done" ELSE stage[r]
    /\ \A r \in Requests :
          /\ r \in front => io'[r] = "busy"
          /\ r \notin front \cup over => io'[r] = io[r]
          /\ sent'[r] = IF r \in front THEN sent[r] + 1 ELSE sent[r]
    /\ restarted' = (\/ restarted
                     \/ \E r \in (front \cup dropped) \ rs : stage[r] \in Active
                     \/ dropped # {} /\ front # {})
    /\ received' = IF front \cap Empty = {} THEN received ELSE Append(received, Head(queue'))
    /\ io' \in [Requests -> {"none", "busy", "ready", "failed", "aborted"}]
    /\ timer' \in [Requests -> {"off", "deadline", "recovery"}]
    /\ op' \in [Requests -> {"none", "pending", "completed"}]
    /\ result' = [r \in Requests |-> result'[r]]
    /\ answers' = [r \in Requests |-> answers'[r]]
    /\ stage' = [r \in Requests |-> stage'[r]]
    /\ sent' = [r \in Requests |-> sent'[r]]

SettledSomehow(rs, proposed, q) ==
    \E k \in 1 .. Len(q) + 1 : \E dropped, front, over \in SUBSET Requests :
        Settled(rs, proposed, q, k, dropped, front, over)

LEMMA SettleEffect ==
    ASSUME TypeOK, NEW rs \in SUBSET Requests, NEW proposed \in {"ok", "error"},
           NEW q \in Seq(Requests), closed' \in BOOLEAN, Settle(rs, proposed, q),
           \A i, j \in DOMAIN q : q[i] = q[j] => i = j,
           \A i \in DOMAIN q : q[i] \notin rs
    PROVE  SettledSomehow(rs, proposed, q)
<1>1. PICK k \in 1 .. Len(q) + 1 : k = FirstStartable(q)
  BY FirstStartableBounds
<1>2. PICK dropped \in SUBSET Requests : dropped = IF closed' THEN {} ELSE Dropped(q)
  <2>1. Dropped(q) \in SUBSET Requests
    BY <1>1 DEF Dropped
  <2>. QED
    BY <2>1
<1>3. PICK next \in Seq(Requests) : next = IF closed' THEN q ELSE StartNext(q)
  <2>1. StartNext(q) \in Seq(Requests)
    BY <1>1 DEF StartNext
  <2>. QED
    BY <2>1
<1>4. PICK front \in SUBSET Requests : front = IF closed' \/ next = <<>> THEN {} ELSE {Head(next)}
  <2>1. next # <<>> => Head(next) \in Requests
    OBVIOUS
  <2>. QED
    BY <2>1
<1>5. PICK over \in SUBSET Requests : over = rs \cup dropped
  OBVIOUS
<1>6. /\ queue' = next
      /\ Fulfil(over, [r \in Requests |->
                         IF op[r] = "completed" THEN "completed" ELSE proposed])
      /\ stage' = [r \in Requests |->
                     IF r \in front THEN FirstStage(r)
                     ELSE IF r \in over THEN "done"
                     ELSE stage[r]]
      /\ io' = [r \in Requests |->
                     IF r \in front THEN "busy"
                     ELSE IF r \in over THEN (IF closed' = closed THEN "none" ELSE Interrupted(io[r]))
                     ELSE io[r]]
      /\ timer' = [r \in Requests |->
                     IF r \in front THEN "deadline"
                     ELSE IF r \in over THEN "off"
                     ELSE timer[r]]
      /\ sent' = [r \in Requests |-> IF r \in front THEN sent[r] + 1 ELSE sent[r]]
      /\ received' = IF front \cap Empty = {} THEN received ELSE Append(received, Head(queue'))
      /\ restarted' = (\/ restarted
                       \/ \E r \in (front \cup dropped) \ rs : stage[r] \in Active
                       \/ dropped # {} /\ front # {})
      /\ op' = [r \in Requests |->
                  IF r \in over /\ proposed = "error" /\ op[r] = "pending"
                    THEN "completed" ELSE op[r]]
  BY <1>2, <1>3, <1>4, <1>5 DEF Settle
<1>7. io' \in [Requests -> {"none", "busy", "ready", "failed", "aborted"}]
  BY <1>6 DEF TypeOK, Interrupted
<1>8. timer' \in [Requests -> {"off", "deadline", "recovery"}]
  BY <1>6 DEF TypeOK
<1>9. op' \in [Requests -> {"none", "pending", "completed"}]
  BY <1>6 DEF TypeOK
<1>10. \A r \in Requests :
          /\ result'[r] = IF r \in over /\ ~Done(r)
                            THEN IF op[r] = "completed" THEN "completed" ELSE proposed
                            ELSE result[r]
          /\ answers'[r] = IF r \in over /\ ~Done(r) THEN answers[r] + 1 ELSE answers[r]
  BY <1>6 DEF Fulfil
<1>11. /\ dropped = IF closed' THEN {} ELSE {q[i] : i \in 1 .. k - 1}
       /\ queue' = IF closed' THEN q ELSE SubSeq(q, k, Len(q))
       /\ front = IF closed' \/ queue' = <<>> THEN {} ELSE {Head(queue')}
  BY <1>1, <1>2, <1>3, <1>4, <1>6 DEF Dropped, StartNext
<1>12. front \cap over = {}
  <2>1. CASE closed'
    BY <1>11, <2>1
  <2>2. CASE ~closed' /\ queue' # <<>>
    <3>1. k \in DOMAIN q /\ Head(queue') = q[k]
      BY <1>11, <2>2
    <3>2. \A i \in 1 .. k - 1 : i \in DOMAIN q /\ q[i] # q[k]
      BY <3>1
    <3>. QED
      BY <1>5, <1>11, <2>2, <3>1, <3>2
  <2>. QED
    BY <1>11, <2>1, <2>2
<1>13. \A r \in Requests :
          stage'[r] = IF r \in front THEN FirstStage(r) ELSE IF r \in over THEN "done" ELSE stage[r]
  BY <1>6, <1>12
<1>14. \A r \in Requests :
          /\ r \in front => io'[r] = "busy"
          /\ r \notin front \cup over => io'[r] = io[r]
          /\ sent'[r] = IF r \in front THEN sent[r] + 1 ELSE sent[r]
  BY <1>6, <1>12
<1>15. /\ result' = [r \in Requests |-> result'[r]]
       /\ answers' = [r \in Requests |-> answers'[r]]
       /\ stage' = [r \in Requests |-> stage'[r]]
       /\ sent' = [r \in Requests |-> sent'[r]]
  BY <1>6, Zenon DEF Fulfil
<1>16. Settled(rs, proposed, q, k, dropped, front, over)
  BY <1>5, <1>6, <1>7, <1>8, <1>9, <1>10, <1>11, <1>12, <1>13, <1>14, <1>15 DEF Settled
<1>. QED
  BY <1>16, Zenon DEF SettledSomehow

-----------------------------------------------------------------------------
\* The types of what Settle changes.
StrandTypes ==
    /\ queue \in Seq(Requests)
    /\ stage \in [Requests -> Stages]
    /\ io \in [Requests -> {"none", "busy", "ready", "failed", "aborted"}]
    /\ timer \in [Requests -> {"off", "deadline", "recovery"}]
    /\ result \in [Requests -> {"none", "ok", "completed", "error"}]
    /\ answers \in [Requests -> 0 .. 1]
    /\ sent \in [Requests -> Nat]
    /\ op \in [Requests -> {"none", "pending", "completed"}]
    /\ received \in Seq(Requests)
    /\ restarted \in BOOLEAN

\* The requests rs may be finished, and start_next go on with the queue q: q holds
\* what is left of the queue, and the stream is quiet when there is no other
\* active request.
MaySettle(rs, q) ==
    /\ \A i, j \in DOMAIN q : q[i] = q[j] => i = j
    /\ \A i \in DOMAIN q : q[i] \notin rs
    /\ \A i \in DOMAIN q : \/ stage[q[i]] \in Active \cup {"queued"}
                           \/ i = 1 /\ stage[q[1]] = "posted"
    /\ \A r \in Requests : stage[r] \in Active => r \in rs \/ (q # <<>> /\ q[1] = r)
    /\ closed' => q = <<>>
    /\ posted' \in Seq({"enqueue", "cancel"} \X Requests)
    /\ \A i \in DOMAIN posted' : posted'[i][1] = "enqueue" =>
          /\ stage[posted'[i][2]] \in {"posted", "done"}
          /\ \A j \in DOMAIN q : q[j] # posted'[i][2]
    /\ \A i, j \in DOMAIN posted' : posted'[i][1] = "enqueue" /\ posted'[i] = posted'[j] => i = j
    /\ inbound' = inbound
    /\ (\A r \in Requests \ rs : stage[r] \notin Active) /\ ~undrained' /\ ~broken' /\ ~closed' => Quiet

\* Settle preserves what concerns the strand.
LEMMA SettleInv ==
    ASSUME ChannelInv, ~restarted, NEW rs \in SUBSET Requests, NEW proposed \in {"ok", "error"},
           NEW q \in Seq(Requests), closed' \in BOOLEAN, Settle(rs, proposed, q), MaySettle(rs, q)
    PROVE  StrandTypes' /\ AnsweredOnce' /\ (~restarted' => StrandInv')
<1>. USE DEF MaySettle
<1>0. PICK k \in 1 .. Len(q) + 1 : \E dropped, front, over \in SUBSET Requests :
              Settled(rs, proposed, q, k, dropped, front, over)
  <2>1. TypeOK
    BY DEF ChannelInv
  <2>2. SettledSomehow(rs, proposed, q)
    BY <2>1, SettleEffect
  <2>. QED
    BY <2>2, Zenon DEF SettledSomehow
<1>1. PICK dropped, front, over \in SUBSET Requests :
              Settled(rs, proposed, q, k, dropped, front, over)
  BY <1>0
<1>2. \A r \in front \cup dropped : \E i \in DOMAIN q : r = q[i]
  <2>1. CASE closed'
    BY <1>1, <2>1 DEF Settled
  <2>2. CASE ~closed'
    <3>1. \A r \in dropped : \E i \in DOMAIN q : r = q[i]
      BY <1>1, <2>2 DEF Settled
    <3>2. \A r \in front : k \in DOMAIN q /\ r = q[k]
      BY <1>1, <2>2 DEF Settled
    <3>. QED
      BY <3>1, <3>2
  <2>. QED
    BY <2>1, <2>2
<1>3. \A r \in front \cup dropped : ~Done(r)
  BY <1>2 DEF Done, Active
<1>4. \A r \in Requests : answers'[r] = IF stage'[r] = "done" THEN 1 ELSE 0
  <2>. SUFFICES ASSUME NEW r \in Requests PROVE answers'[r] = IF stage'[r] = "done" THEN 1 ELSE 0
    OBVIOUS
  <2>1. answers[r] = IF stage[r] = "done" THEN 1 ELSE 0
    BY DEF ChannelInv, AnsweredOnce, Done
  <2>2. CASE r \in front
    <3>1. stage'[r] # "done" /\ answers'[r] = answers[r]
      BY <1>1, <2>2 DEF Settled, FirstStage
    <3>. QED
      BY <1>3, <2>1, <2>2, <3>1 DEF Done
  <2>3. CASE r \in over
    BY <1>1, <1>3, <2>1, <2>3 DEF Settled, Done
  <2>4. CASE r \notin front \cup over
    BY <1>1, <2>1, <2>4 DEF Settled, Done
  <2>. QED
    BY <2>2, <2>3, <2>4
<1>5. AnsweredOnce' /\ answers' \in [Requests -> 0 .. 1]
  BY <1>1, <1>4 DEF Settled, AnsweredOnce, Done
<1>6. /\ result' \in [Requests -> {"none", "ok", "completed", "error"}]
      /\ stage' \in [Requests -> Stages]
      /\ sent' \in [Requests -> Nat]
  <2>0. \A r \in Requests :
           /\ result[r] \in {"none", "ok", "completed", "error"}
           /\ stage[r] \in Stages
           /\ sent[r] \in Nat
    BY DEF ChannelInv, TypeOK
  <2>1. \A r \in Requests :
           /\ result'[r] \in {"none", "ok", "completed", "error"}
           /\ stage'[r] \in Stages
           /\ sent'[r] \in Nat
    <3>1. ASSUME NEW r \in Requests PROVE result'[r] \in {"none", "ok", "completed", "error"}
      BY <1>1, <2>0 DEF Settled
    <3>2. ASSUME NEW r \in Requests PROVE stage'[r] \in Stages
      BY <1>1, <2>0 DEF Settled, Stages, Active, FirstStage
    <3>3. ASSUME NEW r \in Requests PROVE sent'[r] \in Nat
      <4>1. sent'[r] = sent[r] + 1 \/ sent'[r] = sent[r]
        BY <1>1 DEF Settled
      <4>. QED
        BY <2>0, <4>1
    <3>. QED
      BY <3>1, <3>2, <3>3
  <2>. QED
    BY <1>1, <2>1 DEF Settled
<1>7. queue' \in Seq(Requests)
  BY <1>1 DEF Settled
<1>10. received' \in Seq(Requests)
  <2>1. received \in Seq(Requests)
    BY DEF ChannelInv, TypeOK
  <2>2. front # {} => queue' # <<>> /\ Head(queue') \in Requests
    BY <1>1, <1>7 DEF Settled
  <2>3. front \cap Empty # {} => Append(received, Head(queue')) \in Seq(Requests)
    BY <2>1, <2>2
  <2>. QED
    BY <1>1, <2>1, <2>3 DEF Settled
<1>9. restarted' \in BOOLEAN
  BY <1>1, Zenon DEF Settled
<1>8. ASSUME ~restarted' PROVE StrandInv'
  <2>1. dropped = {} \/ front = {}
    BY <1>1, <1>8 DEF Settled
  <2>2. \A r \in (front \cup dropped) \ rs : stage[r] \notin Active
    BY <1>1, <1>8 DEF Settled
  <2>3. \A r \in front \cup dropped : r \notin rs /\ stage[r] \notin Active
    BY <1>2, <2>2
  <2>4. \/ queue' = <<>> /\ front = {}
        \/ queue' = q /\ q # <<>> /\ front = {q[1]} /\ dropped = {}
    <3>1. CASE closed'
      BY <1>1, <3>1 DEF Settled
    <3>2. CASE ~closed' /\ dropped = {}
      <4>1. k = 1
        <5>. SUFFICES ASSUME k # 1 PROVE FALSE
          OBVIOUS
        <5>1. 1 \in 1 .. k - 1
          OBVIOUS
        <5>2. q[1] \in dropped
          <6>1. dropped = {q[i] : i \in 1 .. k - 1}
            BY <1>1, <3>2 DEF Settled
          <6>. QED
            BY <5>1, <6>1
        <5>. QED
          BY <3>2, <5>2
      <4>2. queue' = q
        BY <1>1, <3>2, <4>1 DEF Settled
      <4>. QED
        BY <1>1, <3>2, <4>2 DEF Settled
    <3>3. CASE ~closed' /\ dropped # {}
      BY <1>1, <2>1, <3>3 DEF Settled
    <3>. QED
      BY <3>1, <3>2, <3>3
  <2>5. \A r \in Requests : stage'[r] \in Active => r \in front
    <3>. SUFFICES ASSUME NEW r \in Requests, stage'[r] \in Active, r \notin front PROVE FALSE
      OBVIOUS
    <3>1. r \notin over /\ stage[r] \in Active
      BY <1>1 DEF Settled, Active
    <3>2. r \notin rs /\ q # <<>> /\ q[1] = r
      BY <1>1, <3>1 DEF Settled
    <3>3. ~closed' /\ queue' = <<>>
      BY <2>4, <3>2
    <3>4. k > 1
      BY <1>1, <3>2, <3>3 DEF Settled
    <3>5. 1 \in 1 .. k - 1
      BY <3>4
    <3>6. q[1] \in dropped
      <4>1. dropped = {q[i] : i \in 1 .. k - 1}
        BY <1>1, <3>3 DEF Settled
      <4>. QED
        BY <3>5, <4>1
    <3>. QED
      BY <1>1, <3>1, <3>2, <3>6 DEF Settled
  <2>6. PostedInv'
    <3>1. ASSUME NEW i \in DOMAIN posted', posted'[i][1] = "enqueue"
          PROVE  stage'[posted'[i][2]] \in {"posted", "done"}
      <4>1. posted'[i][2] \in Requests /\ posted'[i][2] \notin front
        BY <1>2, <3>1
      <4>. QED
        BY <1>1, <3>1, <4>1 DEF Settled
    <3>. QED
      BY <3>1 DEF PostedInv
  <2>7. QueueInv'
    <3>1. CASE queue' = <<>>
      BY <3>1 DEF QueueInv
    <3>2. CASE queue' = q /\ q # <<>> /\ front = {q[1]} /\ dropped = {}
      <4>1. ~closed'
        BY <3>2
      <4>2. ASSUME NEW i \in DOMAIN q PROVE stage'[q[i]] \in Active \cup {"queued"}
        <5>1. q[i] \in Requests /\ q[i] \notin rs
          OBVIOUS
        <5>2. q[i] \notin over
          BY <1>1, <3>2, <5>1 DEF Settled
        <5>3. i = 1 => q[i] \in front
          BY <3>2
        <5>4. i # 1 => stage[q[i]] \in Active \cup {"queued"}
          OBVIOUS
        <5>. QED
          BY <1>1, <5>1, <5>2, <5>3, <5>4 DEF Settled, Active, FirstStage
      <4>. QED
        BY <3>2, <4>1, <4>2 DEF QueueInv
    <3>. QED
      BY <2>4, <3>1, <3>2
  <2>8. WireInv'
    <3>1. \A r \in Requests : stage'[r] \in Active => queue' # <<>> /\ queue'[1] = r
      BY <2>4, <2>5
    <3>2. queue' # <<>> => stage'[queue'[1]] \in Active
      <4>. SUFFICES ASSUME queue' # <<>> PROVE stage'[queue'[1]] \in Active
        OBVIOUS
      <4>1. queue'[1] \in front
        BY <2>4
      <4>. QED
        BY <1>1, <4>1 DEF Settled, Active, FirstStage
    <3>3. ASSUME NEW r \in Requests
          PROVE  sent'[r] <= 1 /\ (stage'[r] \in {"none", "calling", "posted", "queued"} => sent'[r] = 0)
      <4>1. sent[r] \in Nat /\ sent[r] <= 1 /\ (stage[r] \in {"none", "calling", "posted", "queued"} => sent[r] = 0)
        BY DEF ChannelInv, StrandInv, WireInv, TypeOK
      <4>2. CASE r \in front
        <5>1. stage[r] \in {"posted", "queued"}
          BY <1>2, <2>3, <4>2
        <5>2. stage'[r] \in {"writing", "header"} /\ sent'[r] = sent[r] + 1
          BY <1>1, <4>2 DEF Settled, FirstStage
        <5>. QED
          BY <4>1, <5>1, <5>2
      <4>3. CASE r \notin front
        BY <1>1, <4>1, <4>3 DEF Settled
      <4>. QED
        BY <4>2, <4>3
    <3>. QED
      BY <3>1, <3>2, <3>3 DEF WireInv
  <2>9. ASSUME NEW r \in Requests \ rs PROVE stage[r] \notin Active
    <3>. SUFFICES ASSUME stage[r] \in Active PROVE FALSE
      OBVIOUS
    <3>1. q # <<>> /\ q[1] = r /\ ~closed'
      OBVIOUS
    <3>2. r \notin front \cup dropped
      BY <2>2
    <3>3. stage'[r] \in Active
      BY <1>1, <3>2 DEF Settled
    <3>. QED
      BY <2>5, <3>2, <3>3
  <2>10. \A r \in front : stage'[r] = FirstStage(r) /\ io'[r] = "busy"
    BY <1>1 DEF Settled
  <2>11. StreamInv'
    <3>. SUFFICES ASSUME ~undrained', ~broken', ~closed'
                  PROVE  /\ \A r \in Requests : Aligned(r)'
                         /\ (\A r \in Requests : stage'[r] \notin Active) => Quiet'
      BY DEF StreamInv
    <3>1. received = <<>> /\ inbound' = <<>>
      BY <2>9 DEF Quiet
    <3>2. CASE front \cap Empty = {}
      <4>1. Quiet'
        BY <1>1, <3>1, <3>2 DEF Settled, Quiet
      <4>2. \A r \in front : stage'[r] = "writing"
        BY <2>10, <3>2 DEF FirstStage
      <4>3. \A r \in Requests : Aligned(r)'
        BY <2>5, <2>10, <4>1, <4>2 DEF Aligned, Active
      <4>. QED
        BY <4>1, <4>3
    <3>3. CASE front \cap Empty # {}
      <4>1. PICK f \in Requests : front = {f} /\ f = Head(queue') /\ f \in Empty
        BY <1>1, <3>3 DEF Settled
      <4>2. received' = Append(<<>>, f)
        BY <1>1, <3>1, <3>3, <4>1 DEF Settled
      <4>3. Owes(f)'
        BY <3>1, <4>2 DEF Owes
      <4>4. stage'[f] = "header" /\ io'[f] = "busy"
        BY <2>10, <4>1 DEF FirstStage
      <4>5. Aligned(f)'
        BY <4>3, <4>4 DEF Aligned
      <4>6. \A r \in Requests : r # f => stage'[r] \notin Active
        BY <2>5, <4>1
      <4>7. \A r \in Requests : r # f => Aligned(r)'
        BY <4>6 DEF Aligned, Active
      <4>. QED
        BY <4>4, <4>5, <4>7 DEF Active
    <3>. QED
      BY <3>2, <3>3
  <2>12. PartInv'
    BY <2>5, <2>10 DEF PartInv
  <2>. QED
    BY <2>6, <2>7, <2>8, <2>11, <2>12 DEF StrandInv
<1>. QED
  BY <1>1, <1>5, <1>6, <1>7, <1>8, <1>9, <1>10 DEF Settled, StrandTypes

\* A task leaves the front of the strand.
LEMMA TaskTaken ==
    ASSUME ChannelInv, ~restarted, posted # <<>>, posted' = Tail(posted)
    PROVE  /\ posted' \in Seq({"enqueue", "cancel"} \X Requests)
           /\ \A i \in DOMAIN posted' : i + 1 \in DOMAIN posted /\ posted'[i] = posted[i + 1]
           /\ \A i \in DOMAIN posted' : posted'[i][1] = "enqueue" =>
                 stage[posted'[i][2]] \in {"posted", "done"} /\ posted'[i] # posted[1]
           /\ \A i, j \in DOMAIN posted' : posted'[i][1] = "enqueue" /\ posted'[i] = posted'[j] => i = j
<1>1. posted \in Seq({"enqueue", "cancel"} \X Requests) /\ PostedInv
  BY DEF ChannelInv, StrandInv, TypeOK
<1>2. posted' \in Seq({"enqueue", "cancel"} \X Requests)
  BY <1>1
<1>3. \A i \in DOMAIN posted' : i \in Nat /\ i >= 1 /\ i + 1 \in DOMAIN posted /\ posted'[i] = posted[i + 1]
  BY <1>1
<1>4. 1 \in DOMAIN posted
  BY <1>1
<1>5. \A i \in DOMAIN posted' : posted'[i][1] = "enqueue" =>
                 stage[posted'[i][2]] \in {"posted", "done"} /\ posted'[i] # posted[1]
  BY <1>1, <1>3, <1>4 DEF PostedInv
<1>6. \A i, j \in DOMAIN posted' : posted'[i][1] = "enqueue" /\ posted'[i] = posted'[j] => i = j
  BY <1>1, <1>3 DEF PostedInv
<1>. QED
  BY <1>2, <1>3, <1>5, <1>6

\* finish() of a request, from a task or from a handler.
LEMMA FinishInv ==
    ASSUME ChannelInv, ~restarted, NEW r \in Requests, NEW proposed \in {"ok", "error"},
           closed' = closed, Finish(r, proposed),
           posted' = posted \/ (posted # <<>> /\ posted' = Tail(posted)),
           (\A x \in Requests \ {r} : stage[x] \notin Active) /\ ~undrained' /\ ~broken' /\ ~closed => Quiet,
           inbound' = inbound
    PROVE  StrandTypes' /\ AnsweredOnce' /\ (~restarted' => StrandInv')
<1>0. /\ queue \in Seq(Requests) /\ closed \in BOOLEAN /\ PostedInv /\ QueueInv /\ WireInv
      /\ posted \in Seq({"enqueue", "cancel"} \X Requests)
  BY DEF ChannelInv, StrandInv, TypeOK
<1>1. PICK e : e = Erase(queue, r)
  OBVIOUS
<1>2. \A i, j \in DOMAIN queue : queue[i] = queue[j] => i = j
  BY <1>0 DEF QueueInv
<1>3. /\ e \in Seq(Requests)
      /\ \A i, j \in DOMAIN e : e[i] = e[j] => i = j
      /\ \A i \in DOMAIN e : e[i] # r /\ \E j \in DOMAIN queue : e[i] = queue[j]
      /\ queue # <<>> /\ queue[1] # r => e # <<>> /\ e[1] = queue[1]
      /\ queue = <<>> => e = <<>>
  BY <1>0, <1>1, <1>2, EraseFacts
<1>4. \A i \in DOMAIN e : e[i] \notin {r}
  BY <1>3
<1>5. \A i \in DOMAIN e : stage[e[i]] \in Active \cup {"queued"}
  BY <1>0, <1>3 DEF QueueInv
<1>6. \A x \in Requests : stage[x] \in Active => x \in {r} \/ (e # <<>> /\ e[1] = x)
  BY <1>0, <1>3 DEF WireInv
<1>7. closed' => e = <<>>
  BY <1>0, <1>3 DEF QueueInv
<1>8. /\ posted' \in Seq({"enqueue", "cancel"} \X Requests)
      /\ \A i \in DOMAIN posted' : posted'[i][1] = "enqueue" => stage[posted'[i][2]] \in {"posted", "done"}
      /\ \A i, j \in DOMAIN posted' : posted'[i][1] = "enqueue" /\ posted'[i] = posted'[j] => i = j
  <2>1. CASE posted' = posted
    BY <1>0, <2>1 DEF PostedInv
  <2>2. CASE posted # <<>> /\ posted' = Tail(posted)
    BY <2>2, TaskTaken
  <2>. QED
    BY <2>1, <2>2
<1>9. \A i \in DOMAIN posted' : posted'[i][1] = "enqueue" =>
              /\ stage[posted'[i][2]] \in {"posted", "done"}
              /\ \A j \in DOMAIN e : e[j] # posted'[i][2]
  BY <1>5, <1>8 DEF Active
<1>10. Settle({r}, proposed, e)
  BY <1>1 DEF Finish
<1>11. {r} \in SUBSET Requests /\ closed' \in BOOLEAN
  BY <1>0
<1>12. MaySettle({r}, e)
  BY <1>3, <1>4, <1>5, <1>6, <1>7, <1>8, <1>9 DEF MaySettle
<1>. QED
  BY <1>3, <1>10, <1>11, <1>12, SettleInv

-----------------------------------------------------------------------------
\* What is left to show of a step that settles.
LEMMA SettledInv ==
    ASSUME ChannelInv, StrandTypes', AnsweredOnce', ~restarted' => StrandInv',
           posted' = posted \/ (posted # <<>> /\ posted' = Tail(posted)),
           closed' \in BOOLEAN, undrained' \in BOOLEAN, undrained => undrained',
           \A r \in Requests : response'[r] = response[r] \/ response'[r] \in {0, r} \/ undrained',
           response' \in [Requests -> 0 .. N],
           UNCHANGED <<part, handler, inbound, broken, drain_on_cancel>>
    PROVE  ChannelInv'
<1>1. posted' \in Seq({"enqueue", "cancel"} \X Requests)
  <2>1. posted \in Seq({"enqueue", "cancel"} \X Requests)
    BY DEF ChannelInv, TypeOK
  <2>2. posted # <<>> => Tail(posted) \in Seq({"enqueue", "cancel"} \X Requests)
    BY <2>1
  <2>. QED
    BY <2>1, <2>2
<1>2. TypeOK'
  BY <1>1 DEF ChannelInv, TypeOK, StrandTypes
<1>3. ResponsesDrained'
  BY DEF ChannelInv, ResponsesDrained
<1>. QED
  BY <1>2, <1>3 DEF ChannelInv

\* A refused or cancelled request that is not active is answered; the stream is
\* what it was.
LEMMA WaitingInv ==
    ASSUME ChannelInv, NEW r \in Requests, EnqueueRefused(r) \/ CancelWaiting(r)
    PROVE  ChannelInv'
<1>0. /\ ~restarted /\ posted # <<>> /\ posted' = Tail(posted)
      /\ closed' = closed /\ stage[r] \notin Active
      /\ UNCHANGED <<part, response, handler, inbound, broken, undrained, drain_on_cancel>>
      /\ TypeOK /\ StrandInv
  <2>1. CASE EnqueueRefused(r)
    <3>1. /\ ~restarted /\ posted # <<>> /\ posted' = Tail(posted) /\ posted[1] = <<"enqueue", r>>
          /\ closed' = closed /\ UNCHANGED <<part, response, handler, inbound, broken, undrained, drain_on_cancel>>
      BY <2>1 DEF EnqueueRefused, Task
    <3>2. TypeOK /\ StrandInv
      BY <3>1 DEF ChannelInv
    <3>3. 1 \in DOMAIN posted /\ posted[1][1] = "enqueue" /\ posted[1][2] = r
      BY <3>1, <3>2 DEF TypeOK
    <3>4. stage[r] \in {"posted", "done"}
      BY <3>2, <3>3 DEF StrandInv, PostedInv
    <3>. QED
      BY <3>1, <3>2, <3>4 DEF Active
  <2>2. CASE CancelWaiting(r)
    BY <2>2 DEF CancelWaiting, Task, ChannelInv
  <2>. QED
    BY <2>1, <2>2
<1>1. CASE Done(r)
  <2>1. UNCHANGED <<strandVars, op, received, restarted>>
    BY <1>1 DEF EnqueueRefused, CancelWaiting
  <2>2. StrandTypes'
    BY <1>0, <2>1 DEF TypeOK, StrandTypes, strandVars
  <2>3. AnsweredOnce'
    BY <2>1 DEF ChannelInv, AnsweredOnce, Done, strandVars
  <2>4. PostedInv'
    BY <1>0, <2>1, TaskTaken DEF PostedInv, strandVars
  <2>5. QueueInv' /\ WireInv'
    BY <1>0, <2>1 DEF StrandInv, QueueInv, WireInv, strandVars
  <2>6. StreamInv' /\ PartInv'
    BY <1>0, <2>1 DEF StrandInv, StreamInv, PartInv, Aligned, Quiet, Owes, OwesPayload, strandVars
  <2>. QED
    BY <1>0, <2>1, <2>2, <2>3, <2>4, <2>5, <2>6, SettledInv DEF StrandInv, TypeOK
<1>2. CASE ~Done(r)
  <2>1. Finish(r, "error")
    BY <1>2 DEF EnqueueRefused, CancelWaiting
  <2>2. (\A x \in Requests \ {r} : stage[x] \notin Active) /\ ~undrained' /\ ~broken' /\ ~closed => Quiet
    BY <1>0 DEF StrandInv, StreamInv, Quiet
  <2>3. StrandTypes' /\ AnsweredOnce' /\ (~restarted' => StrandInv')
    BY <1>0, <2>1, <2>2, FinishInv
  <2>. QED
    BY <1>0, <2>3, SettledInv DEF TypeOK
<1>. QED
  BY <1>1, <1>2

\* A handler that ends the exchange of the active request.
LEMMA HandlerInv ==
    ASSUME ChannelInv, NEW r \in Requests, NEW proposed \in {"ok", "error"},
           ~restarted, stage[r] \in Active, Finish(r, proposed),
           closed' = closed, undrained' \in BOOLEAN, undrained => undrained',
           \A x \in Requests : response'[x] = response[x] \/ response'[x] \in {0, x} \/ undrained',
           response' \in [Requests -> 0 .. N],
           UNCHANGED <<posted, part, handler, inbound, broken, drain_on_cancel>>,
           ~undrained' /\ ~broken /\ ~closed => Quiet
    PROVE  ChannelInv'
<1>1. (\A x \in Requests \ {r} : stage[x] \notin Active) /\ ~undrained' /\ ~broken' /\ ~closed => Quiet
  BY DEF Quiet
<1>2. StrandTypes' /\ AnsweredOnce' /\ (~restarted' => StrandInv')
  BY <1>1, FinishInv
<1>3. closed' \in BOOLEAN
  BY DEF ChannelInv, TypeOK
<1>. QED
  BY <1>2, <1>3, SettledInv

\* The handler of a failed or aborted operation.
LEMMA OnErrorInv ==
    ASSUME ChannelInv, NEW r \in Requests, OnError(r)
    PROVE  ChannelInv'
<1>1. /\ ~restarted /\ stage[r] \in Active /\ Finish(r, "error")
      /\ closed' = closed /\ undrained' = (undrained \/ (io[r] = "aborted"))
      /\ UNCHANGED <<posted, part, response, handler, inbound, broken, drain_on_cancel>>
      /\ io[r] \in {"failed", "aborted"}
  BY DEF OnError, In
<1>2. ~undrained' => broken
  BY <1>1 DEF ChannelInv, StrandInv, PartInv
<1>3. undrained' \in BOOLEAN /\ (undrained => undrained') /\ response' \in [Requests -> 0 .. N]
  BY <1>1 DEF ChannelInv, TypeOK
<1>. QED
  BY <1>1, <1>2, <1>3, HandlerInv

\* The handler of the payload: what was read is the request's own.
LEMMA OnPayloadInv ==
    ASSUME ChannelInv, NEW r \in Requests, OnPayload(r)
    PROVE  ChannelInv'
<1>1. /\ ~restarted /\ stage[r] = "payload" /\ stage[r] \in Active /\ io[r] = "ready" /\ Finish(r, "ok")
      /\ closed' = closed /\ undrained' = undrained
      /\ response' = [response EXCEPT ![r] = IF op[r] = "pending" THEN part[r][1] ELSE 0]
      /\ UNCHANGED <<posted, part, handler, inbound, broken, drain_on_cancel>>
  BY DEF OnPayload, In, Active
<1>2. StrandInv /\ TypeOK
  BY <1>1 DEF ChannelInv
<1>3. ~undrained => part[r] = <<r, "payload">>
  BY <1>1, <1>2 DEF StrandInv, PartInv
<1>4. part[r] \in Parts
  BY <1>1, <1>2 DEF StrandInv, PartInv
<1>5. part[r][1] \in 0 .. N
  BY <1>4, NAssumption DEF Parts, Requests
<1>6. response' \in [Requests -> 0 .. N]
  BY <1>1, <1>2, <1>5, NAssumption DEF TypeOK
<1>7. \A x \in Requests : response'[x] = response[x] \/ response'[x] \in {0, x} \/ undrained'
  BY <1>1, <1>2, <1>3 DEF TypeOK
<1>8. ~undrained' /\ ~broken /\ ~closed => Quiet
  BY <1>1, <1>2 DEF StrandInv, StreamInv, Aligned
<1>9. undrained' \in BOOLEAN
  BY <1>1, <1>2 DEF TypeOK
<1>. QED
  BY <1>1, <1>6, <1>7, <1>8, <1>9, HandlerInv

\* The active request goes on to its next stage: the invariant is that of its
\* next operation.
LEMMA ProceedInv ==
    ASSUME ChannelInv, NEW r \in Requests, NEW next \in {"header", "payload"},
           ~restarted, stage[r] \in Active, Proceed(r, next),
           UNCHANGED <<posted, closed, part, response, handler, inbound, broken, undrained, drain_on_cancel>>,
           ~undrained /\ ~broken /\ ~closed => IF next = "header" THEN Owes(r) ELSE OwesPayload(r)
    PROVE  ChannelInv'
<1>1. TypeOK /\ StrandInv /\ AnsweredOnce /\ ResponsesDrained
  BY DEF ChannelInv
<1>2. /\ stage' = [stage EXCEPT ![r] = next] /\ io' = [io EXCEPT ![r] = "busy"]
      /\ UNCHANGED <<queue, timer, result, answers, sent, op, received, restarted>>
  BY DEF Proceed
<1>3. TypeOK'
  BY <1>1, <1>2 DEF TypeOK, Stages, Active
<1>4. \A x \in Requests : /\ stage'[x] = IF x = r THEN next ELSE stage[x]
                          /\ io'[x] = IF x = r THEN "busy" ELSE io[x]
  BY <1>1, <1>2 DEF TypeOK
<1>5. \A x \in Requests : (stage'[x] \in Active <=> stage[x] \in Active) /\ (stage'[x] = stage[x] \/ x = r)
  BY <1>4 DEF Active
<1>6. AnsweredOnce' /\ ResponsesDrained'
  BY <1>1, <1>2, <1>4 DEF AnsweredOnce, ResponsesDrained, Done, Active
<1>7. PostedInv'
  <2>1. \A i \in DOMAIN posted : posted[i][2] \in Requests
    BY <1>1 DEF TypeOK
  <2>2. \A i \in DOMAIN posted : posted[i][1] = "enqueue" => stage'[posted[i][2]] = stage[posted[i][2]]
    BY <1>1, <1>4, <2>1 DEF StrandInv, PostedInv, Active
  <2>. QED
    BY <1>1, <2>2 DEF StrandInv, PostedInv
<1>8. QueueInv'
  <2>1. \A i \in DOMAIN queue : queue[i] \in Requests
    BY <1>1 DEF TypeOK
  <2>. QED
    BY <1>1, <1>2, <1>4, <1>5, <2>1 DEF StrandInv, QueueInv, Active
<1>9. WireInv'
  <2>1. queue # <<>> => queue[1] \in Requests
    BY <1>1 DEF TypeOK
  <2>. QED
    BY <1>1, <1>2, <1>4, <1>5, <2>1 DEF StrandInv, WireInv, Active
<1>10. \A x \in Requests : x # r => stage[x] \notin Active
  BY <1>1 DEF StrandInv, WireInv
<1>11. StreamInv'
  <2>. SUFFICES ASSUME ~undrained, ~broken, ~closed
                PROVE  (\A x \in Requests : Aligned(x)') /\ ~(\A x \in Requests : stage'[x] \notin Active)
    BY DEF StreamInv
  <2>1. Aligned(r)'
    BY <1>2, <1>4 DEF Aligned, Owes, OwesPayload
  <2>2. \A x \in Requests : x # r => Aligned(x)'
    BY <1>4, <1>10 DEF Aligned, Active
  <2>. QED
    BY <1>5, <2>1, <2>2
<1>12. PartInv'
  BY <1>1, <1>4, <1>5, <1>10 DEF StrandInv, PartInv
<1>. QED
  BY <1>3, <1>6, <1>7, <1>8, <1>9, <1>11, <1>12 DEF ChannelInv, StrandInv

\* The handler of the write.
LEMMA OnWrittenInv ==
    ASSUME ChannelInv, NEW r \in Requests, OnWritten(r)
    PROVE  ChannelInv'
<1>1. /\ ~restarted /\ stage[r] = "writing" /\ stage[r] \in Active /\ io[r] = "ready"
      /\ UNCHANGED <<posted, closed, part, response, handler, inbound, broken, drain_on_cancel>>
  BY DEF OnWritten, In, Active
<1>2. StrandInv /\ TypeOK
  BY <1>1 DEF ChannelInv
<1>3. ~undrained /\ ~broken /\ ~closed => IF r \in Silent THEN Quiet ELSE Owes(r)
  BY <1>1, <1>2 DEF StrandInv, StreamInv, Aligned
<1>4. CASE op[r] = "completed" \/ r \in Silent
  <2>1. Finish(r, "ok") /\ undrained' = (undrained \/ r \notin Silent)
    BY <1>4 DEF OnWritten
  <2>2. undrained' \in BOOLEAN /\ (undrained => undrained') /\ response' \in [Requests -> 0 .. N]
    BY <1>1, <1>2, <2>1 DEF TypeOK
  <2>3. ~undrained' /\ ~broken /\ ~closed => Quiet
    BY <1>3, <2>1
  <2>. QED
    BY <1>1, <2>1, <2>2, <2>3, HandlerInv
<1>5. CASE ~(op[r] = "completed" \/ r \in Silent)
  <2>1. Proceed(r, "header") /\ undrained' = undrained
    BY <1>5 DEF OnWritten
  <2>. QED
    BY <1>1, <1>3, <1>5, <2>1, ProceedInv
<1>. QED
  BY <1>4, <1>5

\* The handler of the header.
LEMMA OnHeaderInv ==
    ASSUME ChannelInv, NEW r \in Requests, OnHeader(r)
    PROVE  ChannelInv'
<1>1. /\ ~restarted /\ stage[r] = "header" /\ stage[r] \in Active /\ io[r] = "ready"
      /\ UNCHANGED <<posted, closed, part, response, handler, inbound, broken, drain_on_cancel>>
  BY DEF OnHeader, In, Active
<1>2. StrandInv /\ TypeOK
  BY <1>1 DEF ChannelInv
<1>3. CASE Proceed(r, "payload") /\ undrained' = undrained
  <2>1. ~undrained /\ ~broken /\ ~closed => OwesPayload(r)
    BY <1>1, <1>2 DEF StrandInv, StreamInv, Aligned
  <2>. QED
    BY <1>1, <1>3, <2>1, ProceedInv
<1>4. CASE Finish(r, "error") /\ undrained' = TRUE
  <2>1. undrained' \in BOOLEAN /\ response' \in [Requests -> 0 .. N]
    BY <1>1, <1>2, <1>4 DEF TypeOK
  <2>. QED
    BY <1>1, <1>4, <2>1, HandlerInv
<1>. QED
  BY <1>3, <1>4 DEF OnHeader

-----------------------------------------------------------------------------
\* close() answers everything in the queue; nothing is started any more.
LEMMA CloseInv ==
    ASSUME ChannelInv, Close
    PROVE  ChannelInv'
<1>1. /\ ~restarted /\ closed' = TRUE
      /\ Settle({queue[i] : i \in DOMAIN queue}, "error", <<>>)
      /\ UNCHANGED <<posted, part, response, handler, inbound, broken, undrained, drain_on_cancel>>
  BY DEF Close
<1>2. StrandInv /\ TypeOK
  BY <1>1 DEF ChannelInv
<1>3. PICK rs \in SUBSET Requests : rs = {queue[i] : i \in DOMAIN queue}
  <2>1. \A i \in DOMAIN queue : queue[i] \in Requests
    BY <1>2 DEF TypeOK
  <2>2. {queue[i] : i \in DOMAIN queue} \in SUBSET Requests
    BY <2>1
  <2>. QED
    BY <2>2
<1>4. \A r \in Requests : stage[r] \in Active => r \in rs
  BY <1>2, <1>3 DEF StrandInv, WireInv, TypeOK
<1>5. MaySettle(rs, <<>>)
  BY <1>1, <1>2, <1>4 DEF MaySettle, StrandInv, PostedInv, TypeOK
<1>6. <<>> \in Seq(Requests)
  OBVIOUS
<1>7. StrandTypes' /\ AnsweredOnce' /\ (~restarted' => StrandInv')
  BY <1>1, <1>3, <1>5, <1>6, SettleInv
<1>. QED
  BY <1>1, <1>2, <1>7, SettledInv DEF TypeOK

\* enqueue() of a request that can be served.
LEMMA EnqueueInv ==
    ASSUME ChannelInv, NEW r \in Requests, Enqueue(r)
    PROVE  ChannelInv'
<1>1. /\ ~restarted /\ posted # <<>> /\ posted[1] = <<"enqueue", r>> /\ posted' = Tail(posted)
      /\ ~Done(r) /\ ~closed /\ closed' = closed
      /\ UNCHANGED <<part, response, handler, inbound, broken, undrained, drain_on_cancel>>
  BY DEF Enqueue, Task
<1>2. StrandInv /\ TypeOK
  BY <1>1 DEF ChannelInv
<1>3. 1 \in DOMAIN posted /\ posted[1][1] = "enqueue" /\ posted[1][2] = r
  BY <1>1, <1>2 DEF TypeOK
<1>4. stage[r] = "posted"
  BY <1>1, <1>2, <1>3 DEF StrandInv, PostedInv, Done
<1>5. /\ posted' \in Seq({"enqueue", "cancel"} \X Requests)
      /\ \A i \in DOMAIN posted' : posted'[i][1] = "enqueue" =>
            stage[posted'[i][2]] \in {"posted", "done"} /\ posted'[i] # posted[1]
      /\ \A i, j \in DOMAIN posted' : posted'[i][1] = "enqueue" /\ posted'[i] = posted'[j] => i = j
  BY <1>1, TaskTaken
<1>6. \A i \in DOMAIN posted' : posted'[i][1] = "enqueue" => posted'[i][2] # r
  <2>. SUFFICES ASSUME NEW i \in DOMAIN posted', posted'[i][1] = "enqueue", posted'[i][2] = r PROVE FALSE
    OBVIOUS
  <2>1. posted'[i] = <<"enqueue", r>>
    BY <1>5
  <2>. QED
    BY <1>1, <1>5, <2>1
<1>7. CASE queue = <<>>
  <2>1. Settle({}, "ok", <<r>>)
    BY <1>7 DEF Enqueue
  <2>2. PICK q \in Seq(Requests) : q = <<r>>
    <3>1. <<r>> \in Seq(Requests)
      OBVIOUS
    <3>. QED
      BY <3>1
  <2>3. DOMAIN q = {1} /\ q[1] = r /\ q # <<>>
    BY <2>2
  <2>4. \A x \in Requests : stage[x] \notin Active
    BY <1>2, <1>7 DEF StrandInv, WireInv
  <2>5. ~undrained /\ ~broken /\ ~closed => Quiet
    BY <1>2, <2>4 DEF StrandInv, StreamInv
  <2>6. ~undrained' /\ ~broken' /\ ~closed' => Quiet
    BY <1>1, <2>5
  <2>7. MaySettle({}, q)
    BY <1>1, <1>4, <1>5, <1>6, <2>3, <2>4, <2>6 DEF MaySettle
  <2>8. closed' \in BOOLEAN /\ {} \in SUBSET Requests
    BY <1>1, <1>2 DEF TypeOK
  <2>9. StrandTypes' /\ AnsweredOnce' /\ (~restarted' => StrandInv')
    BY <1>1, <2>1, <2>2, <2>7, <2>8, SettleInv
  <2>. QED
    BY <1>1, <1>2, <2>9, SettledInv DEF TypeOK
<1>8. CASE queue # <<>>
  <2>1. /\ queue' = Append(queue, r) /\ stage' = [stage EXCEPT ![r] = "queued"]
        /\ UNCHANGED <<io, timer, result, answers, sent, op, received, restarted>>
    BY <1>8 DEF Enqueue
  <2>2. \A x \in Requests : stage'[x] = IF x = r THEN "queued" ELSE stage[x]
    BY <1>2, <2>1 DEF TypeOK
  <2>3. /\ queue \in Seq(Requests) /\ queue' \in Seq(Requests) /\ Len(queue) \in Nat
        /\ Len(queue') = Len(queue) + 1 /\ DOMAIN queue = 1 .. Len(queue) /\ DOMAIN queue' = 1 .. Len(queue) + 1
        /\ \A i \in 1 .. Len(queue) : queue'[i] = queue[i] /\ queue[i] \in Requests
        /\ queue'[Len(queue) + 1] = r
    BY <1>2, <2>1 DEF TypeOK
  <2>4. TypeOK'
    BY <1>1, <1>2, <1>5, <2>1, <2>3 DEF TypeOK, Stages
  <2>5. AnsweredOnce' /\ ResponsesDrained'
    BY <1>1, <1>4, <2>1, <2>2 DEF ChannelInv, AnsweredOnce, ResponsesDrained, Done
  <2>6. \A i \in DOMAIN queue : queue[i] # r
    BY <1>2, <1>4 DEF StrandInv, QueueInv, Active
  <2>7. PostedInv'
    BY <1>5, <1>6, <2>2 DEF PostedInv
  <2>8. QueueInv'
    <3>1. \A i, j \in DOMAIN queue' : queue'[i] = queue'[j] => i = j
      BY <1>2, <2>3, <2>6 DEF StrandInv, QueueInv
    <3>2. \A i \in DOMAIN queue' : stage'[queue'[i]] \in Active \cup {"queued"}
      BY <1>2, <2>2, <2>3, <2>6 DEF StrandInv, QueueInv
    <3>. QED
      BY <1>1, <3>1, <3>2 DEF QueueInv
  <2>9. WireInv'
    <3>1. 1 \in DOMAIN queue /\ queue'[1] = queue[1] /\ queue' # <<>>
      BY <1>8, <2>3
    <3>2. \A x \in Requests : stage'[x] \in Active => queue' # <<>> /\ queue'[1] = x
      BY <1>2, <2>2, <3>1 DEF StrandInv, WireInv, Active
    <3>3. queue[1] \in Requests /\ queue[1] # r /\ stage'[queue'[1]] \in Active
      BY <1>2, <1>8, <2>2, <2>3, <2>6, <3>1 DEF StrandInv, WireInv
    <3>. QED
      BY <1>2, <1>4, <2>1, <2>2, <3>2, <3>3 DEF StrandInv, WireInv
  <2>10. \A x \in Requests : stage'[x] \in Active <=> stage[x] \in Active
    BY <1>4, <2>2 DEF Active
  <2>11. StreamInv'
    <3>. SUFFICES ASSUME ~undrained, ~broken, ~closed
                  PROVE  /\ \A x \in Requests : Aligned(x)'
                         /\ (\A x \in Requests : stage'[x] \notin Active) => Quiet'
      BY <1>1 DEF StreamInv
    <3>1. \A x \in Requests : Aligned(x)'
      BY <1>1, <1>2, <2>1, <2>2 DEF StrandInv, StreamInv, Aligned, Quiet, Owes, OwesPayload
    <3>2. (\A x \in Requests : stage'[x] \notin Active) => Quiet'
      BY <1>1, <1>2, <2>1, <2>10 DEF StrandInv, StreamInv, Quiet
    <3>. QED
      BY <3>1, <3>2
  <2>12. PartInv'
    BY <1>1, <1>2, <2>1, <2>2 DEF StrandInv, PartInv, Active
  <2>. QED
    BY <2>4, <2>5, <2>7, <2>8, <2>9, <2>11, <2>12 DEF ChannelInv, StrandInv
<1>. QED
  BY <1>7, <1>8

-----------------------------------------------------------------------------
\* A task is posted for a request that has not been posted before, or cancelled.
LEMMA PostedGrows ==
    ASSUME TypeOK, NEW r \in Requests, NEW kind \in {"enqueue", "cancel"},
           posted' = Append(posted, <<kind, r>>)
    PROVE  /\ posted' \in Seq({"enqueue", "cancel"} \X Requests)
           /\ \A i \in DOMAIN posted' : (i \in DOMAIN posted /\ posted'[i] = posted[i]) \/ posted'[i] = <<kind, r>>
           /\ \A i, j \in DOMAIN posted' : i = j \/ i \in DOMAIN posted \/ j \in DOMAIN posted
           /\ \A i \in DOMAIN posted : posted'[i] = posted[i]
<1>1. posted \in Seq({"enqueue", "cancel"} \X Requests) /\ <<kind, r>> \in {"enqueue", "cancel"} \X Requests
  BY DEF TypeOK
<1>. QED
  BY <1>1

\* A step of the callers: tasks may be added, requests that are not in the
\* strand's hands may change their stage.
LEMMA CallersInv ==
    ASSUME ChannelInv, TypeOK', ~restarted => PostedInv', NEW r \in Requests,
           stage' = stage \/ (~restarted /\ stage[r] \in {"none", "calling"}
                              /\ \E s \in {"calling", "posted"} : stage' = [stage EXCEPT ![r] = s]),
           UNCHANGED <<queue, io, part, response, result, answers, sent, closed, deviceVars, undrained, restarted>>
    PROVE  ChannelInv'
<1>1. TypeOK /\ AnsweredOnce /\ ResponsesDrained
  BY DEF ChannelInv
<1>2. \A x \in Requests : /\ stage'[x] \in Active <=> stage[x] \in Active
                          /\ stage'[x] = "done" <=> stage[x] = "done"
                          /\ stage'[x] # stage[x] => /\ stage[x] \in {"none", "calling"}
                                                     /\ stage'[x] \in {"calling", "posted"}
  BY <1>1, SMTT(60) DEF TypeOK, Active
<1>3. AnsweredOnce' /\ ResponsesDrained'
  BY <1>1, <1>2 DEF AnsweredOnce, ResponsesDrained, Done
<1>4. ASSUME ~restarted' PROVE StrandInv'
  <2>1. StrandInv
    BY <1>4 DEF ChannelInv
  <2>2. \A i \in DOMAIN queue : queue[i] \in Requests
    BY <1>1 DEF TypeOK
  <2>3. QueueInv'
    BY <1>2, <2>1, <2>2 DEF StrandInv, QueueInv, Active
  <2>4. WireInv'
    <3>1. queue # <<>> => queue[1] \in Requests
      BY <1>1 DEF TypeOK
    <3>2. queue # <<>> => stage'[queue[1]] \in Active
      BY <1>2, <2>1, <3>1 DEF StrandInv, WireInv
    <3>3. \A x \in Requests : stage'[x] \in {"none", "calling", "posted", "queued"} =>
                                 stage[x] \in {"none", "calling", "posted", "queued"}
      BY <1>2
    <3>. QED
      BY <1>2, <2>1, <3>2, <3>3 DEF StrandInv, WireInv
  <2>5. \A x \in Requests : stage[x] \in Active => stage'[x] = stage[x]
    BY <1>2 DEF Active
  <2>6. StreamInv'
    <3>. SUFFICES ASSUME ~undrained, ~broken, ~closed
                  PROVE  /\ \A x \in Requests : Aligned(x)'
                         /\ (\A x \in Requests : stage'[x] \notin Active) => Quiet'
      BY DEF StreamInv, deviceVars
    <3>1. ASSUME NEW x \in Requests, stage[x] \in Active PROVE Aligned(x)'
      <4>1. Aligned(x) /\ stage'[x] = stage[x]
        BY <2>1, <2>5, <3>1 DEF StrandInv, StreamInv
      <4>. QED
        BY <4>1 DEF Aligned, Quiet, Owes, OwesPayload, deviceVars
    <3>2. ASSUME NEW x \in Requests, stage[x] \notin Active PROVE Aligned(x)'
      BY <1>2, <3>2 DEF Aligned, Active
    <3>3. (\A x \in Requests : stage'[x] \notin Active) => Quiet'
      BY <1>2, <2>1 DEF StrandInv, StreamInv, Quiet, deviceVars
    <3>. QED
      BY <3>1, <3>2, <3>3
  <2>7. PartInv'
    BY <1>2, <2>1, <2>5 DEF StrandInv, PartInv, deviceVars
  <2>. QED
    BY <1>4, <2>3, <2>4, <2>6, <2>7 DEF StrandInv
<1>. QED
  BY <1>3, <1>4 DEF ChannelInv

\* exchange() and the task it posts; the cancellation of an Operation.
LEMMA ExchangeInv ==
    ASSUME ChannelInv, NEW r \in Requests,
           Exchange(r) \/ Post(r) \/ RequestCancel(r) \/ DeadlinePasses(r)
    PROVE  ChannelInv'
<1>1. TypeOK /\ (~restarted => PostedInv)
  BY DEF ChannelInv, StrandInv
<1>2. CASE Exchange(r)
  <2>1. /\ stage[r] = "none" /\ ~restarted /\ stage' = [stage EXCEPT ![r] = "calling"]
        /\ UNCHANGED <<posted, queue, io, part, response, result, answers, sent, closed, deviceVars,
                       undrained, restarted>>
    BY <1>2 DEF Exchange, In
  <2>2. TypeOK'
    BY <1>1, <1>2 DEF Exchange, TypeOK, Stages, deviceVars
  <2>3. PostedInv'
    BY <1>1, <2>1 DEF PostedInv, TypeOK
  <2>. QED
    BY <2>1, <2>2, <2>3, CallersInv
<1>3. CASE Post(r)
  <2>1. /\ stage[r] = "calling" /\ ~restarted /\ stage' = [stage EXCEPT ![r] = "posted"]
        /\ posted' = Append(posted, <<"enqueue", r>>)
        /\ UNCHANGED <<queue, io, part, response, result, answers, sent, closed, deviceVars,
                       undrained, restarted>>
    BY <1>3 DEF Post, In
  <2>2. /\ posted' \in Seq({"enqueue", "cancel"} \X Requests)
        /\ \A i \in DOMAIN posted' : (i \in DOMAIN posted /\ posted'[i] = posted[i]) \/ posted'[i] = <<"enqueue", r>>
        /\ \A i, j \in DOMAIN posted' : i = j \/ i \in DOMAIN posted \/ j \in DOMAIN posted
        /\ \A i \in DOMAIN posted : posted'[i] = posted[i]
    BY <1>1, <2>1, PostedGrows
  <2>3. TypeOK'
    BY <1>1, <1>3, <2>2 DEF Post, TypeOK, Stages, deviceVars, opVars
  <2>4. \A i \in DOMAIN posted : posted[i] # <<"enqueue", r>> /\ posted[i][2] \in Requests
    <3>1. \A i \in DOMAIN posted : posted[i] \in {"enqueue", "cancel"} \X Requests
      BY <1>1 DEF TypeOK
    <3>2. \A i \in DOMAIN posted : posted[i][1] = "enqueue" => posted[i][2] # r
      BY <1>1, <2>1 DEF PostedInv
    <3>. QED
      BY <3>1, <3>2
  <2>5. \A x \in Requests : stage'[x] = IF x = r THEN "posted" ELSE stage[x]
    BY <1>1, <2>1 DEF TypeOK
  <2>6. ASSUME NEW i \in DOMAIN posted', posted'[i][1] = "enqueue"
        PROVE  stage'[posted'[i][2]] \in {"posted", "done"}
    BY <1>1, <2>1, <2>2, <2>4, <2>5, <2>6 DEF PostedInv
  <2>7. ASSUME NEW i \in DOMAIN posted', NEW j \in DOMAIN posted',
               posted'[i][1] = "enqueue", posted'[i] = posted'[j]
        PROVE  i = j
    BY <1>1, <2>1, <2>2, <2>4, <2>7 DEF PostedInv
  <2>8. PostedInv'
    BY <2>6, <2>7 DEF PostedInv
  <2>. QED
    BY <2>1, <2>3, <2>8, CallersInv
<1>4. ASSUME posted' = posted \/ posted' = Append(posted, <<"cancel", r>>), stage' = stage
      PROVE  posted' \in Seq({"enqueue", "cancel"} \X Requests) /\ (~restarted => PostedInv')
  <2>1. CASE posted' = posted
    BY <1>1, <1>4, <2>1 DEF PostedInv, TypeOK
  <2>2. CASE posted' = Append(posted, <<"cancel", r>>)
    <3>1. /\ posted' \in Seq({"enqueue", "cancel"} \X Requests)
          /\ \A i \in DOMAIN posted' : (i \in DOMAIN posted /\ posted'[i] = posted[i]) \/ posted'[i] = <<"cancel", r>>
      BY <1>1, <2>2, PostedGrows
    <3>2. \A i \in DOMAIN posted' : posted'[i][1] = "enqueue" => i \in DOMAIN posted /\ posted'[i] = posted[i]
      BY <3>1
    <3>. QED
      BY <1>1, <1>4, <3>1, <3>2 DEF PostedInv
  <2>. QED
    BY <1>4, <2>1, <2>2
<1>5. ASSUME CompleteOperation(r)
      PROVE  /\ posted' = posted \/ posted' = Append(posted, <<"cancel", r>>)
             /\ op' \in [Requests -> {"none", "pending", "completed"}]
             /\ handler' \in [Requests -> BOOLEAN]
  BY <1>1, <1>5 DEF CompleteOperation, TypeOK
<1>6. CASE RequestCancel(r)
  <2>1. UNCHANGED <<strandVars, deviceVars, undrained, restarted, drain_on_cancel>> /\ CompleteOperation(r)
    BY <1>6 DEF RequestCancel
  <2>2. TypeOK' /\ (~restarted => PostedInv')
    BY <1>1, <1>4, <1>5, <2>1 DEF TypeOK, strandVars, deviceVars
  <2>. QED
    BY <2>1, <2>2, CallersInv DEF strandVars
<1>7. CASE DeadlinePasses(r)
  <2>1. /\ timer' = [timer EXCEPT ![r] = "off"]
        /\ UNCHANGED <<queue, stage, io, part, response, result, answers, sent, closed,
                       deviceVars, undrained, restarted, drain_on_cancel>>
        /\ CompleteOperation(r) \/ UNCHANGED <<opVars, posted>>
    BY <1>7 DEF DeadlinePasses
  <2>2. TypeOK' /\ (~restarted => PostedInv')
    BY <1>1, <1>4, <1>5, <2>1 DEF TypeOK, opVars, deviceVars
  <2>. QED
    BY <2>1, <2>2, CallersInv
<1>. QED
  BY <1>2, <1>3, <1>6, <1>7

-----------------------------------------------------------------------------
\* A step that leaves the queue, the stages and the answers alone.
LEMMA IoInv ==
    ASSUME ChannelInv, TypeOK',
           UNCHANGED <<queue, stage, response, answers, sent, closed, undrained, restarted>>,
           ~restarted => PostedInv' /\ StreamInv' /\ PartInv'
    PROVE  ChannelInv'
<1>1. AnsweredOnce' /\ ResponsesDrained'
  BY DEF ChannelInv, AnsweredOnce, ResponsesDrained, Done
<1>2. ~restarted => QueueInv' /\ WireInv'
  BY DEF ChannelInv, StrandInv, QueueInv, WireInv
<1>. QED
  BY <1>1, <1>2 DEF ChannelInv, StrandInv

\* cancel() of the active request.
LEMMA CancelActiveInv ==
    ASSUME ChannelInv, NEW r \in Requests, CancelActive(r)
    PROVE  ChannelInv'
<1>1. /\ ~restarted /\ posted # <<>> /\ posted' = Tail(posted) /\ stage[r] \in Active
      /\ \/ io' = io /\ timer' = [timer EXCEPT ![r] = "recovery"]
         \/ timer' = timer /\ io' = [io EXCEPT ![r] = Interrupted(@)]
      /\ UNCHANGED <<queue, stage, part, response, result, answers, sent, closed,
                     opVars, deviceVars, undrained, restarted, drain_on_cancel>>
  BY DEF CancelActive, Task, In
<1>2. TypeOK /\ StrandInv
  BY <1>1 DEF ChannelInv
<1>3. /\ posted' \in Seq({"enqueue", "cancel"} \X Requests)
      /\ PostedInv'
  BY <1>1, TaskTaken DEF PostedInv
<1>4. \A x \in Requests : io'[x] = io[x] \/ io'[x] = "aborted"
  BY <1>1, <1>2 DEF TypeOK, Interrupted
<1>5. TypeOK'
  BY <1>1, <1>2, <1>3, ZenonT(60) DEF TypeOK, Interrupted, opVars, deviceVars
<1>6. StreamInv'
  BY <1>1, <1>2, <1>4 DEF StrandInv, StreamInv, Aligned, Quiet, Owes, OwesPayload, deviceVars
<1>7. PartInv'
  BY <1>1, <1>2, <1>4 DEF StrandInv, PartInv, deviceVars
<1>. QED
  BY <1>1, <1>3, <1>5, <1>6, <1>7, IoInv

\* The socket operation of the active request comes to an end, or the handler of
\* one that is done: nobody else's changes.
LEMMA IoEnds ==
    ASSUME ChannelInv, NEW r \in Requests, ~restarted, TypeOK',
           \A x \in Requests \ {r} : io'[x] = io[x] /\ part'[x] = part[x],
           UNCHANGED <<posted, queue, stage, response, answers, sent, closed, broken, undrained, restarted>>,
           stage[r] \in Active \cup {"done"},
           stage[r] = "done" => UNCHANGED <<received, inbound>>,
           stage[r] \in Active =>
              /\ ~undrained /\ ~broken /\ ~closed => Aligned(r)'
              /\ io'[r] # "none"
              /\ io'[r] = "failed" => broken
              /\ stage[r] # "writing" /\ io'[r] = "ready" => part'[r] \in Parts
              /\ ~undrained /\ stage[r] = "header" /\ io'[r] = "ready" => part'[r] = <<r, "header">>
              /\ ~undrained /\ stage[r] = "payload" /\ io'[r] = "ready" => part'[r] = <<r, "payload">>
    PROVE  ChannelInv'
<1>1. StrandInv
  BY DEF ChannelInv
<1>2. PostedInv'
  BY <1>1 DEF StrandInv, PostedInv
<1>3. PartInv'
  BY <1>1 DEF StrandInv, PartInv
<1>4. StreamInv'
  <2>. SUFFICES ASSUME ~undrained, ~broken, ~closed
                PROVE  /\ \A x \in Requests : Aligned(x)'
                       /\ (\A x \in Requests : stage[x] \notin Active) => Quiet'
    BY DEF StreamInv
  <2>1. CASE stage[r] \in Active
    <3>1. \A x \in Requests : x # r => stage[x] \notin Active
      BY <1>1, <2>1 DEF StrandInv, WireInv
    <3>2. \A x \in Requests : x # r => Aligned(x)'
      BY <3>1 DEF Aligned, Active
    <3>. QED
      BY <2>1, <3>2
  <2>2. CASE stage[r] = "done"
    <3>1. \A x \in Requests : Aligned(x)
      BY <1>1 DEF StrandInv, StreamInv
    <3>2. \A x \in Requests : x # r => Aligned(x)'
      BY <2>2, <3>1 DEF Aligned, Quiet, Owes, OwesPayload
    <3>3. Aligned(r)'
      BY <2>2 DEF Aligned
    <3>4. (\A x \in Requests : stage[x] \notin Active) => Quiet'
      BY <1>1, <2>2 DEF StrandInv, StreamInv, Quiet
    <3>. QED
      BY <3>2, <3>3, <3>4
  <2>. QED
    BY <2>1, <2>2
<1>. QED
  BY <1>2, <1>3, <1>4, IoInv

\* The system has written the request: the device owes its response.
LEMMA WriteDoneInv ==
    ASSUME ChannelInv, NEW r \in Requests, WriteDone(r)
    PROVE  ChannelInv'
<1>1. /\ ~restarted /\ stage[r] = "writing" /\ stage[r] \in Active /\ io[r] = "busy"
      /\ io' = [io EXCEPT ![r] = "ready"]
      /\ received' = IF r \in Silent THEN received ELSE Append(received, r)
      /\ UNCHANGED <<posted, queue, stage, part, response, timer, result, answers, sent, closed,
                     opVars, inbound, broken, undrained, restarted, drain_on_cancel>>
  BY DEF WriteDone, In, Active
<1>2. TypeOK /\ StrandInv
  BY <1>1 DEF ChannelInv
<1>3. received' \in Seq(Requests)
  BY <1>1, <1>2 DEF TypeOK
<1>4. TypeOK'
  BY <1>1, <1>2, <1>3 DEF TypeOK, opVars
<1>5. \A x \in Requests : io'[x] = IF x = r THEN "ready" ELSE io[x]
  BY <1>1, <1>2 DEF TypeOK
<1>6. ASSUME ~undrained, ~broken, ~closed PROVE Aligned(r)'
  <2>1. received = <<>> /\ inbound = <<>>
    BY <1>1, <1>2, <1>6 DEF StrandInv, StreamInv, Aligned, Quiet
  <2>2. r \notin Silent => received' = <<r>>
    BY <1>1, <2>1
  <2>3. r \in Silent => received' = <<>>
    BY <1>1, <2>1
  <2>. QED
    BY <1>1, <1>5, <2>1, <2>2, <2>3 DEF Aligned, Quiet, Owes
<1>. QED
  BY <1>1, <1>4, <1>5, <1>6, IoEnds

\* The system has read a header or a payload.
LEMMA ReadDoneInv ==
    ASSUME ChannelInv, NEW r \in Requests, ReadDone(r)
    PROVE  ChannelInv'
<1>1. /\ ~restarted /\ stage[r] \in {"header", "payload"} /\ stage[r] \in Active /\ io[r] = "busy"
      /\ inbound # <<>> /\ ~broken
      /\ io' = [io EXCEPT ![r] = "ready"]
      /\ part' = [part EXCEPT ![r] = Head(inbound)]
      /\ inbound' = Tail(inbound)
      /\ UNCHANGED <<posted, queue, stage, response, timer, result, answers, sent, closed,
                     opVars, received, broken, undrained, restarted, drain_on_cancel>>
  BY DEF ReadDone, In, Active
<1>2. TypeOK /\ StrandInv
  BY <1>1 DEF ChannelInv
<1>3. inbound' \in Seq(Parts) /\ Head(inbound) \in Parts
  BY <1>1, <1>2 DEF TypeOK
<1>4. TypeOK'
  BY <1>1, <1>2, <1>3 DEF TypeOK, opVars
<1>5. \A x \in Requests : /\ io'[x] = IF x = r THEN "ready" ELSE io[x]
                          /\ part'[x] = IF x = r THEN Head(inbound) ELSE part[x]
  BY <1>1, <1>2 DEF TypeOK
<1>6. ~closed
  BY <1>1, <1>2 DEF StrandInv, QueueInv, WireInv
<1>7. ASSUME ~undrained, stage[r] = "header"
      PROVE  Head(inbound) = <<r, "header">> /\ OwesPayload(r)'
  <2>1. received = <<>> /\ inbound = <<<<r, "header">>, <<r, "payload">>>>
    BY <1>1, <1>2, <1>6, <1>7 DEF StrandInv, StreamInv, Aligned, Owes
  <2>. QED
    BY <1>1, <2>1 DEF OwesPayload
<1>8. ASSUME ~undrained, stage[r] = "payload"
      PROVE  Head(inbound) = <<r, "payload">> /\ Quiet'
  <2>1. received = <<>> /\ inbound = <<<<r, "payload">>>>
    BY <1>1, <1>2, <1>6, <1>8 DEF StrandInv, StreamInv, Aligned, OwesPayload
  <2>. QED
    BY <1>1, <2>1 DEF Quiet
<1>9. ~undrained => Aligned(r)'
  BY <1>1, <1>5, <1>7, <1>8 DEF Aligned
<1>. QED
  BY <1>1, <1>3, <1>4, <1>5, <1>7, <1>8, <1>9, IoEnds

\* The operation fails on a broken connection.
LEMMA IoFailsInv ==
    ASSUME ChannelInv, NEW r \in Requests, IoFails(r)
    PROVE  ChannelInv'
<1>1. /\ ~restarted /\ stage[r] \in Active /\ broken
      /\ io' = [io EXCEPT ![r] = "failed"]
      /\ UNCHANGED <<posted, queue, stage, part, response, timer, result, answers, sent, closed,
                     opVars, deviceVars, undrained, restarted, drain_on_cancel>>
  BY DEF IoFails, In
<1>2. TypeOK
  BY DEF ChannelInv
<1>3. TypeOK'
  BY <1>1, <1>2 DEF TypeOK, opVars, deviceVars
<1>4. \A x \in Requests : io'[x] = IF x = r THEN "failed" ELSE io[x]
  BY <1>1, <1>2 DEF TypeOK
<1>5. stage[r] # "done"
  BY <1>1 DEF Active
<1>. QED
  BY <1>1, <1>3, <1>4, <1>5, IoEnds DEF deviceVars

\* A handler that comes after its request is done changes nothing.
LEMMA LateHandlerInv ==
    ASSUME ChannelInv, NEW r \in Requests, LateHandler(r)
    PROVE  ChannelInv'
<1>1. /\ ~restarted /\ stage[r] = "done"
      /\ io' = [io EXCEPT ![r] = "none"] /\ Fulfil({r}, result)
      /\ UNCHANGED <<posted, queue, stage, part, response, timer, sent, closed,
                     opVars, deviceVars, undrained, restarted, drain_on_cancel>>
  BY DEF LateHandler, In
<1>2. TypeOK
  BY DEF ChannelInv
<1>3. result' = result /\ answers' = answers
  BY <1>1, <1>2 DEF Fulfil, Done, TypeOK
<1>4. TypeOK'
  BY <1>1, <1>2, <1>3 DEF TypeOK, opVars, deviceVars
<1>5. \A x \in Requests : io'[x] = IF x = r THEN "none" ELSE io[x]
  BY <1>1, <1>2 DEF TypeOK
<1>6. stage[r] \notin Active
  BY <1>1 DEF Active
<1>. QED
  BY <1>1, <1>3, <1>4, <1>5, <1>6, IoEnds DEF deviceVars

\* The device answers the request it has received first; the connection breaks.
LEMMA DeviceInv ==
    ASSUME ChannelInv, DeviceAnswers \/ ConnectionBreaks
    PROVE  ChannelInv'
<1>1. TypeOK
  BY DEF ChannelInv
<1>2. CASE DeviceAnswers
  <2>1. /\ received # <<>> /\ received' = Tail(received)
        /\ inbound' = inbound \o <<<<Head(received), "header">>, <<Head(received), "payload">>>>
        /\ UNCHANGED <<posted, strandVars, opVars, broken, undrained, restarted, drain_on_cancel>>
    BY <1>2 DEF DeviceAnswers
  <2>2. Head(received) \in Requests /\ received' \in Seq(Requests)
    BY <1>1, <2>1 DEF TypeOK
  <2>3. <<<<Head(received), "header">>, <<Head(received), "payload">>>> \in Seq(Parts)
    BY <2>2 DEF Parts
  <2>4. inbound' \in Seq(Parts)
    BY <1>1, <2>1, <2>3 DEF TypeOK
  <2>5. TypeOK'
    BY <1>1, <2>1, <2>2, <2>4 DEF TypeOK, strandVars, opVars
  <2>6. ASSUME ~restarted PROVE PostedInv' /\ StreamInv' /\ PartInv'
    <3>1. StrandInv
      BY <2>6 DEF ChannelInv
    <3>2. PostedInv' /\ PartInv'
      BY <2>1, <3>1 DEF StrandInv, PostedInv, PartInv, strandVars
    <3>3. \A x \in Requests : received = <<x>> /\ inbound = <<>> =>
             received' = <<>> /\ inbound' = <<<<x, "header">>, <<x, "payload">>>>
      BY <2>1
    <3>4. ~Quiet /\ \A x \in Requests : ~OwesPayload(x) /\ (Owes(x) => Owes(x)')
      BY <2>1, <3>3 DEF Quiet, OwesPayload, Owes
    <3>5. StreamInv'
      BY <2>1, <3>1, <3>4 DEF StrandInv, StreamInv, Aligned, strandVars
    <3>. QED
      BY <3>2, <3>5
  <2>. QED
    BY <2>1, <2>5, <2>6, IoInv DEF strandVars
<1>3. CASE ConnectionBreaks
  <2>1. /\ broken' = TRUE
        /\ UNCHANGED <<posted, strandVars, opVars, received, inbound, undrained, restarted, drain_on_cancel>>
    BY <1>3 DEF ConnectionBreaks
  <2>2. TypeOK'
    BY <1>1, <2>1 DEF TypeOK, strandVars, opVars
  <2>3. ~restarted => PostedInv' /\ StreamInv' /\ PartInv'
    BY <2>1 DEF ChannelInv, StrandInv, PostedInv, StreamInv, PartInv, strandVars
  <2>. QED
    BY <2>1, <2>2, <2>3, IoInv DEF strandVars
<1>. QED
  BY <1>2, <1>3

-----------------------------------------------------------------------------
\* The channel before its first exchange.
LEMMA ChannelInit == Init => ChannelInv
<1>. SUFFICES ASSUME Init PROVE ChannelInv
  OBVIOUS
<1>1. TypeOK
  <2>1. 0 \in 0 .. N /\ 0 \in 0 .. 1
    BY NAssumption
  <2>2. drain_on_cancel \in BOOLEAN
    BY KindsAssumption DEF Init
  <2>3. /\ posted \in Seq({"enqueue", "cancel"} \X Requests) /\ queue \in Seq(Requests)
        /\ received \in Seq(Requests) /\ inbound \in Seq(Parts)
    BY DEF Init
  <2>. QED
    BY <2>1, <2>2, <2>3 DEF Init, TypeOK, Stages
<1>2. AnsweredOnce /\ ResponsesDrained
  BY DEF Init, AnsweredOnce, ResponsesDrained, Done
<1>3. DOMAIN posted = {} /\ DOMAIN queue = {}
  BY DEF Init
<1>4. PostedInv /\ QueueInv
  BY <1>3 DEF Init, PostedInv, QueueInv
<1>5. WireInv /\ StreamInv /\ PartInv
  BY DEF Init, WireInv, StreamInv, PartInv, Aligned, Quiet, Active
<1>. QED
  BY <1>1, <1>2, <1>4, <1>5 DEF ChannelInv, StrandInv

\* Every handler and every step of the callers and the device preserves the
\* invariant.
LEMMA ChannelNext == ChannelInv /\ [Next]_vars => ChannelInv'
<1>. SUFFICES ASSUME ChannelInv, [Next]_vars PROVE ChannelInv'
  OBVIOUS
<1>1. ASSUME NEW r \in Requests, Strand(r) PROVE ChannelInv'
  <2>1. CASE Post(r)
    BY <2>1, ExchangeInv
  <2>2. CASE Enqueue(r)
    BY <2>2, EnqueueInv
  <2>3. CASE EnqueueRefused(r) \/ CancelWaiting(r)
    BY <2>3, WaitingInv
  <2>4. CASE CancelActive(r)
    BY <2>4, CancelActiveInv
  <2>5. CASE RecoveryExpires(r)
    BY <2>5, CloseInv DEF RecoveryExpires
  <2>6. CASE IoFails(r)
    BY <2>6, IoFailsInv
  <2>7. CASE OnError(r)
    BY <2>7, OnErrorInv
  <2>8. CASE OnWritten(r)
    BY <2>8, OnWrittenInv
  <2>9. CASE OnHeader(r)
    BY <2>9, OnHeaderInv
  <2>10. CASE OnPayload(r)
    BY <2>10, OnPayloadInv
  <2>11. CASE LateHandler(r)
    BY <2>11, LateHandlerInv
  <2>. QED
    BY <1>1, <2>1, <2>2, <2>3, <2>4, <2>5, <2>6, <2>7, <2>8, <2>9, <2>10, <2>11 DEF Strand
<1>2. ASSUME NEW r \in Requests, Environment(r) PROVE ChannelInv'
  BY <1>2, ExchangeInv, WriteDoneInv, ReadDoneInv DEF Environment
<1>3. CASE Close
  BY <1>3, CloseInv
<1>4. CASE DeviceAnswers \/ ConnectionBreaks
  BY <1>4, DeviceInv
<1>5. CASE UNCHANGED vars
  BY <1>5, ZenonT(60) DEF vars, strandVars, opVars, deviceVars, ChannelInv, TypeOK, AnsweredOnce, ResponsesDrained,
              StrandInv, PostedInv, QueueInv, WireInv, StreamInv, PartInv, Aligned, Quiet, Owes,
              OwesPayload, Done
<1>. QED
  BY <1>1, <1>2, <1>3, <1>4, <1>5 DEF Next

\* The inductive invariant holds throughout.
LEMMA ChannelInvAlways == Spec => []ChannelInv
BY ChannelInit, ChannelNext, PTL DEF Spec

\* The channel, its callers and the device keep their types, for any number of
\* exchanges.
THEOREM ChannelTypeCorrect == Spec => []TypeOK
<1>1. ChannelInv => TypeOK
  BY DEF ChannelInv
<1>. QED
  BY <1>1, ChannelInvAlways, PTL

\* A promise is fulfilled once: finish() of request_channel.cpp never calls
\* set_value twice, whoever comes first.
THEOREM AnsweredOnceAlways == Spec => []AnsweredOnce
<1>1. ChannelInv => AnsweredOnce
  BY DEF ChannelInv
<1>. QED
  BY <1>1, ChannelInvAlways, PTL

\* The socket carries one request at a time and each is written once, up to a
\* start_next that finds the active request.
THEOREM OneRequestOnTheWireAlways == Spec => []OneRequestOnTheWire
<1>1. ChannelInv => OneRequestOnTheWire
  <2>. SUFFICES ASSUME ChannelInv, NEW r \in Requests, ~restarted
                PROVE  sent[r] <= 1 /\ (stage[r] \in Active => queue # <<>> /\ Head(queue) = r)
    BY DEF OneRequestOnTheWire
  <2>1. WireInv /\ queue \in Seq(Requests)
    BY DEF ChannelInv, StrandInv, TypeOK
  <2>. QED
    BY <2>1 DEF WireInv
<1>. QED
  BY <1>1, ChannelInvAlways, PTL

\* A caller gets the response to its own request as long as no request was given
\* up before its response was read.
THEOREM ResponsesDrainedAlways == Spec => []ResponsesDrained
<1>1. ChannelInv => ResponsesDrained
  BY DEF ChannelInv
<1>. QED
  BY <1>1, ChannelInvAlways, PTL
=============================================================================
