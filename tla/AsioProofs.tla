----------------------------- MODULE AsioProofs -----------------------------
(***************************************************************************)
(* Proofs about what the sessions rest on in src/backends/asio and         *)
(* src/runtime.                                                            *)
(*                                                                         *)
(* The stream of AsyncStream.tla, for any reads, writes and bounds: the    *)
(* callers get the device's bytes in order, the queues are served, writes  *)
(* do not mix.  The bytes are followed from read_ahead_ through the buffer *)
(* of the active read to the caller, as one sequence, Stream; a step moves *)
(* a boundary in it, appends to it or takes a part out of it.              *)
(*                                                                         *)
(* The pool of IoRuntime.tla, for any numbers of workers and sessions: a   *)
(* session holds at most one worker, so that more workers than sessions    *)
(* leave one for the handlers the others wait for.                         *)
(***************************************************************************)
EXTENDS AsyncStream, IoRuntime, SequenceTheorems, FiniteSetTheorems, WellFoundedInduction, TLAPS

\* A request is posted to the strand once.
PostedInv ==
    /\ \A r \in Requests : \A i \in DOMAIN posted :
          posted[i] = <<"enqueue", {r}>> => stage[r] \in {"posted", "done"}
    /\ \A i, j \in DOMAIN posted : posted[i][1] = "enqueue" /\ posted[i] = posted[j] => i = j

\* The queues hold the requests that wait or are active, each once.
QueueInv ==
    /\ \A k \in Queues : \A i, j \in DOMAIN queue[k] : queue[k][i] = queue[k][j] => i = j
    /\ \A k \in Queues : \A i \in DOMAIN queue[k] : QueueOf(queue[k][i]) = k
    /\ \A r \in Requests : stage[r] \in {"queued", "active"} =>
          \E i \in DOMAIN queue[QueueOf(r)] : queue[QueueOf(r)][i] = r

\* The first request of a queue is active and the others are not; while the
\* loop of the queue runs, none is.
ServedInv ==
    \A k \in Queues : \A i \in DOMAIN queue[k] :
        stage[queue[k][i]] = IF i = 1 /\ starting # k THEN "active" ELSE "queued"

\* Only the active requests have operations on the stream, and only bytes
\* whose handler has not run yet are in a buffer.
IoInv ==
    \A r \in Requests :
        /\ stage[r] = "active" <=> io[r] # "none"
        /\ io[r] # "ready" \/ r \in Writes => scratch[r] = <<>>

\* The bytes d do not end read r.
NotEnough(r, d) ==
    /\ Len(d) < Count
    /\ r \in TermReads => \A i \in DOMAIN d : d[i] \notin TermBytes

\* A read has bytes once it is active.  It goes to the stream only when read_ahead_
\* is empty and what it has is not enough.
ReadInv ==
    \A r \in Reads :
        /\ stage[r] = "active" => read_ahead = <<>> /\ NotEnough(r, data[r])
        /\ stage[r] \notin {"active", "done"} => data[r] = <<>>

\* Only bytes that the device has sent are thrown away.
DiscardInv == discarded \subseteq 1 .. sent

\* A write has bytes on the wire once it is active; nobody else's follow as long
\* as it is.
WireInv ==
    /\ \A i \in DOMAIN wire : stage[wire[i]] \in {"active", "done"}
    /\ \A i, j \in DOMAIN wire : i < j /\ stage[wire[i]] = "active" => wire[j] = wire[i]

\* An operation on the stream ends with the last byte of the write.
CountInv ==
    \A w \in Writes :
        /\ io[w] = "busy" => Out(w) < Length
        /\ io[w] = "ready" => Out(w) = Length
        /\ outcome[w] = "ok" => stage[w] = "done"

\* The inductive invariant.
StreamInv ==
    /\ TypeOK
    /\ PostedInv /\ QueueInv /\ ServedInv /\ IoInv
    /\ ReadInv /\ DiscardInv /\ BytesInOrder
    /\ WireInv /\ CountInv /\ WritesDoNotMix

-----------------------------------------------------------------------------
\* A set of natural numbers that is not empty has a least element.
LEMMA LeastElement ==
    ASSUME NEW S, S \subseteq Nat, S # {}
    PROVE  \E x \in S : \A y \in S : x <= y
<1>1. PICK R : R = OpToRel(<, Nat)
  BY Zenon
<1>2. IsWellFoundedOn(R, Nat)
  BY <1>1, NatLessThanWellFounded, Zenon
<1>3. PICK x \in S : \A y \in S : ~ (<<y, x>> \in R)
  BY <1>2, WFMin, Zenon
<1>4. R = {ss \in Nat \X Nat : ss[1] < ss[2]}
  BY <1>1, Zenon DEF OpToRel
<1>5. ASSUME NEW y \in S PROVE x <= y
  <2>1. <<y, x>> \in Nat \X Nat /\ ~(<<y, x>> \in R)
    BY <1>3
  <2>2. ~(y < x)
    BY <1>4, <2>1
  <2>. QED
    BY <2>2
<1>. QED
  BY <1>5

\* A queue loses r and nothing else.
LEMMA EraseFacts ==
    ASSUME NEW q \in Seq(Requests), NEW r, NEW e,
           \A i, j \in DOMAIN q : q[i] = q[j] => i = j,
           e = Erase(q, r)
    PROVE  /\ e \in Seq(Requests)
           /\ \A i, j \in DOMAIN e : e[i] = e[j] => i = j
           /\ \A i \in DOMAIN e : e[i] # r /\ \E j \in DOMAIN q : e[i] = q[j] /\ (j = 1 => i = 1)
           /\ \A j \in DOMAIN q : q[j] # r => \E i \in DOMAIN e : e[i] = q[j]
           /\ q # <<>> /\ q[1] # r => e # <<>> /\ e[1] = q[1]
<1>1. CASE \A i \in DOMAIN q : q[i] # r
  BY <1>1 DEF Erase
<1>2. CASE \E i \in DOMAIN q : q[i] = r
  <2>1. PICK k \in DOMAIN q : /\ q[k] = r
                              /\ e = [i \in 1 .. Len(q) - 1 |-> IF i < k THEN q[i] ELSE q[i + 1]]
    BY <1>2 DEF Erase
  <2>2. Len(q) \in Nat /\ Len(q) >= 1 /\ DOMAIN q = 1 .. Len(q) /\ k \in 1 .. Len(q)
    BY <2>1
  <2>3. e \in Seq(Requests) /\ Len(e) = Len(q) - 1 /\ DOMAIN e = 1 .. Len(q) - 1
    BY <2>1, <2>2
  <2>4. \A i \in DOMAIN e : e[i] = IF i < k THEN q[i] ELSE q[i + 1]
    BY <2>1, <2>3
  <2>5. \A i, j \in DOMAIN e : e[i] = e[j] => i = j
    BY <2>2, <2>3, <2>4
  <2>6. ASSUME NEW i \in DOMAIN e
        PROVE  e[i] # r /\ \E j \in DOMAIN q : e[i] = q[j] /\ (j = 1 => i = 1)
    <3>1. CASE i < k
      BY <2>1, <2>2, <2>3, <2>4, <3>1
    <3>2. CASE ~(i < k)
      <4>1. i + 1 \in DOMAIN q /\ e[i] = q[i + 1] /\ i + 1 # 1 /\ i + 1 # k
        BY <2>1, <2>2, <2>3, <2>4, <3>2
      <4>. QED
        BY <2>1, <4>1
    <3>. QED
      BY <3>1, <3>2
  <2>7. ASSUME NEW j \in DOMAIN q, q[j] # r PROVE \E i \in DOMAIN e : e[i] = q[j]
    <3>1. CASE j < k
      <4>1. j \in DOMAIN e /\ e[j] = q[j]
        BY <2>2, <2>3, <2>4, <3>1
      <4>. QED
        BY <4>1
    <3>2. CASE ~(j < k)
      <4>1. j > k /\ j - 1 \in DOMAIN e /\ e[j - 1] = q[j]
        BY <2>1, <2>2, <2>3, <2>4, <2>7, <3>2
      <4>. QED
        BY <4>1
    <3>. QED
      BY <3>1, <3>2
  <2>8. q # <<>> /\ q[1] # r => e # <<>> /\ e[1] = q[1]
    BY <2>1, <2>2, <2>3, <2>4
  <2>. QED
    BY <2>2, <2>3, <2>5, <2>6, <2>7, <2>8
<1>. QED
  BY <1>1, <1>2

\* The elements of a sequence that is joined from two, or cut in two.
LEMMA JoinFacts ==
    ASSUME NEW S, NEW s \in Seq(S), NEW t \in Seq(S)
    PROVE  /\ s \o t \in Seq(S) /\ Len(s \o t) = Len(s) + Len(t)
           /\ \A i \in 1 .. Len(s) : (s \o t)[i] = s[i]
           /\ \A i \in 1 .. Len(t) : (s \o t)[Len(s) + i] = t[i]
OBVIOUS

\* What Append adds to a sequence.
LEMMA AppendFacts ==
    ASSUME NEW S, NEW s \in Seq(S), NEW t \in S, NEW a, a = Append(s, t)
    PROVE  /\ a \in Seq(S)
           /\ \A i \in DOMAIN s : i \in DOMAIN a /\ a[i] = s[i] /\ i # Len(s) + 1
           /\ Len(s) + 1 \in DOMAIN a /\ a[Len(s) + 1] = t
           /\ \A i \in DOMAIN a : (i \in DOMAIN s /\ a[i] = s[i]) \/ (a[i] = t /\ i = Len(s) + 1)
<1>1. a \in Seq(S) /\ Len(a) = Len(s) + 1 /\ Len(s) \in Nat
  OBVIOUS
<1>2. \A i \in 1 .. Len(s) : a[i] = s[i]
  OBVIOUS
<1>3. a[Len(s) + 1] = t
  OBVIOUS
<1>4. \A i \in DOMAIN s : i \in DOMAIN a /\ a[i] = s[i] /\ i # Len(s) + 1
  BY <1>1, <1>2
<1>5. \A i \in DOMAIN a : i \in DOMAIN s \/ i = Len(s) + 1
  BY <1>1
<1>6. Len(s) + 1 \in DOMAIN a
  BY <1>1
<1>7. \A i \in DOMAIN a : (i \in DOMAIN s /\ a[i] = s[i]) \/ (a[i] = t /\ i = Len(s) + 1)
  BY <1>3, <1>4, <1>5, Zenon
<1>. QED
  BY <1>1, <1>3, <1>4, <1>6, <1>7, Zenon

\* A sequence is its first n elements and the others.
LEMMA CutFacts ==
    ASSUME NEW S, NEW s \in Seq(S), NEW n \in Nat, n <= Len(s)
    PROVE  SubSeq(s, 1, n) \o SubSeq(s, n + 1, Len(s)) = s
<1>1. 1 \in 1 .. Len(s) + 1 /\ n \in 1 - 1 .. Len(s) /\ Len(s) \in n .. Len(s)
  OBVIOUS
<1>2. SubSeq(s, 1, n) \o SubSeq(s, n + 1, Len(s)) = SubSeq(s, 1, Len(s))
  BY <1>1, ConcatAdjacentSubSeq, Zenon
<1>. QED
  BY <1>2, SubSeqFull, Zenon

\* Where a read stops: at the first byte that ends it, or behind the last one.
LEMMA ConsumedFacts ==
    ASSUME NEW r, NEW d \in Seq(Bytes), NEW bs \in Seq(Bytes), NEW n, n = Consumed(r, d, bs)
    PROVE  /\ n \in 0 .. Len(bs)
           /\ \A j \in DOMAIN bs : j < n => ~Stops(r, d, bs, j)
           /\ \/ n = Len(bs) /\ \A j \in DOMAIN bs : ~Stops(r, d, bs, j)
              \/ n \in DOMAIN bs /\ Stops(r, d, bs, n)
<1>. DEFINE S == {i \in DOMAIN bs : Stops(r, d, bs, i)}
<1>0. Len(bs) \in Nat
  OBVIOUS
<1>1. CASE S = {}
  BY <1>0, <1>1 DEF Consumed
<1>2. CASE S # {}
  <2>1. S \subseteq Nat
    BY <1>0
  <2>2. PICK x \in S : \A y \in S : x <= y
    BY <1>2, <2>1, LeastElement
  <2>3. x \in DOMAIN bs /\ Stops(r, d, bs, x) /\ \A j \in 1 .. x - 1 : ~Stops(r, d, bs, j)
    BY <1>0, <2>2
  <2>4. n = CHOOSE i \in DOMAIN bs :
               Stops(r, d, bs, i) /\ \A j \in 1 .. i - 1 : ~Stops(r, d, bs, j)
    BY <2>3 DEF Consumed
  <2>5. n \in DOMAIN bs /\ Stops(r, d, bs, n) /\ \A j \in 1 .. n - 1 : ~Stops(r, d, bs, j)
    BY <2>3, <2>4
  <2>. QED
    BY <1>0, <2>5
<1>. QED
  BY <1>1, <1>2

\* Read r makes c and rest of the bytes all: none is lost, none is taken beyond what ends
\* the read, and one that is not finished takes all.
Taken(r, all, c, rest) ==
    /\ c \in Seq(Bytes) /\ rest \in Seq(Bytes)
    /\ c \o rest = all
    /\ Len(c) <= Count
    /\ r \in TermReads => \A i \in 1 .. Len(c) - 1 : c[i] \notin TermBytes
    /\ ~Finished(r, c) => rest = <<>> /\ NotEnough(r, c)

\* What a read that has d and needs more makes of the bytes bs.
LEMMA CollectedFacts ==
    ASSUME NEW r, NEW d \in Seq(Bytes), NEW bs \in Seq(Bytes), NotEnough(r, d)
    PROVE  Taken(r, d \o bs, Collected(r, d, bs), LeftOver(r, d, bs))
<1>. DEFINE c    == Collected(r, d, bs)
            rest == LeftOver(r, d, bs)
<1>. HIDE DEF c, rest
<1>0. Len(d) < Count /\ (r \in TermReads => \A i \in DOMAIN d : d[i] \notin TermBytes)
  BY DEF NotEnough
<1>1. PICK n \in Nat : n = Consumed(r, d, bs)
  <2>1. Consumed(r, d, bs) \in 0 .. Len(bs)
    BY ConsumedFacts
  <2>. QED
    BY <2>1
<1>2. /\ n \in 0 .. Len(bs)
      /\ \A j \in DOMAIN bs : j < n => ~Stops(r, d, bs, j)
      /\ \/ n = Len(bs) /\ \A j \in DOMAIN bs : ~Stops(r, d, bs, j)
         \/ n \in DOMAIN bs /\ Stops(r, d, bs, n)
  BY <1>1, ConsumedFacts
<1>3. /\ Len(bs) \in Nat /\ Len(d) \in Nat
      /\ n <= Len(bs) /\ Count \in Nat
  BY <1>2, SizesAssumption
<1>4. PICK p : p = SubSeq(bs, 1, n)
  OBVIOUS
<1>5. p \in Seq(Bytes) /\ Len(p) = n /\ \A i \in 1 .. n : p[i] = bs[i]
  BY <1>0, <1>3, <1>4
<1>6. /\ rest \in Seq(Bytes) /\ Len(rest) = Len(bs) - n
      /\ rest = SubSeq(bs, n + 1, Len(bs))
  BY <1>1, <1>3 DEF rest, LeftOver
<1>7. c = d \o p
  BY <1>1, <1>4 DEF c, Collected
<1>8. /\ c \in Seq(Bytes) /\ Len(c) = Len(d) + n
      /\ \A i \in 1 .. Len(d) : c[i] = d[i]
      /\ \A i \in 1 .. n : c[Len(d) + i] = bs[i]
  <2>1. /\ c \in Seq(Bytes) /\ Len(c) = Len(d) + Len(p)
        /\ \A i \in 1 .. Len(d) : c[i] = d[i]
        /\ \A i \in 1 .. Len(p) : c[Len(d) + i] = p[i]
    <3>1. p \in Seq(Bytes)
      BY <1>5
    <3>. QED
      BY <1>7, <3>1, JoinFacts
  <2>. QED
    BY <1>5, <2>1
<1>9. c \o rest = d \o bs
  <2>1. p \in Seq(Bytes) /\ rest \in Seq(Bytes)
    BY <1>5, <1>6
  <2>2. (d \o p) \o rest = d \o (p \o rest)
    BY <2>1, ConcatAssociative, SMTT(60)
  <2>3. p \o rest = bs
    BY <1>0, <1>3, <1>4, <1>6, CutFacts, Zenon
  <2>. QED
    BY <1>7, <2>2, <2>3, Zenon
<1>10. Len(c) <= Count
  <2>1. CASE Len(d) + n > Count
    <3>1. Count - Len(d) \in 1 .. n - 1
      BY <1>0, <1>3, <2>1
    <3>2. Stops(r, d, bs, Count - Len(d))
      BY <1>0, <1>3, <3>1, SizesAssumption DEF Stops
    <3>. QED
      BY <1>0, <1>2, <1>3, <3>1, <3>2
  <2>. QED
    BY <1>0, <1>2, <1>3, <1>8, <2>1, SizesAssumption
<1>11. ASSUME r \in TermReads, NEW i \in 1 .. Len(c), i < Len(c) \/ ~Stops(r, d, bs, n)
       PROVE  c[i] \notin TermBytes
  <2>1. CASE i <= Len(d)
    BY <1>0, <1>3, <1>8, <1>11, <2>1
  <2>2. CASE i > Len(d)
    <3>1. PICK j \in 1 .. n : i = Len(d) + j
      <4>1. i - Len(d) \in 1 .. n /\ i = Len(d) + (i - Len(d))
        BY <1>0, <1>3, <1>8, <2>2
      <4>. QED
        BY <4>1
    <3>2. c[i] = bs[j] /\ j \in DOMAIN bs
      BY <1>0, <1>3, <1>8, <3>1
    <3>3. ~Stops(r, d, bs, j)
      BY <1>0, <1>2, <1>3, <1>8, <1>11, <3>1, <3>2
    <3>. QED
      BY <1>11, <3>2, <3>3 DEF Stops
  <2>. QED
    BY <1>8, <2>1, <2>2, <1>3
<1>12. ASSUME ~Finished(r, c), n \in DOMAIN bs, Stops(r, d, bs, n) PROVE FALSE
  <2>1. c # <<>> /\ c[Len(c)] = bs[n] /\ Len(c) = Len(d) + n
    BY <1>0, <1>2, <1>3, <1>8, <1>12
  <2>. QED
    BY <1>12, <2>1 DEF Finished, Stops
<1>13. ASSUME ~Finished(r, c)
       PROVE  /\ rest = <<>> /\ Len(c) < Count
              /\ r \in TermReads => \A i \in DOMAIN c : c[i] \notin TermBytes
  <2>1. n = Len(bs) /\ \A j \in DOMAIN bs : ~Stops(r, d, bs, j)
    BY <1>2, <1>12, <1>13
  <2>2. rest = <<>>
    BY <1>0, <1>3, <1>6, <2>1
  <2>3. Len(c) # Count
    <3>1. CASE n = 0
      BY <1>0, <1>3, <1>8, <3>1
    <3>2. CASE n # 0
      <4>1. n \in DOMAIN bs /\ ~Stops(r, d, bs, n)
        BY <1>0, <1>2, <1>3, <2>1, <3>2
      <4>2. Len(d) + n # Count
        BY <4>1 DEF Stops
      <4>. QED
        BY <1>8, <4>2
    <3>. QED
      BY <3>1, <3>2
  <2>4. CASE n = 0
    BY <1>0, <1>3, <1>8, <1>10, <2>2, <2>3, <2>4, SizesAssumption
  <2>5. CASE n # 0
    <3>1. n \in DOMAIN bs /\ ~Stops(r, d, bs, n)
      BY <1>0, <1>2, <1>3, <2>1, <2>5
    <3>. QED
      BY <1>8, <1>10, <1>11, <2>2, <2>3, <3>1, SizesAssumption
  <2>. QED
    BY <2>4, <2>5
<1>14. r \in TermReads => \A i \in 1 .. Len(c) - 1 : c[i] \notin TermBytes
  BY <1>8, <1>11, <1>2, <1>3
<1>15. c \in Seq(Bytes) /\ rest \in Seq(Bytes)
  BY <1>6, <1>8
<1>16. Taken(r, d \o bs, c, rest)
  BY <1>9, <1>10, <1>13, <1>14, <1>15 DEF Taken, NotEnough
<1>. QED
  BY <1>16 DEF c, rest

-----------------------------------------------------------------------------
\* What a read makes of the bytes in its hands: a handler ends it with d, or goes on to
\* the stream with d; rest is what follows d.
Answers(r, status, d, rest) ==
    /\ CompleteRead(r, status, d, rest)
    /\ r \in TermReads => \A i \in 1 .. Len(d) - 1 : d[i] \notin TermBytes
    /\ status = "ok" \/ d = <<>>

\* The read has d and waits for more from the stream.
GoesOn(r, d, rest) ==
    /\ IssueRead(r, d, rest)
    /\ rest = <<>>
    /\ NotEnough(r, d)

\* A handler of read r that has the bytes d: it answers the read or goes on with it.
Reading(r, d, rest) ==
    /\ r \in Reads
    /\ d \in Seq(Bytes) /\ rest \in Seq(Bytes) /\ Len(d) <= Count
    /\ (\E status \in {"ok", "error"} : Answers(r, status, d, rest)) \/ GoesOn(r, d, rest)
    /\ UNCHANGED <<posted, history, streamVars, bounds>>

\* start_next_read serves the read from read_ahead_; no other read is active.
LEMMA StartReadFacts ==
    ASSUME StreamInv, NEW r \in Requests, StartRead(r)
    PROVE  /\ \E d, rest \in Seq(Bytes) : d \o rest = read_ahead /\ Reading(r, d, rest)
           /\ \A x \in Reads : stage[x] # "active"
           /\ stage[r] = "queued" /\ queue["read"] # <<>> /\ queue["read"][1] = r
           /\ starting = "read" /\ UNCHANGED terminal
<1>1. /\ starting = "read" /\ queue["read"] # <<>> /\ Head(queue["read"]) = r
      /\ UNCHANGED <<posted, terminal, history, streamVars, bounds>>
  BY DEF StartRead
<1>2. queue["read"] \in Seq(Requests) /\ queue["read"][1] = r /\ 1 \in DOMAIN queue["read"]
  BY <1>1 DEF StreamInv, TypeOK, Queues
<1>3. QueueOf(r) = "read" /\ stage[r] = "queued"
  BY <1>1, <1>2 DEF StreamInv, QueueInv, ServedInv, Queues
<1>4. r \in Reads
  BY <1>3 DEF QueueOf
<1>5. ASSUME NEW x \in Reads, stage[x] = "active" PROVE FALSE
  <2>1. x \in Requests /\ QueueOf(x) = "read"
    BY DEF Requests, QueueOf
  <2>2. PICK i \in DOMAIN queue["read"] : queue["read"][i] = x
    BY <1>5, <2>1 DEF StreamInv, QueueInv
  <2>3. stage[queue["read"][i]] = "queued"
    BY <1>1, <2>2 DEF StreamInv, ServedInv, Queues
  <2>. QED
    BY <1>5, <2>2, <2>3
<1>6. PICK d : d = Collected(r, <<>>, read_ahead)
  OBVIOUS
<1>7. PICK rest : rest = LeftOver(r, <<>>, read_ahead)
  OBVIOUS
<1>8. read_ahead \in Seq(Bytes) /\ <<>> \in Seq(Bytes)
  BY DEF StreamInv, TypeOK
<1>9. Taken(r, read_ahead, d, rest)
  <2>1. NotEnough(r, <<>>)
    BY SizesAssumption DEF NotEnough
  <2>2. <<>> \o read_ahead = read_ahead
    BY <1>8
  <2>. QED
    BY <1>6, <1>7, <1>8, <2>1, <2>2, CollectedFacts, Zenon
<1>10. d \in Seq(Bytes) /\ rest \in Seq(Bytes) /\ d \o rest = read_ahead
  BY <1>9 DEF Taken
<1>11. CASE Finished(r, d)
  <2>1. CompleteRead(r, "ok", d, rest)
    BY <1>6, <1>7, <1>11 DEF StartRead
  <2>2. Reading(r, d, rest)
    BY <1>1, <1>4, <1>9, <2>1 DEF Reading, Answers, Taken
  <2>. QED
    BY <1>1, <1>2, <1>3, <1>5, <1>10, <2>2
<1>12. CASE ~Finished(r, d) /\ terminal
  <2>1. CompleteRead(r, IF d = <<>> THEN "error" ELSE "ok", d, rest)
    BY <1>6, <1>7, <1>12 DEF StartRead
  <2>2. Reading(r, d, rest)
    BY <1>1, <1>4, <1>9, <2>1 DEF Reading, Answers, Taken
  <2>. QED
    BY <1>1, <1>2, <1>3, <1>5, <1>10, <2>2
<1>13. CASE ~Finished(r, d) /\ ~terminal
  <2>1. IssueRead(r, d, rest)
    BY <1>6, <1>7, <1>13 DEF StartRead
  <2>2. Reading(r, d, rest)
    BY <1>1, <1>4, <1>9, <1>13, <2>1 DEF Reading, GoesOn, Taken
  <2>. QED
    BY <1>1, <1>2, <1>3, <1>5, <1>10, <2>2
<1>. QED
  BY <1>11, <1>12, <1>13

\* The active request of a kind is the first of its queue, and the only one.
LEMMA ActiveIsFirst ==
    ASSUME StreamInv, NEW r \in Requests, stage[r] = "active", NEW k, k = QueueOf(r)
    PROVE  /\ k \in Queues /\ starting # k
           /\ queue[k] \in Seq(Requests) /\ queue[k] # <<>> /\ queue[k][1] = r
           /\ \A x \in Requests : stage[x] = "active" /\ QueueOf(x) = k => x = r
<1>1. k \in Queues
  BY DEF Queues, QueueOf
<1>2. ASSUME NEW x \in Requests, stage[x] = "active", QueueOf(x) = k
      PROVE  starting # k /\ 1 \in DOMAIN queue[k] /\ queue[k][1] = x
  <2>1. PICK i \in DOMAIN queue[k] : queue[k][i] = x
    BY <1>2 DEF StreamInv, QueueInv
  <2>2. i = 1 /\ starting # k
    BY <1>1, <1>2, <2>1 DEF StreamInv, ServedInv
  <2>. QED
    BY <2>1, <2>2
<1>3. queue[k] \in Seq(Requests)
  BY <1>1 DEF StreamInv, TypeOK
<1>4. starting # k /\ 1 \in DOMAIN queue[k] /\ queue[k][1] = r
  BY <1>2
<1>. QED
  BY <1>1, <1>2, <1>3, <1>4

\* on_read goes on with what the system has read, or ends the read; an error ends it.
LEMMA OnReadFacts ==
    ASSUME StreamInv, NEW r \in Requests, OnRead(r) \/ OnReadError(r)
    PROVE  /\ \E d, rest \in Seq(Bytes) : d \o rest = data[r] \o scratch[r] /\ Reading(r, d, rest)
           /\ stage[r] = "active" /\ starting = "none" /\ read_ahead = <<>>
           /\ terminal' \in BOOLEAN
<1>1. /\ r \in Reads /\ stage[r] = "active" /\ starting = "none"
      /\ UNCHANGED <<posted, history, streamVars, bounds>>
  BY DEF OnRead, OnReadError
<1>2. /\ read_ahead = <<>> /\ NotEnough(r, data[r])
      /\ data[r] \in Seq(Bytes) /\ scratch[r] \in Seq(Bytes)
  BY <1>1 DEF StreamInv, ReadInv, TypeOK
<1>3. CASE OnRead(r)
  <2>1. PICK d : d = Collected(r, data[r], scratch[r])
    OBVIOUS
  <2>2. PICK rest : rest = LeftOver(r, data[r], scratch[r])
    OBVIOUS
  <2>3. Taken(r, data[r] \o scratch[r], d, rest)
    BY <1>2, <2>1, <2>2, CollectedFacts, Zenon
  <2>4. read_ahead \o rest = rest
    BY <1>2, <2>3 DEF Taken
  <2>5. IF Finished(r, d) THEN CompleteRead(r, "ok", d, rest) ELSE IssueRead(r, d, rest)
    BY <1>3, <2>1, <2>2, <2>4 DEF OnRead
  <2>6. terminal' \in BOOLEAN
    BY <1>3 DEF OnRead, StreamInv, TypeOK
  <2>7. Reading(r, d, rest)
    BY <1>1, <2>3, <2>5 DEF Reading, Answers, GoesOn, Taken
  <2>. QED
    BY <1>1, <1>2, <2>3, <2>6, <2>7 DEF Taken
<1>4. CASE OnReadError(r)
  <2>1. scratch[r] = <<>>
    BY <1>4 DEF OnReadError, StreamInv, IoInv
  <2>2. CompleteRead(r, IF data[r] = <<>> THEN "error" ELSE "ok", data[r], read_ahead)
    BY <1>4 DEF OnReadError
  <2>3. Reading(r, data[r], <<>>)
    BY <1>1, <1>2, <2>2, SizesAssumption DEF Reading, Answers, NotEnough
  <2>4. terminal' \in BOOLEAN
    BY <1>4 DEF OnReadError, StreamInv, TypeOK
  <2>. QED
    BY <1>1, <1>2, <2>1, <2>3, <2>4
<1>. QED
  BY <1>3, <1>4

\* A step of start_next_read or of the handler of async_read_some: the read at the front
\* of the queue, the only one that can be active, makes d and rest of the bytes in its
\* hands and in read_ahead_.
ReadHandler(r, d, rest) ==
    /\ d \in Seq(Bytes) /\ rest \in Seq(Bytes)
    /\ InHand \o read_ahead = d \o rest
    /\ Reading(r, d, rest)
    /\ stage[r] \in {"queued", "active"}
    /\ \A x \in Reads : stage[x] = "active" => x = r
    /\ queue["read"] # <<>> /\ queue["read"][1] = r
    /\ starting \in {"read", "none"}
    /\ terminal' \in BOOLEAN

\* The three handlers of a read do nothing else.
LEMMA ReadHandlerFacts ==
    ASSUME StreamInv, NEW r \in Requests, StartRead(r) \/ OnRead(r) \/ OnReadError(r)
    PROVE  \E d, rest : ReadHandler(r, d, rest)
<1>1. CASE StartRead(r)
  <2>1. /\ \A x \in Reads : stage[x] # "active"
        /\ stage[r] = "queued" /\ queue["read"] # <<>> /\ queue["read"][1] = r
        /\ starting = "read" /\ UNCHANGED terminal
    BY <1>1, StartReadFacts
  <2>2. PICK d, rest \in Seq(Bytes) : d \o rest = read_ahead /\ Reading(r, d, rest)
    BY <1>1, StartReadFacts
  <2>3. InHand = <<>>
    BY <2>1 DEF InHand, ActiveReads
  <2>4. read_ahead \in Seq(Bytes) /\ terminal \in BOOLEAN
    BY DEF StreamInv, TypeOK
  <2>5. InHand \o read_ahead = d \o rest
    BY <2>2, <2>3, <2>4
  <2>6. ReadHandler(r, d, rest)
    BY <2>1, <2>2, <2>4, <2>5 DEF ReadHandler
  <2>. QED
    BY <2>6
<1>2. CASE OnRead(r) \/ OnReadError(r)
  <2>1. stage[r] = "active" /\ starting = "none" /\ read_ahead = <<>> /\ terminal' \in BOOLEAN
    BY <1>2, OnReadFacts
  <2>2. PICK d, rest \in Seq(Bytes) : d \o rest = data[r] \o scratch[r] /\ Reading(r, d, rest)
    BY <1>2, OnReadFacts
  <2>3. r \in Reads /\ QueueOf(r) = "read"
    BY <2>2 DEF Reading, QueueOf
  <2>4. /\ queue["read"] # <<>> /\ queue["read"][1] = r
        /\ \A x \in Requests : stage[x] = "active" /\ QueueOf(x) = "read" => x = r
    BY <2>1, <2>3, ActiveIsFirst
  <2>5. \A x \in Reads : stage[x] = "active" => x = r
    BY <2>4 DEF QueueOf, Requests
  <2>6. ActiveReads = {r}
    BY <2>1, <2>3, <2>5 DEF ActiveReads
  <2>7. InHand = data[r] \o scratch[r]
    BY <2>6 DEF InHand
  <2>8. data[r] \in Seq(Bytes) /\ scratch[r] \in Seq(Bytes)
    BY DEF StreamInv, TypeOK
  <2>9. InHand \o read_ahead = d \o rest
    BY <2>1, <2>2, <2>7, <2>8
  <2>10. ReadHandler(r, d, rest)
    BY <2>1, <2>2, <2>4, <2>5, <2>9 DEF ReadHandler
  <2>. QED
    BY <2>10
<1>. QED
  BY <1>1, <1>2

-----------------------------------------------------------------------------
\* The first request of a queue is done and the loop of the queue runs.
FrontDone(k, r) ==
    /\ k \in Queues /\ queue[k] # <<>> /\ queue[k][1] = r
    /\ starting \in {k, "none"} /\ starting' = k
    /\ queue' = [queue EXCEPT ![k] = Tail(@)]
    /\ stage' = [stage EXCEPT ![r] = "done"]

\* Answering the first request of a queue leaves the queues in order.
LEMMA FrontDoneFacts ==
    ASSUME StreamInv, NEW k, NEW r \in Requests, FrontDone(k, r)
    PROVE  QueueInv' /\ ServedInv'
<1>1. /\ k \in Queues /\ queue[k] # <<>> /\ queue[k][1] = r
      /\ starting \in {k, "none"} /\ starting' = k
  BY DEF FrontDone
<1>2. queue[k] \in Seq(Requests) /\ 1 \in DOMAIN queue[k] /\ queue \in [Queues -> Seq(Requests)]
  BY <1>1 DEF StreamInv, TypeOK
<1>3. PICK t : t = Tail(queue[k])
  OBVIOUS
<1>4. /\ t \in Seq(Requests) /\ Len(t) = Len(queue[k]) - 1
      /\ \A i \in DOMAIN t : t[i] = queue[k][i + 1] /\ i + 1 \in DOMAIN queue[k] /\ i + 1 # 1
      /\ \A i \in DOMAIN queue[k] : i # 1 => i - 1 \in DOMAIN t /\ t[i - 1] = queue[k][i]
  BY <1>1, <1>2, <1>3
<1>5. queue' = [queue EXCEPT ![k] = t] /\ stage' = [stage EXCEPT ![r] = "done"]
  BY <1>3 DEF FrontDone
<1>6. queue'[k] = t /\ \A c \in Queues : c # k => queue'[c] = queue[c]
  BY <1>1, <1>2, <1>5
<1>7. stage'[r] = "done" /\ \A x \in Requests : x # r => stage'[x] = stage[x]
  BY <1>5 DEF StreamInv, TypeOK
<1>8. QueueOf(r) = k
  BY <1>1, <1>2 DEF StreamInv, QueueInv
<1>9. \A i \in DOMAIN t : t[i] # r /\ stage[t[i]] = "queued" /\ t[i] \in Requests
  <2>. SUFFICES ASSUME NEW i \in DOMAIN t
                PROVE  t[i] # r /\ stage[t[i]] = "queued" /\ t[i] \in Requests
    OBVIOUS
  <2>1. t[i] = queue[k][i + 1] /\ i + 1 \in DOMAIN queue[k] /\ i + 1 # 1
    BY <1>4
  <2>2. queue[k][i + 1] # queue[k][1] /\ stage[queue[k][i + 1]] = "queued"
    BY <1>1, <1>2, <2>1 DEF StreamInv, QueueInv, ServedInv
  <2>. QED
    BY <1>1, <1>2, <2>1, <2>2
<1>10. QueueInv'
  <2>1. \A c \in Queues : \A i, j \in DOMAIN queue'[c] : queue'[c][i] = queue'[c][j] => i = j
    <3>1. \A i, j \in DOMAIN queue[k] : queue[k][i] = queue[k][j] => i = j
      BY <1>1 DEF StreamInv, QueueInv
    <3>2. \A i, j \in DOMAIN t : t[i] = t[j] => i = j
      BY <1>2, <1>4, <3>1
    <3>. QED
      BY <1>6, <3>2 DEF StreamInv, QueueInv
  <2>2. \A c \in Queues : \A i \in DOMAIN queue'[c] : QueueOf(queue'[c][i]) = c
    BY <1>1, <1>4, <1>6 DEF StreamInv, QueueInv
  <2>3. ASSUME NEW x \in Requests, stage'[x] \in {"queued", "active"}
        PROVE  \E i \in DOMAIN queue'[QueueOf(x)] : queue'[QueueOf(x)][i] = x
    <3>1. x # r /\ stage[x] \in {"queued", "active"}
      BY <1>7, <2>3
    <3>2. PICK i \in DOMAIN queue[QueueOf(x)] : queue[QueueOf(x)][i] = x
      BY <3>1 DEF StreamInv, QueueInv
    <3>3. CASE QueueOf(x) = k
      <4>1. i # 1
        BY <1>1, <3>1, <3>2, <3>3
      <4>. QED
        BY <1>4, <1>6, <3>2, <3>3, <4>1
    <3>4. CASE QueueOf(x) # k
      BY <1>6, <3>2, <3>4 DEF QueueOf, Queues
    <3>. QED
      BY <3>3, <3>4
  <2>. QED
    BY <2>1, <2>2, <2>3 DEF QueueInv
<1>11. ServedInv'
  <2>. SUFFICES ASSUME NEW c \in Queues, NEW i \in DOMAIN queue'[c]
                PROVE  stage'[queue'[c][i]] = IF i = 1 /\ starting' # c THEN "active" ELSE "queued"
    BY DEF ServedInv
  <2>1. CASE c = k
    BY <1>1, <1>6, <1>7, <1>9, <2>1
  <2>2. CASE c # k
    <3>1. queue'[c] = queue[c] /\ i \in DOMAIN queue[c] /\ queue[c] \in Seq(Requests)
      BY <1>2, <1>6, <2>2
    <3>2. QueueOf(queue[c][i]) = c /\ queue[c][i] \in Requests
      BY <3>1 DEF StreamInv, QueueInv
    <3>3. stage'[queue[c][i]] = stage[queue[c][i]]
      BY <1>7, <1>8, <2>2, <3>2
    <3>4. starting # c /\ starting' # c
      BY <1>1, <2>2 DEF Queues
    <3>. QED
      BY <3>1, <3>3, <3>4 DEF StreamInv, ServedInv
  <2>. QED
    BY <2>1, <2>2
<1>. QED
  BY <1>10, <1>11

\* The first request of a queue goes to the stream.
FrontStarts(k, r) ==
    /\ k \in Queues /\ queue[k] # <<>> /\ queue[k][1] = r
    /\ starting \in {k, "none"} /\ starting' = "none"
    /\ UNCHANGED queue
    /\ stage' = [stage EXCEPT ![r] = "active"]

\* So does starting it.
LEMMA FrontStartsFacts ==
    ASSUME StreamInv, NEW k, NEW r \in Requests, FrontStarts(k, r)
    PROVE  QueueInv' /\ ServedInv'
<1>1. /\ k \in Queues /\ queue[k] # <<>> /\ queue[k][1] = r
      /\ starting \in {k, "none"} /\ starting' = "none" /\ queue' = queue
      /\ stage' = [stage EXCEPT ![r] = "active"]
  BY DEF FrontStarts
<1>2. queue[k] \in Seq(Requests) /\ 1 \in DOMAIN queue[k]
  BY <1>1 DEF StreamInv, TypeOK
<1>3. stage'[r] = "active" /\ \A x \in Requests : x # r => stage'[x] = stage[x]
  BY <1>1 DEF StreamInv, TypeOK
<1>4. QueueOf(r) = k
  BY <1>1, <1>2 DEF StreamInv, QueueInv
<1>5. QueueInv'
  <2>1. ASSUME NEW x \in Requests, stage'[x] \in {"queued", "active"}
        PROVE  \E i \in DOMAIN queue[QueueOf(x)] : queue[QueueOf(x)][i] = x
    <3>1. CASE x = r
      BY <1>1, <1>2, <1>4, <3>1
    <3>2. CASE x # r
      BY <1>3, <2>1, <3>2 DEF StreamInv, QueueInv
    <3>. QED
      BY <3>1, <3>2
  <2>. QED
    BY <1>1, <2>1 DEF StreamInv, QueueInv
<1>6. ServedInv'
  <2>. SUFFICES ASSUME NEW c \in Queues, NEW i \in DOMAIN queue[c]
                PROVE  stage'[queue[c][i]] = IF i = 1 THEN "active" ELSE "queued"
    BY <1>1 DEF ServedInv, Queues
  <2>1. queue[c] \in Seq(Requests) /\ queue[c][i] \in Requests /\ QueueOf(queue[c][i]) = c
    BY DEF StreamInv, TypeOK, QueueInv
  <2>2. stage[queue[c][i]] = IF i = 1 /\ starting # c THEN "active" ELSE "queued"
    BY DEF StreamInv, ServedInv
  <2>3. CASE c = k
    <3>1. queue[k][i] = r <=> i = 1
      BY <1>1, <1>2, <2>3 DEF StreamInv, QueueInv
    <3>. QED
      BY <1>3, <2>1, <2>2, <2>3, <3>1
  <2>4. CASE c # k
    <3>1. starting # c /\ queue[c][i] # r
      BY <1>1, <1>4, <2>1, <2>4 DEF Queues
    <3>. QED
      BY <1>3, <2>1, <2>2, <3>1
  <2>. QED
    BY <2>3, <2>4
<1>. QED
  BY <1>5, <1>6

\* A request that no queue holds changes its stage, and is not queued then.
LEMMA OutsideQueues ==
    ASSUME StreamInv, UNCHANGED <<queue, starting>>, NEW r \in Requests, NEW s,
           s \notin {"queued", "active"}, stage[r] \notin {"queued", "active"},
           stage' = [stage EXCEPT ![r] = s]
    PROVE  QueueInv' /\ ServedInv'
<1>1. stage'[r] = s /\ \A x \in Requests : x # r => stage'[x] = stage[x]
  BY DEF StreamInv, TypeOK
<1>2. \A c \in Queues : \A i \in DOMAIN queue[c] : queue[c][i] \in Requests /\ queue[c][i] # r
  BY DEF StreamInv, TypeOK, ServedInv
<1>. QED
  BY <1>1, <1>2 DEF StreamInv, QueueInv, ServedInv

\* enqueue_read and enqueue_write put a request that waits in no queue behind the others.
LEMMA EnqueueFacts ==
    ASSUME StreamInv, NEW r \in Requests, Enqueue(r)
    PROVE  QueueInv' /\ ServedInv'
<1>1. CASE Done(r)
  BY <1>1 DEF Enqueue, StreamInv, QueueInv, ServedInv
<1>2. CASE ~Done(r)
  <2>1. PICK k : k = QueueOf(r)
    OBVIOUS
  <2>2. /\ queue' = [queue EXCEPT ![k] = Append(@, r)]
        /\ stage' = [stage EXCEPT ![r] = "queued"]
        /\ starting' = IF queue[k] = <<>> THEN k ELSE "none"
        /\ starting = "none" /\ posted # <<>> /\ Head(posted) = <<"enqueue", {r}>>
    BY <1>2, <2>1 DEF Enqueue, Task
  <2>3. k \in Queues /\ queue[k] \in Seq(Requests) /\ queue \in [Queues -> Seq(Requests)]
    BY <2>1 DEF StreamInv, TypeOK, QueueOf, Queues
  <2>4. stage[r] = "posted"
    <3>1. 1 \in DOMAIN posted /\ posted[1] = <<"enqueue", {r}>>
      BY <2>2 DEF StreamInv, TypeOK
    <3>. QED
      BY <1>2, <3>1 DEF StreamInv, PostedInv, Done
  <2>5. PICK q : q = Append(queue[k], r)
    OBVIOUS
  <2>6. q \in Seq(Requests) /\ Len(q) = Len(queue[k]) + 1 /\ q[Len(q)] = r
    BY <2>3, <2>5
  <2>7. \A i \in DOMAIN queue[k] : i \in DOMAIN q /\ q[i] = queue[k][i] /\ i # Len(q)
    BY <2>3, <2>5
  <2>8. \A i \in DOMAIN q : i \in DOMAIN queue[k] \/ i = Len(q)
    BY <2>3, <2>5
  <2>9. queue'[k] = q /\ \A c \in Queues : c # k => queue'[c] = queue[c]
    BY <2>2, <2>3, <2>5
  <2>10. stage'[r] = "queued" /\ \A x \in Requests : x # r => stage'[x] = stage[x]
    BY <2>2 DEF StreamInv, TypeOK
  <2>11. \A c \in Queues : \A i \in DOMAIN queue[c] : queue[c][i] \in Requests /\ queue[c][i] # r
    <3>1. stage[r] \notin {"queued", "active"}
      BY <2>4
    <3>. QED
      BY <3>1 DEF StreamInv, TypeOK, ServedInv
  <2>12. QueueInv'
    <3>1. \A i, j \in DOMAIN q : q[i] = q[j] => i = j
      <4>1. \A i, j \in DOMAIN queue[k] : queue[k][i] = queue[k][j] => i = j
        BY <2>3 DEF StreamInv, QueueInv
      <4>. QED
        BY <2>3, <2>6, <2>7, <2>8, <2>11, <4>1
    <3>2. \A i \in DOMAIN q : QueueOf(q[i]) = k
      BY <2>1, <2>3, <2>6, <2>7, <2>8 DEF StreamInv, QueueInv
    <3>3. ASSUME NEW x \in Requests, stage'[x] \in {"queued", "active"}
          PROVE  \E i \in DOMAIN queue'[QueueOf(x)] : queue'[QueueOf(x)][i] = x
      <4>1. CASE x = r
        <5>1. Len(q) \in DOMAIN q
          BY <2>3, <2>6
        <5>. QED
          BY <2>1, <2>6, <2>9, <4>1, <5>1
      <4>2. CASE x # r
        <5>1. PICK i \in DOMAIN queue[QueueOf(x)] : queue[QueueOf(x)][i] = x
          BY <2>10, <3>3, <4>2 DEF StreamInv, QueueInv
        <5>. QED
          BY <2>7, <2>9, <5>1 DEF QueueOf, Queues
      <4>. QED
        BY <4>1, <4>2
    <3>. QED
      BY <2>9, <3>1, <3>2, <3>3 DEF StreamInv, QueueInv
  <2>13. ServedInv'
    <3>. SUFFICES ASSUME NEW c \in Queues, NEW i \in DOMAIN queue'[c]
                  PROVE  stage'[queue'[c][i]] = IF i = 1 /\ starting' # c THEN "active" ELSE "queued"
      BY DEF ServedInv
    <3>1. \A j \in DOMAIN queue[c] : stage[queue[c][j]] = IF j = 1 THEN "active" ELSE "queued"
      BY <2>2 DEF StreamInv, ServedInv, Queues
    <3>2. CASE c = k
      <4>1. CASE i \in DOMAIN queue[k]
        <5>1. q[i] = queue[k][i] /\ queue[k] # <<>>
          BY <2>3, <2>7, <4>1
        <5>2. starting' # c
          BY <2>2, <3>2, <5>1 DEF Queues
        <5>. QED
          BY <2>9, <2>10, <2>11, <3>1, <3>2, <4>1, <5>1, <5>2
      <4>2. CASE i = Len(q)
        <5>1. i = 1 => starting' = k
          BY <2>2, <2>3, <2>6, <4>2
        <5>2. queue'[c][i] = r
          BY <2>6, <2>9, <3>2, <4>2
        <5>. QED
          BY <2>10, <3>2, <5>1, <5>2
      <4>. QED
        BY <2>8, <2>9, <3>2, <4>1, <4>2
    <3>3. CASE c # k
      BY <2>2, <2>9, <2>10, <2>11, <3>1, <3>3 DEF Queues
    <3>. QED
      BY <3>2, <3>3
  <2>. QED
    BY <2>12, <2>13
<1>. QED
  BY <1>1, <1>2

\* cancel_read and cancel_write take a request that waits out of its queue.  It is
\* not the first one, which is active.
LEMMA CancelWaitingFacts ==
    ASSUME StreamInv, NEW r \in Requests, CancelWaiting(r)
    PROVE  QueueInv' /\ ServedInv'
<1>1. PICK k : k = QueueOf(r)
  OBVIOUS
<1>2. k \in Queues /\ queue[k] \in Seq(Requests) /\ queue \in [Queues -> Seq(Requests)]
  BY <1>1 DEF StreamInv, TypeOK, QueueOf, Queues
<1>3. PICK e : e = Erase(queue[k], r)
  OBVIOUS
<1>4. /\ queue' = [queue EXCEPT ![k] = e]
      /\ stage' = [stage EXCEPT ![r] = "done"]
      /\ starting' = starting /\ starting = "none" /\ stage[r] # "active"
  BY <1>1, <1>3 DEF CancelWaiting, Task
<1>5. /\ e \in Seq(Requests)
      /\ \A i, j \in DOMAIN e : e[i] = e[j] => i = j
      /\ \A i \in DOMAIN e : e[i] # r /\ \E j \in DOMAIN queue[k] : e[i] = queue[k][j] /\ (j = 1 => i = 1)
      /\ \A j \in DOMAIN queue[k] : queue[k][j] # r => \E i \in DOMAIN e : e[i] = queue[k][j]
      /\ queue[k] # <<>> /\ queue[k][1] # r => e # <<>> /\ e[1] = queue[k][1]
  <2>1. \A i, j \in DOMAIN queue[k] : queue[k][i] = queue[k][j] => i = j
    BY <1>2 DEF StreamInv, QueueInv
  <2>. QED
    BY <1>2, <1>3, <2>1, EraseFacts
<1>6. queue'[k] = e /\ \A c \in Queues : c # k => queue'[c] = queue[c]
  BY <1>2, <1>4
<1>7. stage'[r] = "done" /\ \A x \in Requests : x # r => stage'[x] = stage[x]
  BY <1>4 DEF StreamInv, TypeOK
<1>8. \A c \in Queues : \A j \in DOMAIN queue[c] :
          stage[queue[c][j]] = IF j = 1 THEN "active" ELSE "queued"
  BY <1>4 DEF StreamInv, ServedInv, Queues
<1>9. QueueInv'
  <2>1. \A i \in DOMAIN e : QueueOf(e[i]) = k
    BY <1>2, <1>5 DEF StreamInv, QueueInv
  <2>2. ASSUME NEW x \in Requests, stage'[x] \in {"queued", "active"}
        PROVE  \E i \in DOMAIN queue'[QueueOf(x)] : queue'[QueueOf(x)][i] = x
    <3>1. x # r /\ stage[x] \in {"queued", "active"}
      BY <1>7, <2>2
    <3>2. PICK i \in DOMAIN queue[QueueOf(x)] : queue[QueueOf(x)][i] = x
      BY <3>1 DEF StreamInv, QueueInv
    <3>3. CASE QueueOf(x) = k
      BY <1>5, <1>6, <3>1, <3>2, <3>3
    <3>4. CASE QueueOf(x) # k
      BY <1>6, <3>2, <3>4 DEF QueueOf, Queues
    <3>. QED
      BY <3>3, <3>4
  <2>. QED
    BY <1>5, <1>6, <2>1, <2>2 DEF StreamInv, QueueInv
<1>10. ServedInv'
  <2>. SUFFICES ASSUME NEW c \in Queues, NEW i \in DOMAIN queue'[c]
                PROVE  stage'[queue'[c][i]] = IF i = 1 THEN "active" ELSE "queued"
    BY <1>4 DEF ServedInv, Queues
  <2>1. CASE c = k
    <3>1. PICK j \in DOMAIN queue[k] : e[i] = queue[k][j] /\ (j = 1 => i = 1) /\ e[i] # r
      BY <1>5, <1>6, <2>1
    <3>2. queue[k] # <<>> /\ 1 \in DOMAIN queue[k] /\ queue[k][1] # r
      BY <1>2, <1>4, <1>8, <3>1
    <3>3. i = 1 => e[i] = queue[k][1]
      BY <1>5, <3>2
    <3>4. e[i] \in Requests
      BY <1>2, <3>1
    <3>. QED
      BY <1>6, <1>7, <1>8, <2>1, <3>1, <3>2, <3>3, <3>4
  <2>2. CASE c # k
    <3>1. queue[c][i] \in Requests /\ QueueOf(queue[c][i]) = c /\ i \in DOMAIN queue[c]
      BY <1>2, <1>6, <2>2 DEF StreamInv, QueueInv
    <3>. QED
      BY <1>1, <1>6, <1>7, <1>8, <2>2, <3>1
  <2>. QED
    BY <2>1, <2>2
<1>. QED
  BY <1>9, <1>10

\* Every step keeps the queues in order and served.
LEMMA QueueNext ==
    ASSUME StreamInv, [Next]_vars
    PROVE  QueueInv' /\ ServedInv'
<1>1. CASE UNCHANGED <<queue, stage, starting>>
  BY <1>1 DEF StreamInv, QueueInv, ServedInv
<1>2. ASSUME NEW r \in Requests, Call(r) \/ Post(r) PROVE QueueInv' /\ ServedInv'
  <2>1. PICK s \in {"calling", "posted"} : stage' = [stage EXCEPT ![r] = s]
    BY <1>2 DEF Call, Post
  <2>2. stage[r] \in {"none", "calling"} /\ UNCHANGED <<queue, starting>>
    BY <1>2 DEF Call, Post
  <2>. QED
    BY <2>1, <2>2, OutsideQueues
<1>3. ASSUME NEW r \in Requests, Drop(r) PROVE QueueInv' /\ ServedInv'
  <2>1. starting \in Queues /\ queue[starting] \in Seq(Requests)
    BY <1>3 DEF Drop, StreamInv, TypeOK
  <2>2. FrontDone(starting, r)
    BY <1>3, <2>1 DEF Drop, FrontDone
  <2>. QED
    BY <2>2, FrontDoneFacts
<1>4. ASSUME NEW r \in Requests, StartRead(r) \/ OnRead(r) \/ OnReadError(r)
      PROVE  QueueInv' /\ ServedInv'
  <2>1. PICK d, rest : ReadHandler(r, d, rest)
    BY <1>4, ReadHandlerFacts
  <2>2. /\ queue["read"] # <<>> /\ queue["read"][1] = r /\ starting \in {"read", "none"}
        /\ "read" \in Queues
    BY <2>1 DEF ReadHandler, Queues
  <2>3. CASE \E status \in {"ok", "error"} : Answers(r, status, d, rest)
    <3>1. FrontDone("read", r)
      BY <2>2, <2>3 DEF Answers, CompleteRead, FrontDone
    <3>. QED
      BY <3>1, FrontDoneFacts
  <2>4. CASE GoesOn(r, d, rest)
    <3>1. FrontStarts("read", r)
      BY <2>2, <2>4 DEF GoesOn, IssueRead, FrontStarts
    <3>. QED
      BY <3>1, FrontStartsFacts
  <2>. QED
    BY <2>1, <2>3, <2>4 DEF ReadHandler, Reading
<1>5. ASSUME NEW r \in Requests, StartWrite(r) PROVE QueueInv' /\ ServedInv'
  <2>1. queue["write"] \in Seq(Requests)
    BY DEF StreamInv, TypeOK, Queues
  <2>2. FrontStarts("write", r)
    BY <1>5, <2>1 DEF StartWrite, FrontStarts, Queues
  <2>. QED
    BY <2>2, FrontStartsFacts
<1>6. ASSUME NEW r \in Requests, OnWritten(r) PROVE QueueInv' /\ ServedInv'
  <2>1. stage[r] = "active" /\ r \in Writes /\ starting = "none"
    BY <1>6 DEF OnWritten
  <2>2. QueueOf(r) = "write"
    BY <2>1, RequestsAssumption DEF QueueOf
  <2>3. queue["write"] # <<>> /\ queue["write"][1] = r
    BY <2>1, <2>2, ActiveIsFirst
  <2>4. FrontDone("write", r)
    BY <1>6, <2>1, <2>3 DEF OnWritten, FrontDone, Queues
  <2>. QED
    BY <2>4, FrontDoneFacts
<1>7. CASE LoopDone
  <2>1. /\ starting \in Queues /\ queue[starting] = <<>> /\ starting' = "none"
        /\ UNCHANGED <<queue, stage>>
    BY <1>7 DEF LoopDone, StreamInv, TypeOK, callVars
  <2>2. QueueInv'
    BY <2>1 DEF StreamInv, QueueInv
  <2>3. ServedInv'
    BY <2>1 DEF StreamInv, ServedInv, Queues
  <2>. QED
    BY <2>2, <2>3
<1>8. ASSUME NEW r \in Requests, CompleteOperation(r) \/ CancelActive(r) \/ IoFails(r)
                                 \/ ByteWritten(r) \/ \E n \in 1 .. Len(inbound) : ReadDone(r, n)
      PROVE  QueueInv' /\ ServedInv'
  BY <1>1, <1>8 DEF CompleteOperation, CancelActive, IoFails, ByteWritten, ReadDone, callVars
<1>9. CASE CallFlush \/ FlushInput \/ CallClear \/ CallClose \/ Flush \/ Purge \/ Close
           \/ DeviceSends \/ ConnectionEnds \/ UNCHANGED vars
  BY <1>1, <1>9 DEF CallFlush, FlushInput, CallClear, CallClose, Flush, Purge, Close,
                    DeviceSends, ConnectionEnds, vars, callVars
<1>. QED
  BY <1>2, <1>3, <1>4, <1>5, <1>6, <1>7, <1>8, <1>9, EnqueueFacts, CancelWaitingFacts
  DEF Next, Strand, Environment

-----------------------------------------------------------------------------
\* Every step keeps a request from being posted twice.
LEMMA PostedNext ==
    ASSUME StreamInv, [Next]_vars
    PROVE  PostedInv'
<1>. DEFINE Keeps == \A x \in Requests : stage[x] \in {"posted", "done"} =>
                                            stage'[x] \in {"posted", "done"}
<1>0. posted \in Seq(Tasks) /\ stage \in [Requests -> {"none", "calling", "posted", "queued", "active", "done"}]
  BY DEF StreamInv, TypeOK
<1>1. CASE Keeps /\ posted' = posted
  BY <1>1 DEF StreamInv, PostedInv
<1>2. ASSUME Keeps, NEW t \in Tasks, posted' = Append(posted, t),
             t[1] = "enqueue" => \A i \in DOMAIN posted : posted[i] # t,
             \A r \in Requests : t = <<"enqueue", {r}>> => stage'[r] \in {"posted", "done"}
      PROVE  PostedInv'
  <2>1. \A i \in DOMAIN posted' : 
            (i \in DOMAIN posted /\ posted'[i] = posted[i]) \/ (posted'[i] = t /\ i = Len(posted) + 1)
    BY <1>0, <1>2, AppendFacts
  <2>2. \A i \in DOMAIN posted : i # Len(posted) + 1
    BY <1>0
  <2>3. \A r \in Requests : \A i \in DOMAIN posted' :
          posted'[i] = <<"enqueue", {r}>> => stage'[r] \in {"posted", "done"}
    BY <1>2, <2>1 DEF StreamInv, PostedInv
  <2>4. \A i, j \in DOMAIN posted' : posted'[i][1] = "enqueue" /\ posted'[i] = posted'[j] => i = j
    BY <1>2, <2>1, <2>2 DEF StreamInv, PostedInv
  <2>. QED
    BY <2>3, <2>4 DEF PostedInv
<1>3. ASSUME posted # <<>>, posted' = Tail(posted),
             \A r \in Requests : \A i \in DOMAIN posted : 
                 i # 1 /\ posted[i] = <<"enqueue", {r}>> => stage'[r] \in {"posted", "done"}
      PROVE  PostedInv'
  <2>1. \A i \in DOMAIN posted' : i \in Nat /\ i + 1 \in DOMAIN posted /\ i + 1 # 1 /\ posted'[i] = posted[i + 1]
    BY <1>0, <1>3
  <2>2. \A r \in Requests : \A i \in DOMAIN posted' :
          posted'[i] = <<"enqueue", {r}>> => stage'[r] \in {"posted", "done"}
    BY <1>3, <2>1
  <2>3. ASSUME NEW i \in DOMAIN posted', NEW j \in DOMAIN posted',
               posted'[i][1] = "enqueue", posted'[i] = posted'[j]
        PROVE  i = j
    <3>1. i + 1 = j + 1
      BY <2>1, <2>3 DEF StreamInv, PostedInv
    <3>. QED
      BY <2>1, <3>1
  <2>. QED
    BY <2>2, <2>3 DEF PostedInv
<1>4. ASSUME posted # <<>>, posted' = Tail(posted), Keeps
      PROVE  PostedInv'
  BY <1>3, <1>4 DEF StreamInv, PostedInv
<1>5. ASSUME NEW r \in Requests, NEW s, stage' = [stage EXCEPT ![r] = s],
             stage[r] \in {"posted", "done"} => s \in {"posted", "done"}
      PROVE  Keeps
  BY <1>0, <1>5
<1>6. UNCHANGED stage => Keeps
  OBVIOUS
<1>. HIDE DEF Keeps
<1>7. ASSUME NEW r \in Requests, Post(r) PROVE PostedInv'
  <2>1. PICK t : t = <<"enqueue", {r}>>
    OBVIOUS
  <2>2. t \in Tasks /\ t[1] = "enqueue" /\ \A x \in Requests : t = <<"enqueue", {x}>> => x = r
    BY <2>1 DEF Tasks
  <2>3. posted' = Append(posted, t) /\ stage[r] = "calling" /\ stage' = [stage EXCEPT ![r] = "posted"]
    BY <1>7, <2>1 DEF Post
  <2>4. Keeps
    BY <1>5, <2>3
  <2>5. \A i \in DOMAIN posted : posted[i] # t
    BY <2>1, <2>3 DEF StreamInv, PostedInv
  <2>6. stage'[r] = "posted"
    BY <1>0, <2>3
  <2>. QED
    BY <1>2, <2>2, <2>3, <2>4, <2>5, <2>6
<1>8. ASSUME NEW t \in Tasks, t[1] # "enqueue", posted' = Append(posted, t), UNCHANGED stage
      PROVE  PostedInv'
  <2>1. \A r \in Requests : t # <<"enqueue", {r}>>
    BY <1>8
  <2>. QED
    BY <1>2, <1>6, <1>8, <2>1
<1>9. ASSUME NEW r \in Requests, CompleteOperation(r) PROVE PostedInv'
  <2>1. <<"cancel", {r}>> \in Tasks
    BY DEF Tasks
  <2>. QED
    BY <1>8, <1>9, <2>1 DEF CompleteOperation
<1>10. CASE CallFlush \/ FlushInput \/ CallClear \/ CallClose
  <2>1. <<"flush", {}>> \in Tasks /\ <<"purge", {}>> \in Tasks /\ <<"close", {}>> \in Tasks
    BY DEF Tasks
  <2>. QED
    BY <1>8, <1>10, <2>1 DEF CallFlush, FlushInput, CallClear, CallClose, callVars
<1>11. ASSUME NEW r \in Requests, Enqueue(r) PROVE PostedInv'
  <2>1. posted # <<>> /\ posted[1] = <<"enqueue", {r}>> /\ 1 \in DOMAIN posted /\ posted' = Tail(posted)
    BY <1>0, <1>11 DEF Enqueue, Task
  <2>2. ASSUME NEW i \in DOMAIN posted, posted[i] = <<"enqueue", {r}>> PROVE i = 1
    <3>1. posted[i] = posted[1] /\ posted[i][1] = "enqueue"
      BY <2>1, <2>2
    <3>. QED
      BY <2>1, <3>1 DEF StreamInv, PostedInv
  <2>3. \A x \in Requests : x # r => stage'[x] = stage[x]
    BY <1>0, <1>11 DEF Enqueue
  <2>4. \A x \in Requests : \A i \in DOMAIN posted :
            i # 1 /\ posted[i] = <<"enqueue", {x}>> => stage'[x] \in {"posted", "done"}
    BY <2>2, <2>3 DEF StreamInv, PostedInv
  <2>. QED
    BY <1>3, <2>1, <2>4
<1>12. ASSUME NEW r \in Requests, CancelWaiting(r) PROVE PostedInv'
  BY <1>4, <1>5, <1>12 DEF CancelWaiting, Task
<1>13. ASSUME NEW r \in Requests, CancelActive(r) PROVE PostedInv'
  BY <1>4, <1>6, <1>13 DEF CancelActive, Task, callVars
<1>14. CASE Flush \/ Purge \/ Close
  BY <1>4, <1>6, <1>14 DEF Flush, Purge, Close, Task, callVars
<1>15. ASSUME NEW r \in Requests, Call(r) \/ Drop(r) \/ StartWrite(r) \/ OnWritten(r) PROVE PostedInv'
  <2>1. posted' = posted
    BY <1>15 DEF Call, Drop, StartWrite, OnWritten
  <2>2. CASE Call(r)
    BY <1>1, <1>5, <2>1, <2>2 DEF Call
  <2>3. CASE Drop(r) \/ OnWritten(r)
    BY <1>1, <1>5, <2>1, <2>3 DEF Drop, OnWritten
  <2>4. CASE StartWrite(r)
    <3>1. 1 \in DOMAIN queue["write"] /\ queue["write"][1] = r /\ starting = "write"
      BY <2>4 DEF StartWrite, StreamInv, TypeOK, Queues
    <3>2. stage[r] = "queued"
      BY <3>1 DEF StreamInv, ServedInv, Queues
    <3>. QED
      BY <1>1, <1>5, <2>1, <2>4, <3>2 DEF StartWrite
  <2>. QED
    BY <1>15, <2>2, <2>3, <2>4
<1>16. ASSUME NEW r \in Requests, StartRead(r) \/ OnRead(r) \/ OnReadError(r) PROVE PostedInv'
  <2>1. PICK d, rest : ReadHandler(r, d, rest)
    BY <1>16, ReadHandlerFacts
  <2>2. stage[r] \notin {"posted", "done"} /\ posted' = posted
    BY <2>1 DEF ReadHandler, Reading
  <2>3. PICK s \in {"done", "active"} : stage' = [stage EXCEPT ![r] = s]
    BY <2>1 DEF ReadHandler, Reading, Answers, GoesOn, CompleteRead, IssueRead
  <2>. QED
    BY <1>1, <1>5, <2>2, <2>3
<1>17. ASSUME NEW r \in Requests, IoFails(r) \/ ByteWritten(r) \/ \E n \in 1 .. Len(inbound) : ReadDone(r, n)
       PROVE  PostedInv'
  BY <1>1, <1>6, <1>17 DEF IoFails, ByteWritten, ReadDone, callVars
<1>18. CASE LoopDone \/ DeviceSends \/ ConnectionEnds \/ UNCHANGED vars
  BY <1>1, <1>6, <1>18 DEF LoopDone, DeviceSends, ConnectionEnds, vars, callVars
<1>. QED
  BY <1>7, <1>9, <1>10, <1>11, <1>12, <1>13, <1>14, <1>15, <1>16, <1>17, <1>18
  DEF Next, Strand, Environment

\* A write is at the front of its queue when it starts.
LEMMA StartWriteFacts ==
    ASSUME StreamInv, NEW w \in Requests, StartWrite(w)
    PROVE  /\ w \in Writes /\ stage[w] = "queued"
           /\ \A x \in Writes : stage[x] # "active"
<1>1. starting = "write" /\ queue["write"] # <<>> /\ Head(queue["write"]) = w
  BY DEF StartWrite
<1>2. queue["write"] \in Seq(Requests) /\ queue["write"][1] = w /\ 1 \in DOMAIN queue["write"]
  BY <1>1 DEF StreamInv, TypeOK, Queues
<1>3. QueueOf(w) = "write" /\ stage[w] = "queued"
  BY <1>1, <1>2 DEF StreamInv, QueueInv, ServedInv, Queues
<1>4. w \in Writes
  BY <1>3 DEF QueueOf, Requests
<1>5. ASSUME NEW x \in Writes, stage[x] = "active" PROVE FALSE
  <2>1. x \in Requests /\ QueueOf(x) = "write"
    BY RequestsAssumption DEF Requests, QueueOf
  <2>2. PICK i \in DOMAIN queue["write"] : queue["write"][i] = x
    BY <1>5, <2>1 DEF StreamInv, QueueInv
  <2>3. stage[queue["write"][i]] = "queued"
    BY <1>1, <2>2 DEF StreamInv, ServedInv, Queues
  <2>. QED
    BY <1>5, <2>2, <2>3
<1>. QED
  BY <1>3, <1>4, <1>5

\* Every step: only active requests have operations on the stream.
LEMMA IoNext ==
    ASSUME StreamInv, [Next]_vars
    PROVE  IoInv'
<1>0. /\ stage \in [Requests -> {"none", "calling", "posted", "queued", "active", "done"}]
      /\ io \in [Requests -> {"none", "busy", "ready", "failed", "aborted"}]
      /\ scratch \in [Requests -> Seq(Bytes)] /\ IoInv
  BY DEF StreamInv, TypeOK
<1>1. CASE UNCHANGED <<stage, io, scratch>>
  BY <1>0, <1>1 DEF IoInv
<1>2. ASSUME NEW r \in Requests, NEW s, NEW x, NEW b,
             \A y \in Requests : y # r => stage'[y] = stage[y] /\ io'[y] = io[y] /\ scratch'[y] = scratch[y],
             stage'[r] = s /\ io'[r] = x /\ scratch'[r] = b,
             s = "active" <=> x # "none", x # "ready" \/ r \in Writes => b = <<>>
      PROVE  IoInv'
  BY <1>0, <1>2 DEF IoInv
<1>3. ASSUME NEW r \in Requests, Call(r) \/ Post(r) \/ CancelWaiting(r) PROVE IoInv'
  <2>1. PICK s \in {"calling", "posted", "done"} : stage' = [stage EXCEPT ![r] = s]
    BY <1>3 DEF Call, Post, CancelWaiting
  <2>2. stage[r] # "active" /\ UNCHANGED <<io, scratch>>
    BY <1>3 DEF Call, Post, CancelWaiting
  <2>3. io[r] = "none" /\ scratch[r] = <<>>
    BY <1>0, <2>2 DEF IoInv
  <2>. QED
    BY <1>0, <1>2, <2>1, <2>2, <2>3
<1>4. ASSUME NEW r \in Requests, Enqueue(r) PROVE IoInv'
  <2>1. CASE Done(r)
    BY <1>1, <1>4, <2>1 DEF Enqueue
  <2>2. CASE ~Done(r)
    <3>1. 1 \in DOMAIN posted /\ posted[1] = <<"enqueue", {r}>>
      BY <1>4 DEF Enqueue, Task, StreamInv, TypeOK
    <3>2. stage[r] = "posted"
      BY <2>2, <3>1 DEF StreamInv, PostedInv, Done
    <3>3. io[r] = "none" /\ scratch[r] = <<>>
      BY <1>0, <3>2 DEF IoInv
    <3>4. stage' = [stage EXCEPT ![r] = "queued"] /\ UNCHANGED <<io, scratch>>
      BY <1>4, <2>2 DEF Enqueue
    <3>. QED
      BY <1>0, <1>2, <3>3, <3>4
  <2>. QED
    BY <2>1, <2>2
<1>5. ASSUME NEW r \in Requests, Drop(r) PROVE IoInv'
  <2>1. starting \in Queues /\ queue[starting] # <<>> /\ Head(queue[starting]) = r
    BY <1>5 DEF Drop, StreamInv, TypeOK
  <2>2. 1 \in DOMAIN queue[starting] /\ queue[starting][1] = r
    BY <2>1 DEF StreamInv, TypeOK
  <2>3. stage[r] = "queued"
    BY <2>1, <2>2 DEF StreamInv, ServedInv
  <2>4. io[r] = "none" /\ scratch[r] = <<>>
    BY <1>0, <2>3 DEF IoInv
  <2>5. stage' = [stage EXCEPT ![r] = "done"] /\ UNCHANGED <<io, scratch>>
    BY <1>5 DEF Drop
  <2>. QED
    BY <1>0, <1>2, <2>4, <2>5
<1>6. ASSUME NEW r \in Requests, StartRead(r) \/ OnRead(r) \/ OnReadError(r) PROVE IoInv'
  <2>1. PICK d, rest : ReadHandler(r, d, rest)
    BY <1>6, ReadHandlerFacts
  <2>2. \/ /\ stage' = [stage EXCEPT ![r] = "done"] /\ io' = [io EXCEPT ![r] = "none"]
           /\ scratch' = [scratch EXCEPT ![r] = <<>>]
        \/ /\ stage' = [stage EXCEPT ![r] = "active"] /\ io' = [io EXCEPT ![r] = "busy"]
           /\ scratch' = [scratch EXCEPT ![r] = <<>>]
    BY <2>1 DEF ReadHandler, Reading, Answers, GoesOn, CompleteRead, IssueRead
  <2>. QED
    BY <1>0, <1>2, <2>2
<1>7. ASSUME NEW r \in Requests, StartWrite(r) PROVE IoInv'
  <2>1. stage[r] = "queued"
    BY <1>7, StartWriteFacts
  <2>2. scratch[r] = <<>>
    BY <1>0, <2>1 DEF IoInv
  <2>3. stage' = [stage EXCEPT ![r] = "active"] /\ io' = [io EXCEPT ![r] = "busy"] /\ scratch' = scratch
    BY <1>7 DEF StartWrite
  <2>. QED
    BY <1>0, <1>2, <2>2, <2>3
<1>8. ASSUME NEW r \in Requests, OnWritten(r) \/ ByteWritten(r) PROVE IoInv'
  <2>1. r \in Writes /\ scratch' = scratch
    BY <1>8 DEF OnWritten, ByteWritten
  <2>2. scratch[r] = <<>>
    BY <1>0, <2>1 DEF IoInv
  <2>3. CASE OnWritten(r)
    <3>1. stage' = [stage EXCEPT ![r] = "done"] /\ io' = [io EXCEPT ![r] = "none"]
      BY <2>3 DEF OnWritten
    <3>. QED
      BY <1>0, <1>2, <2>1, <2>2, <3>1
  <2>4. CASE ByteWritten(r)
    <3>1. PICK x \in {"ready", "busy"} : io' = [io EXCEPT ![r] = x]
      BY <2>4 DEF ByteWritten
    <3>2. stage' = stage /\ stage[r] = "active"
      BY <1>0, <2>4 DEF ByteWritten, callVars, IoInv
    <3>. QED
      BY <1>0, <1>2, <2>1, <2>2, <3>1, <3>2
  <2>. QED
    BY <1>8, <2>3, <2>4
<1>9. ASSUME NEW r \in Requests, IoFails(r) \/ CancelActive(r) PROVE IoInv'
  <2>1. stage' = stage /\ scratch' = scratch
    BY <1>9 DEF IoFails, CancelActive, callVars
  <2>2. stage[r] = "active" /\ io[r] # "none"
    BY <1>0, <1>9 DEF IoFails, CancelActive, IoInv
  <2>. DEFINE x == io'[r]
  <2>3. /\ \A y \in Requests : y # r => io'[y] = io[y]
        /\ x # "none"
        /\ x = io[r] \/ (io[r] = "busy" /\ x # "ready")
    <3>1. CASE IoFails(r)
      BY <1>0, <3>1 DEF IoFails
    <3>2. CASE CancelActive(r)
      <4>1. io' = [io EXCEPT ![r] = Interrupted(io[r])]
        BY <3>2 DEF CancelActive
      <4>. QED
        BY <1>0, <2>2, <4>1 DEF Interrupted
    <3>. QED
      BY <1>9, <3>1, <3>2
  <2>4. x # "ready" \/ r \in Writes => scratch[r] = <<>>
    BY <1>0, <2>3 DEF IoInv
  <2>. QED
    BY <1>0, <1>2, <2>1, <2>2, <2>3, <2>4
<1>10. ASSUME NEW r \in Requests, NEW n \in 1 .. Len(inbound), ReadDone(r, n) PROVE IoInv'
  <2>1. /\ stage' = stage /\ io' = [io EXCEPT ![r] = "ready"]
        /\ scratch' = [scratch EXCEPT ![r] = SubSeq(inbound, 1, n)]
        /\ r \in Reads /\ io[r] = "busy"
    BY <1>10 DEF ReadDone, callVars
  <2>2. stage[r] = "active" /\ r \notin Writes
    BY <1>0, <2>1, RequestsAssumption DEF IoInv
  <2>3. PICK b : b = SubSeq(inbound, 1, n)
    OBVIOUS
  <2>4. /\ io'[r] = "ready" /\ scratch'[r] = b
        /\ \A y \in Requests : y # r => io'[y] = io[y] /\ scratch'[y] = scratch[y]
    BY <1>0, <2>1, <2>3
  <2>. QED
    BY <1>2, <2>1, <2>2, <2>4
<1>11. CASE Close
  <2>1. stage' = stage /\ scratch' = scratch /\ io' = [r \in Requests |-> Interrupted(io[r])]
    BY <1>11 DEF Close, callVars
  <2>. QED
    BY <1>0, <2>1 DEF IoInv, Interrupted
<1>12. ASSUME NEW r \in Requests, CompleteOperation(r) PROVE IoInv'
  BY <1>1, <1>12 DEF CompleteOperation
<1>13. CASE CallFlush \/ FlushInput \/ CallClear \/ CallClose \/ Flush \/ Purge
            \/ LoopDone \/ DeviceSends \/ ConnectionEnds \/ UNCHANGED vars
  BY <1>1, <1>13 DEF CallFlush, FlushInput, CallClear, CallClose, Flush, Purge,
                     LoopDone, DeviceSends, ConnectionEnds, vars, callVars
<1>. QED
  BY <1>3, <1>4, <1>5, <1>6, <1>7, <1>8, <1>9, <1>10, <1>11, <1>12, <1>13
  DEF Next, Strand, Environment

-----------------------------------------------------------------------------
\* Every step keeps the types, and no read more bytes than it asked for.
LEMMA TypeNext ==
    ASSUME StreamInv, [Next]_vars
    PROVE  TypeOK'
<1>0. TypeOK
  BY DEF StreamInv
<1>1. posted \in Seq(Tasks)
  BY <1>0 DEF TypeOK
<1>2. \A r \in Requests : <<"enqueue", {r}>> \in Tasks /\ <<"cancel", {r}>> \in Tasks
  BY DEF Tasks
<1>3. <<"flush", {}>> \in Tasks /\ <<"purge", {}>> \in Tasks /\ <<"close", {}>> \in Tasks
  BY DEF Tasks
<1>4. \A t \in Tasks : Append(posted, t) \in Seq(Tasks)
  BY <1>1
<1>5. posted # <<>> => Tail(posted) \in Seq(Tasks)
  BY <1>1
<1>6. ASSUME NEW r \in Requests, Call(r) PROVE TypeOK'
  BY <1>0, <1>6 DEF TypeOK, Call, byteVars, history, streamVars, bounds
<1>7. ASSUME NEW r \in Requests, Post(r) PROVE TypeOK'
  <2>1. posted' \in Seq(Tasks)
    BY <1>2, <1>4, <1>7 DEF Post
  <2>. QED
    BY <1>0, <1>7, <2>1 DEF TypeOK, Post, byteVars, history, streamVars, bounds
<1>8. ASSUME NEW r \in Requests, CompleteOperation(r) PROVE TypeOK'
  <2>1. posted' \in Seq(Tasks)
    BY <1>2, <1>4, <1>8 DEF CompleteOperation
  <2>. QED
    BY <1>0, <1>8, <2>1 DEF TypeOK, CompleteOperation, byteVars, history, streamVars, bounds
<1>9. CASE CallFlush \/ FlushInput \/ CallClear \/ CallClose
  <2>1. posted' \in Seq(Tasks)
    BY <1>3, <1>4, <1>9 DEF CallFlush, FlushInput, CallClear, CallClose
  <2>2. flushes' \in 0 .. MaxFlushes /\ flushing' \in BOOLEAN /\ closing' \in BOOLEAN
    <3>1. flushes \in 0 .. MaxFlushes /\ flushing \in BOOLEAN /\ closing \in BOOLEAN
      BY <1>0 DEF TypeOK
    <3>2. flushes < MaxFlushes => flushes + 1 \in 0 .. MaxFlushes
      BY <3>1, BoundsAssumption
    <3>3. flushes' \in 0 .. MaxFlushes
      BY <1>9, <3>1, <3>2 DEF CallFlush, FlushInput, CallClear, CallClose
    <3>4. flushing' \in BOOLEAN /\ closing' \in BOOLEAN
      BY <1>9, <3>1, Zenon DEF CallFlush, FlushInput, CallClear, CallClose
    <3>. QED
      BY <3>3, <3>4
  <2>3. UNCHANGED <<starting, queue, callVars, io, scratch, byteVars, history, streamVars, planned>>
    BY <1>9 DEF CallFlush, FlushInput, CallClear, CallClose
  <2>. QED
    BY <1>0, <2>1, <2>2, <2>3 DEF TypeOK, callVars, byteVars, history, streamVars
<1>10. ASSUME NEW r \in Requests, Enqueue(r) PROVE TypeOK'
  <2>1. posted' \in Seq(Tasks)
    BY <1>5, <1>10 DEF Enqueue, Task
  <2>2. QueueOf(r) \in Queues
    BY DEF QueueOf, Queues
  <2>3. queue[QueueOf(r)] \in Seq(Requests)
    BY <1>0, <2>2 DEF TypeOK
  <2>4. Append(queue[QueueOf(r)], r) \in Seq(Requests)
    BY <2>3
  <2>5. queue' \in [Queues -> Seq(Requests)]
    BY <1>0, <1>10, <2>2, <2>4 DEF TypeOK, Enqueue
  <2>6. starting' \in Queues \cup {"none"}
    BY <1>0, <1>10, <2>2 DEF TypeOK, Enqueue
  <2>7. stage' \in [Requests -> {"none", "calling", "posted", "queued", "active", "done"}]
    BY <1>0, <1>10 DEF TypeOK, Enqueue
  <2>8. UNCHANGED <<op, outcome, io, scratch, byteVars, history, streamVars, bounds>>
    BY <1>10 DEF Enqueue
  <2>. QED
    BY <1>0, <2>1, <2>5, <2>6, <2>7, <2>8 DEF TypeOK, byteVars, history, streamVars, bounds
<1>11. ASSUME NEW r \in Requests, CancelWaiting(r) PROVE TypeOK'
  <2>1. posted' \in Seq(Tasks)
    BY <1>5, <1>11 DEF CancelWaiting, Task
  <2>2. QueueOf(r) \in Queues
    BY DEF QueueOf, Queues
  <2>3. queue[QueueOf(r)] \in Seq(Requests)
    BY <1>0, <2>2 DEF TypeOK
  <2>4. Erase(queue[QueueOf(r)], r) \in Seq(Requests)
    <3>1. PICK q \in Seq(Requests) : q = queue[QueueOf(r)]
      BY <2>3
    <3>2. \A i, j \in DOMAIN q : q[i] = q[j] => i = j
      BY <2>2, <3>1 DEF StreamInv, QueueInv
    <3>3. Erase(q, r) \in Seq(Requests)
      BY <3>2, EraseFacts
    <3>. QED
      BY <3>1, <3>3
  <2>5. queue' \in [Queues -> Seq(Requests)]
    BY <1>0, <1>11, <2>2, <2>4 DEF TypeOK, CancelWaiting
  <2>6. stage' \in [Requests -> {"none", "calling", "posted", "queued", "active", "done"}]
    BY <1>0, <1>11 DEF TypeOK, CancelWaiting
  <2>7. outcome' \in [Requests -> {"none", "ok", "error", "cancelled"}]
    BY <1>0, <1>11 DEF TypeOK, CancelWaiting
  <2>8. UNCHANGED <<starting, op, io, scratch, byteVars, history, streamVars, bounds>>
    BY <1>11 DEF CancelWaiting
  <2>. QED
    BY <1>0, <2>1, <2>5, <2>6, <2>7, <2>8 DEF TypeOK, byteVars, history, streamVars, bounds
<1>12. ASSUME NEW r \in Requests, CancelActive(r) PROVE TypeOK'
  <2>1. posted' \in Seq(Tasks)
    BY <1>5, <1>12 DEF CancelActive, Task
  <2>2. io' \in [Requests -> {"none", "busy", "ready", "failed", "aborted"}]
    BY <1>0, <1>12 DEF TypeOK, CancelActive, Interrupted
  <2>3. overtaken' \in SUBSET Reads
    BY <1>0, <1>12 DEF TypeOK, CancelActive
  <2>4. UNCHANGED <<starting, queue, callVars, scratch, byteVars, discarded, streamVars, bounds>>
    BY <1>12 DEF CancelActive
  <2>. QED
    BY <1>0, <2>1, <2>2, <2>3, <2>4 DEF TypeOK, callVars, byteVars, streamVars, bounds
<1>13. ASSUME NEW s \in Seq(Bytes) PROVE Elements(s) \subseteq Bytes
  BY DEF Elements
<1>14. CASE Flush
  <2>1. posted' \in Seq(Tasks)
    BY <1>5, <1>14 DEF Flush, Task
  <2>2. read_ahead' \in Seq(Bytes) /\ flushing' \in BOOLEAN
    BY <1>14, SerialAssumption DEF Flush
  <2>3. discarded' \in SUBSET Bytes
    BY <1>0, <1>13, <1>14 DEF Flush, TypeOK
  <2>4. UNCHANGED <<starting, queue, callVars, io, scratch, data, terminal, delivered,
                    overtaken, streamVars, closing, planned, flushes>>
    BY <1>14 DEF Flush
  <2>. QED
    BY <1>0, <2>1, <2>2, <2>3, <2>4 DEF TypeOK, callVars, streamVars
<1>15. CASE Purge
  <2>1. posted' \in Seq(Tasks)
    BY <1>5, <1>15 DEF Purge, Task
  <2>2. inbound' \in Seq(Bytes)
    BY <1>15 DEF Purge
  <2>3. discarded' \in SUBSET Bytes
    BY <1>0, <1>13, <1>15 DEF Purge, TypeOK
  <2>4. UNCHANGED <<starting, queue, callVars, io, scratch, byteVars, overtaken,
                    sent, wire, closed, broken, bounds>>
    BY <1>15 DEF Purge
  <2>. QED
    BY <1>0, <2>1, <2>2, <2>3, <2>4 DEF TypeOK, callVars, byteVars, bounds
<1>16. CASE Close
  <2>1. posted' \in Seq(Tasks) /\ closed' \in BOOLEAN
    BY <1>5, <1>16 DEF Close, Task
  <2>2. io' \in [Requests -> {"none", "busy", "ready", "failed", "aborted"}]
    BY <1>0, <1>16 DEF TypeOK, Close, Interrupted
  <2>3. UNCHANGED <<starting, queue, callVars, scratch, byteVars, history,
                    inbound, sent, wire, broken, bounds>>
    BY <1>16 DEF Close
  <2>. QED
    BY <1>0, <2>1, <2>2, <2>3 DEF TypeOK, callVars, byteVars, history, bounds
<1>17. CASE LoopDone
  BY <1>0, <1>17 DEF TypeOK, LoopDone, callVars, byteVars, history, streamVars, bounds
<1>18. \A k \in Queues : queue[k] # <<>> => Tail(queue[k]) \in Seq(Requests)
  <2>. SUFFICES ASSUME NEW k \in Queues, queue[k] # <<>> PROVE Tail(queue[k]) \in Seq(Requests)
    OBVIOUS
  <2>1. queue[k] \in Seq(Requests)
    BY <1>0 DEF TypeOK
  <2>. QED
    BY <2>1
<1>19. ASSUME NEW r \in Requests, Drop(r) PROVE TypeOK'
  <2>1. starting \in Queues /\ queue[starting] # <<>>
    BY <1>0, <1>19 DEF TypeOK, Drop
  <2>2. queue' \in [Queues -> Seq(Requests)]
    BY <1>0, <1>18, <1>19, <2>1 DEF TypeOK, Drop
  <2>3. /\ stage' \in [Requests -> {"none", "calling", "posted", "queued", "active", "done"}]
        /\ outcome' \in [Requests -> {"none", "ok", "error", "cancelled"}]
    BY <1>0, <1>19 DEF TypeOK, Drop
  <2>4. UNCHANGED <<posted, starting, op, io, scratch, byteVars, history, streamVars, bounds>>
    BY <1>19 DEF Drop
  <2>. QED
    BY <1>0, <2>2, <2>3, <2>4 DEF TypeOK, byteVars, history, streamVars, bounds
<1>20. ASSUME NEW r \in Requests, StartWrite(r) PROVE TypeOK'
  BY <1>0, <1>20 DEF TypeOK, StartWrite, byteVars, history, streamVars, bounds
<1>21. ASSUME NEW r \in Requests, OnWritten(r) PROVE TypeOK'
  <2>1. stage[r] = "active" /\ r \in Writes
    BY <1>21 DEF OnWritten
  <2>2. "write" \in Queues /\ queue["write"] # <<>>
    <3>1. QueueOf(r) = "write"
      BY <2>1, RequestsAssumption DEF QueueOf
    <3>. QED
      BY <2>1, <3>1, ActiveIsFirst
  <2>3. queue' \in [Queues -> Seq(Requests)] /\ starting' \in Queues
    BY <1>0, <1>18, <1>21, <2>2 DEF TypeOK, OnWritten
  <2>4. /\ stage' \in [Requests -> {"none", "calling", "posted", "queued", "active", "done"}]
        /\ io' \in [Requests -> {"none", "busy", "ready", "failed", "aborted"}]
    BY <1>0, <1>21 DEF TypeOK, OnWritten
  <2>5. op' \in [Requests -> {"none", "pending", "cancelled", "done"}]
    BY <1>0, <1>21 DEF TypeOK, OnWritten
  <2>6. outcome' \in [Requests -> {"none", "ok", "error", "cancelled"}]
    BY <1>0, <1>21 DEF TypeOK, OnWritten
  <2>7. UNCHANGED <<posted, scratch, byteVars, history, streamVars, bounds>>
    BY <1>21 DEF OnWritten
  <2>. QED
    BY <1>0, <2>3, <2>4, <2>5, <2>6, <2>7 DEF TypeOK, byteVars, history, streamVars, bounds
<1>22. ASSUME NEW r \in Requests, NEW n \in 1 .. Len(inbound), ReadDone(r, n) PROVE TypeOK'
  <2>1. inbound \in Seq(Bytes) /\ Len(inbound) \in Nat
    BY <1>0 DEF TypeOK
  <2>2. SubSeq(inbound, 1, n) \in Seq(Bytes) /\ SubSeq(inbound, n + 1, Len(inbound)) \in Seq(Bytes)
    BY <2>1
  <2>3. scratch' \in [Requests -> Seq(Bytes)] /\ inbound' \in Seq(Bytes)
    BY <1>0, <1>22, <2>2 DEF TypeOK, ReadDone
  <2>4. io' \in [Requests -> {"none", "busy", "ready", "failed", "aborted"}]
    BY <1>0, <1>22 DEF TypeOK, ReadDone
  <2>5. UNCHANGED <<posted, starting, queue, callVars, byteVars, history,
                    sent, wire, closed, broken, bounds>>
    BY <1>22 DEF ReadDone
  <2>. QED
    BY <1>0, <2>3, <2>4, <2>5 DEF TypeOK, callVars, byteVars, history, bounds
<1>23. ASSUME NEW r \in Requests, ByteWritten(r) PROVE TypeOK'
  <2>1. wire' \in Seq(Writes)
    BY <1>0, <1>23 DEF TypeOK, ByteWritten
  <2>2. io' \in [Requests -> {"none", "busy", "ready", "failed", "aborted"}]
    BY <1>0, <1>23 DEF TypeOK, ByteWritten
  <2>3. UNCHANGED <<posted, starting, queue, callVars, scratch, byteVars, history,
                    inbound, sent, closed, broken, bounds>>
    BY <1>23 DEF ByteWritten
  <2>. QED
    BY <1>0, <2>1, <2>2, <2>3 DEF TypeOK, callVars, byteVars, history, bounds
<1>24. ASSUME NEW r \in Requests, IoFails(r) PROVE TypeOK'
  BY <1>0, <1>24 DEF TypeOK, IoFails, callVars, byteVars, history, streamVars, bounds
<1>25. CASE DeviceSends
  <2>1. sent' \in 0 .. MaxBytes /\ sent + 1 \in Bytes
    BY <1>0, <1>25, BoundsAssumption DEF TypeOK, DeviceSends, Bytes
  <2>2. inbound' \in Seq(Bytes)
    BY <1>0, <1>25, <2>1 DEF TypeOK, DeviceSends
  <2>3. UNCHANGED <<posted, starting, queue, callVars, io, scratch, byteVars, history,
                    wire, closed, broken, bounds>>
    BY <1>25 DEF DeviceSends
  <2>. QED
    BY <1>0, <2>1, <2>2, <2>3 DEF TypeOK, callVars, byteVars, history, bounds
<1>26. CASE ConnectionEnds
  BY <1>0, <1>26 DEF TypeOK, ConnectionEnds, callVars, byteVars, history, bounds
<1>27. CASE UNCHANGED vars
  BY <1>0, <1>27 DEF TypeOK, vars, callVars, byteVars, history, streamVars, bounds
<1>28. ASSUME NEW r \in Requests, StartRead(r) \/ OnRead(r) \/ OnReadError(r) PROVE TypeOK'
  <2>1. PICK d, rest : ReadHandler(r, d, rest)
    BY <1>28, ReadHandlerFacts
  <2>2. /\ d \in Seq(Bytes) /\ rest \in Seq(Bytes) /\ Len(d) <= Count
        /\ queue["read"] # <<>> /\ terminal' \in BOOLEAN
        /\ UNCHANGED <<posted, history, streamVars, bounds>>
    BY <2>1 DEF ReadHandler, Reading
  <2>3. CASE GoesOn(r, d, rest)
    <3>1. data' \in [Requests -> Seq(Bytes)] /\ read_ahead' \in Seq(Bytes)
      BY <1>0, <2>2, <2>3 DEF GoesOn, IssueRead, TypeOK
    <3>2. \A x \in Requests : Len(data'[x]) <= Count
      BY <1>0, <2>2, <2>3 DEF GoesOn, IssueRead, TypeOK
    <3>3. /\ stage' \in [Requests -> {"none", "calling", "posted", "queued", "active", "done"}]
          /\ io' \in [Requests -> {"none", "busy", "ready", "failed", "aborted"}]
          /\ scratch' \in [Requests -> Seq(Bytes)]
          /\ starting' \in Queues \cup {"none"}
      BY <1>0, <2>3 DEF GoesOn, IssueRead, TypeOK
    <3>4. UNCHANGED <<queue, op, outcome, delivered>>
      BY <2>3 DEF GoesOn, IssueRead
    <3>. QED
      BY <1>0, <2>2, <3>1, <3>2, <3>3, <3>4 DEF TypeOK, history, streamVars, bounds
  <2>4. ASSUME NEW status \in {"ok", "error"}, Answers(r, status, d, rest) PROVE TypeOK'
    <3>0. CompleteRead(r, status, d, rest)
      BY <2>4 DEF Answers
    <3>1. /\ d \o rest \in Seq(Bytes) /\ <<>> \in Seq(Bytes) /\ Len(<<>>) <= Count
          /\ delivered \o d \in Seq(Bytes)
      BY <1>0, <2>2, SizesAssumption DEF TypeOK
    <3>2. PICK v \in {d, <<>>} : data' = [data EXCEPT ![r] = v]
      BY <3>0 DEF CompleteRead
    <3>3. data' \in [Requests -> Seq(Bytes)] /\ \A x \in Requests : Len(data'[x]) <= Count
      BY <1>0, <2>2, <3>1, <3>2 DEF TypeOK
    <3>4. read_ahead' \in Seq(Bytes) /\ delivered' \in Seq(Bytes)
      BY <1>0, <2>2, <3>0, <3>1 DEF CompleteRead, RestorePartialRead, TypeOK
    <3>5. /\ stage' \in [Requests -> {"none", "calling", "posted", "queued", "active", "done"}]
          /\ io' \in [Requests -> {"none", "busy", "ready", "failed", "aborted"}]
          /\ scratch' \in [Requests -> Seq(Bytes)]
      BY <1>0, <3>0, <3>1 DEF CompleteRead, TypeOK
    <3>6. op' \in [Requests -> {"none", "pending", "cancelled", "done"}]
      BY <1>0, <3>0 DEF CompleteRead, TypeOK
    <3>7. outcome' \in [Requests -> {"none", "ok", "error", "cancelled"}]
      BY <1>0, <3>0 DEF CompleteRead, TypeOK
    <3>8. "read" \in Queues /\ starting' = "read"
      BY <3>0 DEF CompleteRead, Queues
    <3>9. queue' \in [Queues -> Seq(Requests)]
      BY <1>0, <1>18, <2>2, <3>0, <3>8 DEF CompleteRead, TypeOK
    <3>. QED
      BY <1>0, <2>2, <3>3, <3>4, <3>5, <3>6, <3>7, <3>8, <3>9 DEF TypeOK, history, streamVars, bounds
  <2>. QED
    BY <2>1, <2>3, <2>4 DEF ReadHandler, Reading
<1>. QED
  BY <1>6, <1>7, <1>8, <1>9, <1>10, <1>11, <1>12, <1>14, <1>15, <1>16, <1>17, <1>19, <1>20,
     <1>21, <1>22, <1>23, <1>24, <1>25, <1>26, <1>27, <1>28
  DEF Next, Strand, Environment

-----------------------------------------------------------------------------
\* A request that is dropped, or whose write starts or ends, was in a queue.
LEMMA DropFacts ==
    ASSUME StreamInv, NEW r \in Requests, Drop(r)
    PROVE  stage[r] = "queued"
<1>1. starting \in Queues /\ queue[starting] # <<>> /\ Head(queue[starting]) = r
  BY DEF Drop, StreamInv, TypeOK
<1>2. 1 \in DOMAIN queue[starting] /\ queue[starting][1] = r
  BY <1>1 DEF StreamInv, TypeOK
<1>. QED
  BY <1>1, <1>2 DEF StreamInv, ServedInv

\* A request that is put in its queue is not active.
LEMMA EnqueueStage ==
    ASSUME StreamInv, NEW r \in Requests, Enqueue(r), ~Done(r)
    PROVE  stage[r] = "posted"
<1>1. 1 \in DOMAIN posted /\ posted[1] = <<"enqueue", {r}>>
  BY DEF Enqueue, Task, StreamInv, TypeOK
<1>. QED
  BY <1>1 DEF StreamInv, PostedInv, Done

\* Every step: a read goes to the stream when there is nothing else for it.
LEMMA ReadNext ==
    ASSUME StreamInv, [Next]_vars
    PROVE  ReadInv'
<1>0. /\ stage \in [Requests -> {"none", "calling", "posted", "queued", "active", "done"}]
      /\ data \in [Requests -> Seq(Bytes)] /\ ReadInv /\ Reads \subseteq Requests
  BY DEF StreamInv, TypeOK, Requests
<1>1. CASE UNCHANGED <<stage, data, read_ahead>>
  BY <1>0, <1>1 DEF ReadInv, NotEnough
<1>2. ASSUME UNCHANGED <<data, read_ahead>>, NEW r \in Requests, NEW s, stage' = [stage EXCEPT ![r] = s],
             s \notin {"active", "done"} => stage[r] \notin {"active", "done"},
             s = "active" => r \notin Reads
      PROVE  ReadInv'
  BY <1>0, <1>2 DEF ReadInv, NotEnough
<1>3. ASSUME NEW r \in Requests, Call(r) \/ Post(r) \/ Drop(r) \/ CancelWaiting(r) \/ OnWritten(r)
      PROVE  ReadInv'
  <2>1. PICK s \in {"calling", "posted", "done"} :
            /\ stage' = [stage EXCEPT ![r] = s]
            /\ s # "done" => stage[r] \in {"none", "calling"}
    BY <1>3 DEF Call, Post, Drop, CancelWaiting, OnWritten
  <2>2. UNCHANGED <<data, read_ahead>>
    BY <1>3 DEF Call, Post, Drop, CancelWaiting, OnWritten, byteVars
  <2>. QED
    BY <1>2, <2>1, <2>2
<1>4. ASSUME NEW r \in Requests, Enqueue(r) PROVE ReadInv'
  <2>1. UNCHANGED <<data, read_ahead>>
    BY <1>4 DEF Enqueue, byteVars
  <2>2. CASE Done(r)
    BY <1>1, <1>4, <2>1, <2>2 DEF Enqueue
  <2>3. CASE ~Done(r)
    <3>1. stage[r] = "posted" /\ stage' = [stage EXCEPT ![r] = "queued"]
      BY <1>4, <2>3, EnqueueStage DEF Enqueue
    <3>. QED
      BY <1>2, <2>1, <3>1
  <2>. QED
    BY <2>2, <2>3
<1>5. ASSUME NEW r \in Requests, StartWrite(r) PROVE ReadInv'
  <2>1. r \notin Reads
    BY <1>5, StartWriteFacts, RequestsAssumption
  <2>. QED
    BY <1>2, <1>5, <2>1 DEF StartWrite, byteVars
<1>6. CASE Flush
  <2>1. UNCHANGED <<stage, data>> /\ read_ahead' = <<>>
    BY <1>6 DEF Flush, callVars
  <2>. QED
    BY <1>0, <2>1 DEF ReadInv, NotEnough
<1>7. ASSUME NEW r \in Requests, StartRead(r) \/ OnRead(r) \/ OnReadError(r) PROVE ReadInv'
  <2>1. PICK d, rest : ReadHandler(r, d, rest)
    BY <1>7, ReadHandlerFacts
  <2>2. \A x \in Reads : stage[x] = "active" => x = r
    BY <2>1 DEF ReadHandler
  <2>3. CASE GoesOn(r, d, rest)
    <3>1. /\ stage' = [stage EXCEPT ![r] = "active"] /\ data' = [data EXCEPT ![r] = d]
          /\ read_ahead' = <<>> /\ NotEnough(r, d)
      BY <2>3 DEF GoesOn, IssueRead
    <3>2. stage'[r] = "active" /\ data'[r] = d
      BY <1>0, <3>1
    <3>3. \A x \in Reads : x # r => stage'[x] = stage[x] /\ data'[x] = data[x]
      BY <1>0, <3>1
    <3>. QED
      BY <1>0, <2>2, <3>1, <3>2, <3>3 DEF ReadInv, NotEnough
  <2>4. CASE \E status \in {"ok", "error"} : Answers(r, status, d, rest)
    <3>1. PICK v : data' = [data EXCEPT ![r] = v]
      BY <2>4 DEF Answers, CompleteRead
    <3>2. stage' = [stage EXCEPT ![r] = "done"]
      BY <2>4 DEF Answers, CompleteRead
    <3>3. stage'[r] = "done" /\ \A x \in Reads : x # r => stage'[x] = stage[x] /\ data'[x] = data[x]
      BY <1>0, <3>1, <3>2
    <3>. QED
      BY <1>0, <2>2, <3>3 DEF ReadInv
  <2>. QED
    BY <2>1, <2>3, <2>4 DEF ReadHandler, Reading
<1>8. ASSUME NEW r \in Requests, CompleteOperation(r) \/ CancelActive(r) \/ IoFails(r)
                                 \/ ByteWritten(r) \/ \E n \in 1 .. Len(inbound) : ReadDone(r, n)
      PROVE  ReadInv'
  BY <1>1, <1>8 DEF CompleteOperation, CancelActive, IoFails, ByteWritten, ReadDone, callVars, byteVars
<1>9. CASE CallFlush \/ FlushInput \/ CallClear \/ CallClose \/ Purge \/ Close \/ LoopDone
           \/ DeviceSends \/ ConnectionEnds \/ UNCHANGED vars
  BY <1>1, <1>9 DEF CallFlush, FlushInput, CallClear, CallClose, Purge, Close, LoopDone,
                    DeviceSends, ConnectionEnds, vars, callVars, byteVars
<1>. QED
  BY <1>3, <1>4, <1>5, <1>6, <1>7, <1>8, <1>9 DEF Next, Strand, Environment

-----------------------------------------------------------------------------
\* The bytes of s are in the order in which the device sent them.
Increasing(s) == \A i, j \in DOMAIN s : i < j => s[i] < s[j]

\* What is left when the middle of a stream is thrown away.
LEMMA RemoveFacts ==
    \A a, m, b \in Seq(Bytes) : Increasing((a \o m) \o b) =>
        /\ Increasing(a \o b)
        /\ Elements(a \o b) = Elements((a \o m) \o b) \ Elements(m)
<1>. SUFFICES ASSUME NEW a \in Seq(Bytes), NEW m \in Seq(Bytes), NEW b \in Seq(Bytes),
                     Increasing((a \o m) \o b)
              PROVE  /\ Increasing(a \o b)
                     /\ Elements(a \o b) = Elements((a \o m) \o b) \ Elements(m)
  BY Zenon
<1>. DEFINE s == (a \o m) \o b
            t == a \o b
<1>0. Increasing(s) /\ s = (a \o m) \o b /\ t = a \o b
  OBVIOUS
<1>. HIDE DEF s, t
<1>1. /\ Len(a) \in Nat /\ Len(m) \in Nat /\ Len(b) \in Nat
      /\ \A i \in 1 .. Len(a) : a[i] \in Nat
      /\ \A i \in 1 .. Len(m) : m[i] \in Nat
      /\ \A i \in 1 .. Len(b) : b[i] \in Nat
  <2>1. Bytes \subseteq Nat
    BY BoundsAssumption DEF Bytes
  <2>2. ASSUME NEW c \in Seq(Bytes)
        PROVE  Len(c) \in Nat /\ \A i \in 1 .. Len(c) : c[i] \in Nat
    <3>1. Len(c) \in Nat
      OBVIOUS
    <3>2. \A i \in 1 .. Len(c) : c[i] \in Bytes
      OBVIOUS
    <3>. QED
      BY <2>1, <3>1, <3>2, Zenon
  <2>. QED
    BY <2>2, Zenon
<1>2. /\ a \o m \in Seq(Bytes) /\ Len(a \o m) = Len(a) + Len(m)
      /\ \A i \in 1 .. Len(a) : (a \o m)[i] = a[i]
      /\ \A i \in 1 .. Len(m) : (a \o m)[Len(a) + i] = m[i]
  BY JoinFacts
<1>3. /\ s \in Seq(Bytes) /\ Len(s) = Len(a) + Len(m) + Len(b)
      /\ \A i \in 1 .. Len(a) : s[i] = a[i]
      /\ \A i \in 1 .. Len(m) : s[Len(a) + i] = m[i]
      /\ \A i \in 1 .. Len(b) : s[Len(a) + Len(m) + i] = b[i]
  <2>1. PICK p \in Seq(Bytes) : p = a \o m
    BY <1>2
  <2>2. /\ s \in Seq(Bytes) /\ Len(s) = Len(p) + Len(b)
        /\ \A i \in 1 .. Len(p) : s[i] = p[i]
        /\ \A i \in 1 .. Len(b) : s[Len(p) + i] = b[i]
    BY <1>0, <2>1, JoinFacts
  <2>3. /\ Len(p) = Len(a) + Len(m)
        /\ \A i \in 1 .. Len(a) : p[i] = a[i]
        /\ \A i \in 1 .. Len(m) : p[Len(a) + i] = m[i]
    BY <1>2, <2>1, Zenon
  <2>4. /\ \A i \in 1 .. Len(a) : i \in 1 .. Len(p)
        /\ \A i \in 1 .. Len(m) : Len(a) + i \in 1 .. Len(p)
    BY <1>1, <2>3
  <2>. QED
    BY <2>2, <2>3, <2>4, Zenon
<1>4. /\ t \in Seq(Bytes) /\ Len(t) = Len(a) + Len(b)
      /\ \A i \in 1 .. Len(a) : t[i] = a[i]
      /\ \A i \in 1 .. Len(b) : t[Len(a) + i] = b[i]
  BY <1>0, JoinFacts
<1>5. /\ \A i \in DOMAIN s : i \in 1 .. Len(a) + Len(m) + Len(b)
      /\ \A i \in 1 .. Len(a) + Len(m) + Len(b) : i \in DOMAIN s
      /\ \A i \in DOMAIN t : i \in 1 .. Len(a) + Len(b)
      /\ \A i \in 1 .. Len(a) + Len(b) : i \in DOMAIN t
      /\ \A i \in DOMAIN m : i \in 1 .. Len(m)
  BY <1>1, <1>3, <1>4
<1>. DEFINE Place(i) == IF i <= Len(a) THEN i ELSE i + Len(m)
<1>6. \A i \in DOMAIN t : i \in Nat /\ Place(i) \in DOMAIN s /\ t[i] = s[Place(i)]
  <2>. SUFFICES ASSUME NEW i \in DOMAIN t
                PROVE  i \in Nat /\ Place(i) \in DOMAIN s /\ t[i] = s[Place(i)]
    OBVIOUS
  <2>1. i \in Nat /\ i >= 1 /\ i <= Len(a) + Len(b) /\ Place(i) \in DOMAIN s
    BY <1>1, <1>5
  <2>2. CASE i <= Len(a)
    BY <1>1, <1>3, <1>4, <2>1, <2>2
  <2>3. CASE i > Len(a)
    <3>1. PICK j \in 1 .. Len(b) : i = Len(a) + j
      <4>1. i - Len(a) \in 1 .. Len(b) /\ i = Len(a) + (i - Len(a))
        BY <1>1, <2>1, <2>3
      <4>. QED
        BY <4>1
    <3>2. Place(i) = Len(a) + Len(m) + j
      BY <1>1, <2>1, <2>3, <3>1
    <3>. QED
      BY <1>3, <1>4, <2>1, <3>1, <3>2
  <2>. QED
    BY <1>1, <2>1, <2>2, <2>3
<1>7. Increasing(t)
  <2>. SUFFICES ASSUME NEW i \in DOMAIN t, NEW j \in DOMAIN t, i < j PROVE t[i] < t[j]
    BY DEF Increasing
  <2>1. Place(i) < Place(j)
    BY <1>1, <1>6
  <2>. QED
    BY <1>0, <1>6, <2>1 DEF Increasing
<1>. HIDE DEF Place
<1>8. \A x : x \in Elements(t) => x \in Elements(s) /\ x \notin Elements(m)
  <2>. SUFFICES ASSUME NEW x, x \in Elements(t) PROVE x \in Elements(s) /\ x \notin Elements(m)
    OBVIOUS
  <2>1. PICK i \in DOMAIN t : x = t[i]
    BY DEF Elements
  <2>2. x \in Elements(s) /\ x = s[Place(i)] /\ Place(i) \in DOMAIN s /\ i \in Nat
    BY <1>6, <2>1 DEF Elements
  <2>3. ASSUME NEW j \in DOMAIN m, m[j] = x PROVE FALSE
    <3>1. j \in 1 .. Len(m) /\ s[Len(a) + j] = x /\ Len(a) + j \in DOMAIN s
      BY <1>1, <1>3, <1>5, <2>3
    <3>2. Place(i) < Len(a) + j \/ Len(a) + j < Place(i)
      BY <1>1, <2>2, <3>1 DEF Place
    <3>3. x < x
      BY <1>0, <2>2, <3>1, <3>2 DEF Increasing
    <3>4. x \in Nat
      BY <1>1, <1>5, <2>3
    <3>. QED
      BY <3>3, <3>4
  <2>. QED
    BY <2>2, <2>3 DEF Elements
<1>9. \A x : x \in Elements(s) /\ x \notin Elements(m) => x \in Elements(t)
  <2>. SUFFICES ASSUME NEW x, x \in Elements(s), x \notin Elements(m) PROVE x \in Elements(t)
    OBVIOUS
  <2>1. PICK i \in DOMAIN s : x = s[i]
    BY DEF Elements
  <2>2. i \in Nat /\ i >= 1 /\ i <= Len(a) + Len(m) + Len(b)
    BY <1>1, <1>5
  <2>3. CASE i <= Len(a)
    <3>1. i \in DOMAIN t /\ t[i] = x
      BY <1>1, <1>3, <1>4, <1>5, <2>1, <2>2, <2>3
    <3>. QED
      BY <3>1 DEF Elements
  <2>4. CASE i > Len(a) /\ i <= Len(a) + Len(m)
    <3>1. PICK j \in Nat : i = Len(a) + j
      <4>1. Len(a) \in Nat /\ i \in Nat /\ Len(a) < i
        BY <1>1, <2>2, <2>4
      <4>2. \A x1, y1 \in Nat : x1 < y1 => y1 - x1 \in Nat /\ y1 = x1 + (y1 - x1)
        OBVIOUS
      <4>. QED
        BY <4>1, <4>2, Zenon
    <3>2. j \in 1 .. Len(m)
      BY <1>1, <2>2, <2>4, <3>1
    <3>3. m[j] = x /\ j \in DOMAIN m
      BY <1>3, <2>1, <3>1, <3>2
    <3>. QED
      BY <3>3 DEF Elements
  <2>5. CASE i > Len(a) + Len(m)
    <3>1. PICK j \in 1 .. Len(b) : i = Len(a) + Len(m) + j
      <4>1. i - (Len(a) + Len(m)) \in 1 .. Len(b) /\ i = Len(a) + Len(m) + (i - (Len(a) + Len(m)))
        BY <1>1, <2>2, <2>5
      <4>. QED
        BY <4>1
    <3>2. t[Len(a) + j] = x /\ Len(a) + j \in DOMAIN t
      BY <1>1, <1>3, <1>4, <1>5, <2>1, <3>1
    <3>. QED
      BY <3>2 DEF Elements
  <2>. QED
    BY <1>1, <2>2, <2>3, <2>4, <2>5
<1>10. Elements(t) = Elements(s) \ Elements(m)
  BY <1>8, <1>9
<1>. QED
  BY <1>0, <1>7, <1>10

\* One byte more, above all others.
LEMMA GrowFacts ==
    ASSUME NEW s \in Seq(Bytes), Increasing(s), NEW x \in Bytes, NEW t, t = Append(s, x),
           \A i \in DOMAIN s : s[i] < x
    PROVE  Increasing(t) /\ Elements(t) = Elements(s) \cup {x}
<1>1. /\ \A i \in DOMAIN s : i \in DOMAIN t /\ t[i] = s[i] /\ i # Len(s) + 1
      /\ Len(s) + 1 \in DOMAIN t /\ t[Len(s) + 1] = x
      /\ \A i \in DOMAIN t : (i \in DOMAIN s /\ t[i] = s[i]) \/ (t[i] = x /\ i = Len(s) + 1)
  BY AppendFacts
<1>2. Elements(t) = Elements(s) \cup {x}
  BY <1>1 DEF Elements
<1>3. \A i \in DOMAIN s : i \in Nat /\ i <= Len(s) /\ Len(s) \in Nat
  OBVIOUS
<1>4. Increasing(t)
  <2>. SUFFICES ASSUME NEW i \in DOMAIN t, NEW j \in DOMAIN t, i < j PROVE t[i] < t[j]
    BY DEF Increasing
  <2>1. Len(s) \in Nat
    OBVIOUS
  <2>2. i \in DOMAIN s
    BY <1>1, <1>3, <2>1
  <2>. QED
    BY <1>1, <2>2 DEF Increasing
<1>. QED
  BY <1>2, <1>4

\* The bytes in a read's hands.
LEMMA InHandFacts ==
    ASSUME StreamInv
    PROVE  /\ InHand \in Seq(Bytes)
           /\ \A r \in Reads : stage[r] = "active" => InHand = data[r] \o scratch[r]
           /\ (\A r \in Reads : stage[r] # "active") => InHand = <<>>
<1>1. ASSUME NEW r \in Reads, stage[r] = "active" PROVE InHand = data[r] \o scratch[r]
  <2>1. \A x \in Reads : stage[x] = "active" => x = r
    <3>1. r \in Requests /\ \A x \in Reads : x \in Requests /\ QueueOf(x) = QueueOf(r)
      BY DEF Requests, QueueOf
    <3>. QED
      BY <1>1, <3>1, ActiveIsFirst
  <2>2. ActiveReads = {r}
    BY <1>1, <2>1 DEF ActiveReads
  <2>. QED
    BY <2>2 DEF InHand
<1>2. ASSUME \A r \in Reads : stage[r] # "active" PROVE InHand = <<>>
  BY <1>2 DEF InHand, ActiveReads
<1>3. ASSUME NEW r \in Reads PROVE data[r] \o scratch[r] \in Seq(Bytes)
  <2>1. data[r] \in Seq(Bytes) /\ scratch[r] \in Seq(Bytes)
    BY DEF StreamInv, TypeOK, Requests
  <2>. QED
    BY <2>1
<1>4. InHand \in Seq(Bytes)
  <2>1. CASE \A r \in Reads : stage[r] # "active"
    <3>1. InHand = <<>> /\ <<>> \in Seq(Bytes)
      BY <1>2, <2>1
    <3>. QED
      BY <3>1, Zenon
  <2>2. CASE \E r \in Reads : stage[r] = "active"
    BY <1>1, <1>3, <2>2, Zenon
  <2>. QED
    BY <2>1, <2>2
<1>. QED
  BY <1>1, <1>2, <1>4

\* InHand is the same when the active reads and what they have are.
LEMMA SameInHand ==
    ASSUME ActiveReads' = ActiveReads,
           \A r \in Reads : stage[r] = "active" => data'[r] = data[r] /\ scratch'[r] = scratch[r]
    PROVE  InHand' = InHand
<1>1. CASE ActiveReads = {}
  BY <1>1 DEF InHand
<1>2. CASE ActiveReads # {}
  <2>1. PICK c : c = CHOOSE r \in ActiveReads : TRUE
    OBVIOUS
  <2>2. c \in Reads /\ stage[c] = "active"
    BY <1>2, <2>1 DEF ActiveReads
  <2>3. InHand = data[c] \o scratch[c]
    BY <1>2, <2>1 DEF InHand
  <2>4. InHand' = data'[c] \o scratch'[c]
    BY <1>2, <2>1 DEF InHand
  <2>. QED
    BY <2>2, <2>3, <2>4
<1>. QED
  BY <1>1, <1>2

\* A read handler moves bytes along the stream and loses none.
LEMMA HandlerKeepsStream ==
    ASSUME StreamInv, NEW r \in Requests, NEW d, NEW rest, ReadHandler(r, d, rest)
    PROVE  Stream' = Stream
<1>1. /\ d \in Seq(Bytes) /\ rest \in Seq(Bytes) /\ InHand \o read_ahead = d \o rest
      /\ Reading(r, d, rest) /\ \A x \in Reads : stage[x] = "active" => x = r
      /\ r \in Reads
  BY DEF ReadHandler, Reading
<1>2. /\ delivered \in Seq(Bytes) /\ inbound \in Seq(Bytes) /\ inbound' = inbound
      /\ InHand \in Seq(Bytes) /\ read_ahead \in Seq(Bytes)
  BY <1>1, InHandFacts DEF StreamInv, TypeOK, Reading, streamVars
<1>3. stage \in [Requests -> {"none", "calling", "posted", "queued", "active", "done"}] /\ Reads \subseteq Requests
  BY DEF StreamInv, TypeOK, Requests
<1>4. delivered' \o InHand' \o read_ahead' = delivered \o (d \o rest)
  <2>0. delivered \o (d \o rest) = (delivered \o d) \o rest
    <3>1. delivered \in Seq(Bytes) /\ d \in Seq(Bytes) /\ rest \in Seq(Bytes)
      BY <1>1, <1>2
    <3>. QED
      BY <3>1, ConcatAssociative, SMTT(60)
  <2>1. ASSUME NEW status \in {"ok", "error"}, Answers(r, status, d, rest)
        PROVE  delivered' \o InHand' \o read_ahead' = delivered \o (d \o rest)
    <3>1. CompleteRead(r, status, d, rest) /\ (status = "ok" \/ d = <<>>)
      BY <2>1 DEF Answers
    <3>2. stage' = [stage EXCEPT ![r] = "done"]
      BY <3>1 DEF CompleteRead
    <3>3. ActiveReads' = {}
      BY <1>1, <1>3, <3>2 DEF ActiveReads
    <3>4. InHand' = <<>>
      BY <3>3 DEF InHand
    <3>5. CASE op[r] = "pending" /\ status = "ok"
      <4>1. delivered' = delivered \o d /\ read_ahead' = rest
        BY <3>1, <3>5 DEF CompleteRead
      <4>2. (delivered \o d) \o <<>> = delivered \o d
        BY <1>1, <1>2
      <4>. QED
        BY <2>0, <3>4, <4>1, <4>2, Zenon
    <3>6. CASE op[r] = "pending" /\ status # "ok"
      <4>1. delivered' = delivered /\ read_ahead' = rest /\ d = <<>>
        BY <3>1, <3>6 DEF CompleteRead
      <4>. QED
        BY <2>0, <3>4, <4>1, Zenon
    <3>7. CASE op[r] # "pending"
      <4>1. delivered' = delivered /\ read_ahead' = d \o rest
        BY <3>1, <3>7 DEF CompleteRead, RestorePartialRead
      <4>2. delivered \o <<>> = delivered
        BY <1>2
      <4>. QED
        BY <3>4, <4>1, <4>2, Zenon
    <3>. QED
      BY <3>5, <3>6, <3>7
  <2>2. CASE GoesOn(r, d, rest)
    <3>1. /\ stage' = [stage EXCEPT ![r] = "active"] /\ data' = [data EXCEPT ![r] = d]
          /\ scratch' = [scratch EXCEPT ![r] = <<>>] /\ read_ahead' = rest /\ delivered' = delivered
      BY <2>2 DEF GoesOn, IssueRead
    <3>2. data'[r] = d /\ scratch'[r] = <<>>
      BY <3>1 DEF StreamInv, TypeOK
    <3>3. ActiveReads' = {r}
      BY <1>1, <1>3, <3>1 DEF ActiveReads
    <3>4. InHand' = d \o <<>>
      BY <3>2, <3>3 DEF InHand
    <3>5. d \o <<>> = d
      BY <1>1
    <3>. QED
      BY <2>0, <3>1, <3>4, <3>5, Zenon
  <2>. QED
    BY <1>1, <2>1, <2>2 DEF Reading
<1>5. delivered \o InHand \o read_ahead = delivered \o (InHand \o read_ahead)
  BY <1>2, ConcatAssociative
<1>. QED
  BY <1>1, <1>2, <1>4, <1>5, Zenon DEF Stream

\* What is in the stream is what the device has sent and nobody has thrown away, in order.
StreamPart ==
    /\ Elements(Stream) = (1 .. sent) \ discarded
    /\ Increasing(Stream)

\* A read with a termchar is given nothing beyond it.
TermPart ==
    \A r \in TermReads : Done(r) => \A i \in 1 .. Len(data[r]) - 1 : data[r][i] \notin TermBytes

\* BytesInOrder is about the stream and about the reads with a termchar.
LEMMA BytesParts == BytesInOrder <=> StreamPart /\ TermPart
BY DEF BytesInOrder, StreamPart, TermPart, Increasing

\* A step that leaves the stream alone.
LEMMA SameStream ==
    ASSUME StreamInv, Stream' = Stream, UNCHANGED <<sent, discarded>>
    PROVE  StreamPart' /\ DiscardInv'
<1>1. StreamPart /\ DiscardInv
  BY BytesParts DEF StreamInv
<1>2. DiscardInv'
  BY <1>1 DEF DiscardInv
<1>3. Elements(Stream)' = Elements(Stream) /\ (Increasing(Stream)' <=> Increasing(Stream))
  BY DEF Elements, Increasing
<1>. QED
  BY <1>1, <1>2, <1>3 DEF StreamPart

\* Of the steps with no read handler those of the device, flush, clear and the completion
\* of a read change the stream.
LEMMA StreamNext ==
    ASSUME StreamInv, [Next]_vars
    PROVE  StreamPart' /\ DiscardInv'
<1>0. /\ delivered \in Seq(Bytes) /\ inbound \in Seq(Bytes) /\ read_ahead \in Seq(Bytes)
      /\ InHand \in Seq(Bytes)
  BY InHandFacts DEF StreamInv, TypeOK
<1>1. /\ stage \in [Requests -> {"none", "calling", "posted", "queued", "active", "done"}]
      /\ Reads \subseteq Requests
  BY DEF StreamInv, TypeOK, Requests
<1>2. sent \in Nat /\ MaxBytes \in Nat /\ sent <= MaxBytes /\ StreamPart /\ discarded \subseteq 1 .. sent
  BY BytesParts, BoundsAssumption DEF StreamInv, TypeOK, DiscardInv
<1>3. ASSUME ActiveReads' = ActiveReads, UNCHANGED <<data, scratch, delivered, read_ahead, inbound, sent, discarded>>
      PROVE  StreamPart' /\ DiscardInv'
  <2>1. InHand' = InHand
    BY <1>3, SameInHand
  <2>2. Stream' = Stream
    BY <1>3, <2>1 DEF Stream
  <2>. QED
    BY <1>3, <2>2, SameStream
<1>4. ASSUME NEW r \in Requests, NEW s, stage' = [stage EXCEPT ![r] = s],
             r \in Reads => s # "active" /\ stage[r] # "active"
      PROVE  ActiveReads' = ActiveReads
  BY <1>1, <1>4 DEF ActiveReads
<1>5. UNCHANGED stage => ActiveReads' = ActiveReads
  BY DEF ActiveReads
<1>6. ASSUME NEW r \in Requests, Call(r) \/ Post(r) \/ Drop(r) \/ CancelWaiting(r) \/ OnWritten(r)
      PROVE  StreamPart' /\ DiscardInv'
  <2>1. PICK s \in {"calling", "posted", "done"} : stage' = [stage EXCEPT ![r] = s]
    BY <1>6 DEF Call, Post, Drop, CancelWaiting, OnWritten
  <2>2. r \in Reads => stage[r] # "active"
    <3>1. CASE Drop(r)
      BY <3>1, DropFacts
    <3>2. CASE OnWritten(r)
      BY <3>2, RequestsAssumption DEF OnWritten
    <3>3. CASE Call(r) \/ Post(r) \/ CancelWaiting(r)
      BY <3>3 DEF Call, Post, CancelWaiting
    <3>. QED
      BY <1>6, <3>1, <3>2, <3>3
  <2>3. UNCHANGED <<data, scratch, delivered, read_ahead, inbound, sent, discarded>>
    BY <1>6 DEF Call, Post, Drop, CancelWaiting, OnWritten, byteVars, streamVars, history
  <2>. QED
    BY <1>3, <1>4, <2>1, <2>2, <2>3
<1>7. ASSUME NEW r \in Requests, Enqueue(r) PROVE StreamPart' /\ DiscardInv'
  <2>1. UNCHANGED <<data, scratch, delivered, read_ahead, inbound, sent, discarded>>
    BY <1>7 DEF Enqueue, byteVars, streamVars, history
  <2>2. CASE Done(r)
    BY <1>3, <1>5, <1>7, <2>1, <2>2 DEF Enqueue
  <2>3. CASE ~Done(r)
    <3>1. stage[r] = "posted" /\ stage' = [stage EXCEPT ![r] = "queued"]
      BY <1>7, <2>3, EnqueueStage DEF Enqueue
    <3>. QED
      BY <1>3, <1>4, <2>1, <3>1
  <2>. QED
    BY <2>2, <2>3
<1>8. ASSUME NEW r \in Requests, StartWrite(r) PROVE StreamPart' /\ DiscardInv'
  <2>1. r \notin Reads
    BY <1>8, StartWriteFacts, RequestsAssumption
  <2>2. UNCHANGED <<data, scratch, delivered, read_ahead, inbound, sent, discarded>>
    BY <1>8 DEF StartWrite, byteVars, streamVars, history
  <2>3. stage' = [stage EXCEPT ![r] = "active"]
    BY <1>8 DEF StartWrite
  <2>. QED
    BY <1>3, <1>4, <2>1, <2>2, <2>3
<1>9. ASSUME NEW r \in Requests, StartRead(r) \/ OnRead(r) \/ OnReadError(r)
      PROVE  StreamPart' /\ DiscardInv'
  <2>1. PICK d, rest : ReadHandler(r, d, rest)
    BY <1>9, ReadHandlerFacts
  <2>2. UNCHANGED <<sent, discarded>>
    BY <2>1 DEF ReadHandler, Reading, streamVars, history
  <2>. QED
    BY <2>1, <2>2, HandlerKeepsStream, SameStream
<1>10. CASE Flush
  <2>1. /\ read_ahead' = <<>> /\ discarded' = discarded \cup Elements(read_ahead)
        /\ UNCHANGED <<stage, data, scratch, delivered, inbound, sent>>
    BY <1>10 DEF Flush, callVars, streamVars
  <2>2. InHand' = InHand
    BY <1>5, <2>1, SameInHand
  <2>3. PICK a \in Seq(Bytes) : a = delivered \o InHand
    <3>1. delivered \o InHand \in Seq(Bytes)
      BY <1>0
    <3>. QED
      BY <3>1, Zenon
  <2>4. Stream = (a \o read_ahead) \o inbound
    BY <2>3 DEF Stream
  <2>5. Stream' = a \o inbound
    <3>1. a \o <<>> = a
      OBVIOUS
    <3>. QED
      BY <2>1, <2>2, <2>3, <3>1, Zenon DEF Stream
  <2>6. Increasing(Stream)
    BY <1>2 DEF StreamPart
  <2>7. PICK t : t = Stream'
    OBVIOUS
  <2>8. Increasing(t) /\ Elements(t) = Elements(Stream) \ Elements(read_ahead)
    BY <1>0, <2>3, <2>4, <2>5, <2>6, <2>7, RemoveFacts, Zenon
  <2>9. Increasing(Stream)' /\ Elements(Stream)' = Elements(t)
    BY <2>7, <2>8 DEF Increasing, Elements
  <2>10. Elements(read_ahead) \subseteq Elements(Stream)
    <3>1. /\ Len(a) \in Nat /\ Len(read_ahead) \in Nat
          /\ a \o read_ahead \in Seq(Bytes) /\ Len(a \o read_ahead) = Len(a) + Len(read_ahead)
          /\ \A i \in 1 .. Len(read_ahead) : (a \o read_ahead)[Len(a) + i] = read_ahead[i]
      BY <1>0, JoinFacts
    <3>2. \A i \in 1 .. Len(a \o read_ahead) : i \in DOMAIN Stream /\ Stream[i] = (a \o read_ahead)[i]
      BY <1>0, <2>4, <3>1, JoinFacts
    <3>3. \A i \in 1 .. Len(read_ahead) : Len(a) + i \in DOMAIN Stream /\ Stream[Len(a) + i] = read_ahead[i]
      BY <3>1, <3>2
    <3>4. \A i \in DOMAIN read_ahead : i \in 1 .. Len(read_ahead)
      BY <1>0
    <3>. QED
      BY <3>3, <3>4 DEF Elements
  <2>11. DiscardInv'
    BY <1>2, <2>1, <2>10 DEF DiscardInv, StreamPart
  <2>12. Elements(Stream)' = (1 .. sent') \ discarded'
    BY <1>2, <2>1, <2>8, <2>9 DEF StreamPart
  <2>. QED
    BY <2>9, <2>11, <2>12 DEF StreamPart
<1>11. CASE Purge
  <2>1. /\ inbound' = <<>> /\ discarded' = discarded \cup Elements(inbound)
        /\ UNCHANGED <<stage, data, scratch, delivered, read_ahead, sent>>
    BY <1>11 DEF Purge, callVars, byteVars
  <2>2. InHand' = InHand
    BY <1>5, <2>1, SameInHand
  <2>3. PICK a \in Seq(Bytes) : a = delivered \o InHand \o read_ahead
    <3>1. delivered \o InHand \o read_ahead \in Seq(Bytes)
      BY <1>0
    <3>. QED
      BY <3>1, Zenon
  <2>4. Stream = a \o inbound /\ Stream' = a \o <<>>
    BY <2>1, <2>2, <2>3, Zenon DEF Stream
  <2>5. a \o <<>> = a /\ (a \o inbound) \o <<>> = a \o inbound
    BY <1>0
  <2>6. Increasing(Stream)
    BY <1>2 DEF StreamPart
  <2>7. PICK t : t = Stream'
    OBVIOUS
  <2>8. Increasing(t) /\ Elements(t) = Elements(Stream) \ Elements(inbound)
    <3>1. <<>> \in Seq(Bytes) /\ Stream = (a \o inbound) \o <<>> /\ t = a \o <<>>
      BY <2>4, <2>5, <2>7
    <3>. QED
      BY <1>0, <2>3, <2>6, <3>1, RemoveFacts, ZenonT(60)
  <2>9. Increasing(Stream)' /\ Elements(Stream)' = Elements(t)
    BY <2>7, <2>8 DEF Increasing, Elements
  <2>10. Elements(inbound) \subseteq Elements(Stream)
    <3>1. /\ Len(a) \in Nat /\ Len(inbound) \in Nat
          /\ a \o inbound \in Seq(Bytes) /\ Len(a \o inbound) = Len(a) + Len(inbound)
          /\ \A i \in 1 .. Len(inbound) : (a \o inbound)[Len(a) + i] = inbound[i]
      BY <1>0, JoinFacts
    <3>2. \A i \in 1 .. Len(inbound) : Len(a) + i \in DOMAIN Stream /\ Stream[Len(a) + i] = inbound[i]
      BY <2>4, <3>1
    <3>3. \A i \in DOMAIN inbound : i \in 1 .. Len(inbound)
      BY <1>0
    <3>. QED
      BY <3>2, <3>3 DEF Elements
  <2>11. DiscardInv'
    BY <1>2, <2>1, <2>10 DEF DiscardInv, StreamPart
  <2>12. Elements(Stream)' = (1 .. sent') \ discarded'
    BY <1>2, <2>1, <2>8, <2>9 DEF StreamPart
  <2>. QED
    BY <2>9, <2>11, <2>12 DEF StreamPart
<1>12. CASE DeviceSends
  <2>1. /\ inbound' = Append(inbound, sent + 1) /\ sent' = sent + 1 /\ sent + 1 <= MaxBytes
        /\ UNCHANGED <<stage, data, scratch, delivered, read_ahead, discarded>>
    BY <1>2, <1>12 DEF DeviceSends, callVars, byteVars, history
  <2>2. InHand' = InHand
    BY <1>5, <2>1, SameInHand
  <2>3. PICK a \in Seq(Bytes) : a = delivered \o InHand \o read_ahead
    <3>1. delivered \o InHand \o read_ahead \in Seq(Bytes)
      BY <1>0
    <3>. QED
      BY <3>1, Zenon
  <2>4. Stream = a \o inbound /\ Stream' = a \o Append(inbound, sent + 1)
    BY <2>1, <2>2, <2>3, Zenon DEF Stream
  <2>5. sent + 1 \in Bytes /\ Stream \in Seq(Bytes)
    BY <1>0, <1>2, <2>1, <2>4 DEF Bytes
  <2>6. PICK t : t = Stream'
    OBVIOUS
  <2>7. t = Append(Stream, sent + 1)
    <3>1. a \o Append(inbound, sent + 1) = Append(a \o inbound, sent + 1)
      BY <1>0, <2>5
    <3>. QED
      BY <2>4, <2>6, <3>1, Zenon
  <2>8. \A i \in DOMAIN Stream : Stream[i] < sent + 1
    <3>1. \A i \in DOMAIN Stream : Stream[i] \in 1 .. sent
      BY <1>2 DEF StreamPart, Elements
    <3>. QED
      BY <1>2, <3>1
  <2>9. Increasing(t) /\ Elements(t) = Elements(Stream) \cup {sent + 1}
    BY <1>2, <2>5, <2>7, <2>8, GrowFacts DEF StreamPart
  <2>10. Increasing(Stream)' /\ Elements(Stream)' = Elements(t)
    BY <2>6, <2>9 DEF Increasing, Elements
  <2>11. /\ 1 .. sent + 1 = (1 .. sent) \cup {sent + 1} /\ sent + 1 \notin 1 .. sent
         /\ 1 .. sent \subseteq 1 .. sent + 1
    BY <1>2
  <2>12. DiscardInv'
    BY <1>2, <2>1, <2>11 DEF DiscardInv
  <2>13. Elements(Stream)' = (1 .. sent') \ discarded'
    <3>1. Elements(Stream) = (1 .. sent) \ discarded
      BY <1>2 DEF StreamPart
    <3>. QED
      BY <1>2, <2>1, <2>9, <2>10, <2>11, <3>1, Zenon
  <2>. QED
    BY <2>10, <2>12, <2>13 DEF StreamPart
<1>13. ASSUME NEW r \in Requests, NEW n \in 1 .. Len(inbound), ReadDone(r, n)
       PROVE  StreamPart' /\ DiscardInv'
  <2>1. /\ r \in Reads /\ io[r] = "busy"
        /\ scratch' = [scratch EXCEPT ![r] = SubSeq(inbound, 1, n)]
        /\ inbound' = SubSeq(inbound, n + 1, Len(inbound))
        /\ UNCHANGED <<stage, data, delivered, read_ahead, sent, discarded>>
    BY <1>13 DEF ReadDone, callVars, byteVars, history
  <2>2. stage[r] = "active" /\ scratch[r] = <<>> /\ scratch \in [Requests -> Seq(Bytes)]
    BY <2>1 DEF StreamInv, IoInv, TypeOK
  <2>3. read_ahead = <<>>
    BY <2>1, <2>2 DEF StreamInv, ReadInv
  <2>4. PICK p : p = SubSeq(inbound, 1, n)
    OBVIOUS
  <2>5. PICK q : q = SubSeq(inbound, n + 1, Len(inbound))
    OBVIOUS
  <2>6. n \in Nat /\ n <= Len(inbound) /\ Len(inbound) \in Nat
    BY <1>0
  <2>7. p \o q = inbound
    BY <1>0, <2>4, <2>5, <2>6, CutFacts, Zenon
  <2>8. p \in Seq(Bytes) /\ q \in Seq(Bytes) /\ data[r] \in Seq(Bytes)
    BY <1>0, <2>4, <2>5, <2>6 DEF StreamInv, TypeOK
  <2>9. scratch'[r] = p
    BY <2>1, <2>2, <2>4
  <2>10. InHand = data[r] \o <<>>
    BY <2>1, <2>2, InHandFacts
  <2>11. InHand' = data[r] \o p
    <3>1. \A x \in Reads : stage[x] = "active" => x = r
      <4>1. \A x \in Reads : x \in Requests /\ QueueOf(x) = QueueOf(r)
        BY <2>1 DEF Requests, QueueOf
      <4>. QED
        BY <2>2, <4>1, ActiveIsFirst
    <3>2. ActiveReads' = {r}
      BY <2>1, <2>2, <3>1 DEF ActiveReads
    <3>. QED
      BY <2>1, <2>9, <3>2 DEF InHand
  <2>12. Stream = ((delivered \o data[r]) \o <<>>) \o (p \o q)
    <3>1. data[r] \o <<>> = data[r]
      BY <2>8
    <3>. QED
      BY <2>3, <2>7, <2>10, <3>1, Zenon DEF Stream
  <2>13. Stream' = ((delivered \o (data[r] \o p)) \o <<>>) \o q
    BY <2>1, <2>3, <2>5, <2>11, Zenon DEF Stream
  <2>14. /\ (delivered \o data[r]) \o <<>> = delivered \o data[r]
         /\ (delivered \o (data[r] \o p)) \o <<>> = delivered \o (data[r] \o p)
    BY <1>0, <2>8
  <2>15. /\ delivered \o (data[r] \o p) = (delivered \o data[r]) \o p
         /\ delivered \o data[r] \in Seq(Bytes)
    <3>1. delivered \in Seq(Bytes) /\ data[r] \in Seq(Bytes) /\ p \in Seq(Bytes)
      BY <1>0, <2>8
    <3>2. delivered \o data[r] \in Seq(Bytes)
      BY <3>1
    <3>3. PICK b : b = data[r]
      OBVIOUS
    <3>4. delivered \in Seq(Bytes) /\ b \in Seq(Bytes) /\ p \in Seq(Bytes)
      BY <3>1, <3>3, Zenon
    <3>5. delivered \o (b \o p) = (delivered \o b) \o p
      BY <3>4, ConcatAssociative
    <3>. QED
      BY <3>2, <3>3, <3>5, Zenon
  <2>16. ((delivered \o data[r]) \o p) \o q = (delivered \o data[r]) \o (p \o q)
    <3>1. PICK a : a = delivered \o data[r]
      OBVIOUS
    <3>2. a \in Seq(Bytes) /\ p \in Seq(Bytes) /\ q \in Seq(Bytes)
      BY <2>8, <2>15, <3>1, Zenon
    <3>3. (a \o p) \o q = a \o (p \o q)
      BY <3>2, ConcatAssociative
    <3>. QED
      BY <3>1, <3>3, Zenon
  <2>17. Stream' = Stream
    BY <2>12, <2>13, <2>14, <2>15, <2>16, Zenon
  <2>. QED
    BY <2>1, <2>17, SameStream
<1>14. ASSUME NEW r \in Requests, CompleteOperation(r) \/ CancelActive(r) \/ IoFails(r) \/ ByteWritten(r)
       PROVE  StreamPart' /\ DiscardInv'
  BY <1>3, <1>5, <1>14 DEF CompleteOperation, CancelActive, IoFails, ByteWritten,
                           callVars, byteVars, streamVars, history
<1>15. CASE CallFlush \/ FlushInput \/ CallClear \/ CallClose \/ Close \/ LoopDone
            \/ ConnectionEnds \/ UNCHANGED vars
  BY <1>3, <1>5, <1>15 DEF CallFlush, FlushInput, CallClear, CallClose, Close, LoopDone,
                           ConnectionEnds, vars, callVars, byteVars, streamVars, history
<1>. QED
  BY <1>6, <1>7, <1>8, <1>9, <1>10, <1>11, <1>12, <1>13, <1>14, <1>15
  DEF Next, Strand, Environment

\* A read that ends has nothing beyond a termchar.
LEMMA TermNext ==
    ASSUME StreamInv, [Next]_vars
    PROVE  TermPart'
<1>0. /\ stage \in [Requests -> {"none", "calling", "posted", "queued", "active", "done"}]
      /\ data \in [Requests -> Seq(Bytes)] /\ TermReads \subseteq Reads /\ Reads \subseteq Requests
      /\ TermPart
  BY BytesParts, RequestsAssumption DEF StreamInv, TypeOK, Requests
<1>1. ASSUME UNCHANGED data,
             \A r \in Reads : stage'[r] = "done" => stage[r] # "active"
      PROVE  TermPart'
  <2>. SUFFICES ASSUME NEW r \in TermReads, stage'[r] = "done", NEW i \in 1 .. Len(data'[r]) - 1
                PROVE  data'[r][i] \notin TermBytes
    BY DEF TermPart, Done
  <2>1. data'[r] = data[r] /\ r \in Reads /\ stage[r] # "active"
    BY <1>0, <1>1
  <2>2. CASE stage[r] = "done"
    BY <1>0, <2>1, <2>2 DEF TermPart, Done
  <2>3. CASE stage[r] # "done"
    <3>1. data[r] = <<>>
      BY <2>1, <2>3 DEF StreamInv, ReadInv
    <3>. QED
      BY <2>1, <3>1
  <2>. QED
    BY <2>2, <2>3
<1>2. ASSUME NEW r \in Requests, Call(r) \/ Post(r) \/ Drop(r) \/ CancelWaiting(r) \/ OnWritten(r)
      PROVE  TermPart'
  <2>1. PICK s \in {"calling", "posted", "done"} : stage' = [stage EXCEPT ![r] = s]
    BY <1>2 DEF Call, Post, Drop, CancelWaiting, OnWritten
  <2>2. r \in Reads => stage[r] # "active"
    <3>1. CASE Drop(r)
      BY <3>1, DropFacts
    <3>2. CASE OnWritten(r)
      BY <3>2, RequestsAssumption DEF OnWritten
    <3>3. CASE Call(r) \/ Post(r) \/ CancelWaiting(r)
      BY <3>3 DEF Call, Post, CancelWaiting
    <3>. QED
      BY <1>2, <3>1, <3>2, <3>3
  <2>3. UNCHANGED data
    BY <1>2 DEF Call, Post, Drop, CancelWaiting, OnWritten, byteVars
  <2>4. \A x \in Reads : stage'[x] = "done" => stage[x] # "active"
    BY <1>0, <2>1, <2>2
  <2>. QED
    BY <1>1, <2>3, <2>4
<1>3. ASSUME NEW r \in Requests, Enqueue(r) \/ StartWrite(r) PROVE TermPart'
  <2>1. UNCHANGED data
    BY <1>3 DEF Enqueue, StartWrite, byteVars
  <2>2. \A x \in Reads : stage'[x] = "done" => stage[x] # "active"
    BY <1>0, <1>3 DEF Enqueue, StartWrite
  <2>. QED
    BY <1>1, <2>1, <2>2
<1>4. ASSUME NEW r \in Requests, StartRead(r) \/ OnRead(r) \/ OnReadError(r) PROVE TermPart'
  <2>1. PICK d, rest : ReadHandler(r, d, rest)
    BY <1>4, ReadHandlerFacts
  <2>2. d \in Seq(Bytes)
    BY <2>1 DEF ReadHandler
  <2>3. CASE GoesOn(r, d, rest)
    <3>1. stage' = [stage EXCEPT ![r] = "active"] /\ data' = [data EXCEPT ![r] = d]
      BY <2>3 DEF GoesOn, IssueRead
    <3>2. stage'[r] = "active" /\ \A x \in Reads : x # r => stage'[x] = stage[x] /\ data'[x] = data[x]
      BY <1>0, <3>1
    <3>. QED
      BY <1>0, <3>2 DEF TermPart, Done
  <2>4. ASSUME NEW status \in {"ok", "error"}, Answers(r, status, d, rest) PROVE TermPart'
    <3>1. PICK v \in {d, <<>>} : data' = [data EXCEPT ![r] = v]
      BY <2>4 DEF Answers, CompleteRead
    <3>2. stage' = [stage EXCEPT ![r] = "done"]
      BY <2>4 DEF Answers, CompleteRead
    <3>3. data'[r] = v /\ \A x \in Reads : x # r => stage'[x] = stage[x] /\ data'[x] = data[x]
      BY <1>0, <3>1, <3>2
    <3>4. r \in TermReads => \A i \in 1 .. Len(v) - 1 : v[i] \notin TermBytes
      <4>1. CASE v = d
        BY <2>4, <4>1 DEF Answers
      <4>2. CASE v = <<>>
        BY <4>2
      <4>. QED
        BY <3>1, <4>1, <4>2
    <3>. QED
      BY <1>0, <3>3, <3>4 DEF TermPart, Done
  <2>. QED
    BY <2>1, <2>3, <2>4 DEF ReadHandler, Reading
<1>5. UNCHANGED <<stage, data>> => TermPart'
  BY <1>0 DEF TermPart, Done
<1>6. ASSUME NEW r \in Requests, CompleteOperation(r) \/ CancelActive(r) \/ IoFails(r)
                                 \/ ByteWritten(r) \/ \E n \in 1 .. Len(inbound) : ReadDone(r, n)
      PROVE  TermPart'
  BY <1>5, <1>6 DEF CompleteOperation, CancelActive, IoFails, ByteWritten, ReadDone, callVars, byteVars
<1>7. CASE CallFlush \/ FlushInput \/ CallClear \/ CallClose \/ Flush \/ Purge \/ Close \/ LoopDone
           \/ DeviceSends \/ ConnectionEnds \/ UNCHANGED vars
  BY <1>5, <1>7 DEF CallFlush, FlushInput, CallClear, CallClose, Flush, Purge, Close, LoopDone,
                    DeviceSends, ConnectionEnds, vars, callVars, byteVars
<1>. QED
  BY <1>2, <1>3, <1>4, <1>6, <1>7 DEF Next, Strand, Environment

-----------------------------------------------------------------------------
\* The number of bytes of a write that are out: none when no byte of it is on the wire, and
\* one more when one follows.
LEMMA OutFacts ==
    ASSUME wire \in Seq(Writes), NEW w \in Writes
    PROVE  /\ Out(w) \in Nat
           /\ (\A i \in DOMAIN wire : wire[i] # w) => Out(w) = 0
           /\ wire' = wire => Out(w)' = Out(w)
           /\ wire' = Append(wire, w) => Out(w)' = Out(w) + 1
           /\ \A x \in Writes : x # w /\ wire' = Append(wire, x) => Out(w)' = Out(w)
<1>. DEFINE S == {i \in DOMAIN wire : wire[i] = w}
<1>1. IsFiniteSet(S) /\ Len(wire) \in Nat
  <2>1. Len(wire) \in Nat /\ S \subseteq 1 .. Len(wire)
    OBVIOUS
  <2>2. IsFiniteSet(1 .. Len(wire))
    BY <2>1, FS_Interval
  <2>. QED
    BY <2>1, <2>2, FS_Subset, Zenon
<1>2. Out(w) = Cardinality(S)
  BY DEF Out
<1>3. Out(w) \in Nat
  BY <1>1, <1>2, FS_CardinalityType, Zenon
<1>4. (\A i \in DOMAIN wire : wire[i] # w) => Out(w) = 0
  <2>1. (\A i \in DOMAIN wire : wire[i] # w) => S = {}
    OBVIOUS
  <2>. QED
    BY <1>2, <2>1, FS_EmptySet, Zenon
<1>5. wire' = wire => Out(w)' = Out(w)
  BY DEF Out
<1>6. ASSUME wire' = Append(wire, w) PROVE Out(w)' = Out(w) + 1
  <2>1. /\ \A i \in DOMAIN wire : i \in DOMAIN wire' /\ wire'[i] = wire[i] /\ i # Len(wire) + 1
        /\ Len(wire) + 1 \in DOMAIN wire' /\ wire'[Len(wire) + 1] = w
        /\ \A i \in DOMAIN wire' : (i \in DOMAIN wire /\ wire'[i] = wire[i])
                                   \/ (wire'[i] = w /\ i = Len(wire) + 1)
    BY <1>6, AppendFacts
  <2>2. {i \in DOMAIN wire' : wire'[i] = w} = S \cup {Len(wire) + 1} /\ Len(wire) + 1 \notin S
    BY <2>1
  <2>3. Out(w)' = Cardinality(S \cup {Len(wire) + 1})
    BY <2>2 DEF Out
  <2>4. Cardinality(S \cup {Len(wire) + 1}) = Cardinality(S) + 1
    BY <1>1, <2>2, FS_AddElement, Zenon
  <2>. QED
    BY <1>2, <2>3, <2>4
<1>7. ASSUME NEW x \in Writes, x # w, wire' = Append(wire, x) PROVE Out(w)' = Out(w)
  <2>1. /\ \A i \in DOMAIN wire : i \in DOMAIN wire' /\ wire'[i] = wire[i] /\ i # Len(wire) + 1
        /\ \A i \in DOMAIN wire' : (i \in DOMAIN wire /\ wire'[i] = wire[i])
                                   \/ (wire'[i] = x /\ i = Len(wire) + 1)
    BY <1>7, AppendFacts
  <2>2. {i \in DOMAIN wire' : wire'[i] = w} = S
    BY <1>7, <2>1
  <2>. QED
    BY <1>2, <2>2 DEF Out
<1>. QED
  BY <1>3, <1>4, <1>5, <1>6, <1>7

\* What the invariant says of the writes.
WriteInv == WireInv /\ CountInv /\ WritesDoNotMix

\* A step that puts nothing on the wire and does not start a write.
LEMMA SameWire ==
    ASSUME StreamInv, UNCHANGED wire,
           \A w \in Writes :
               /\ stage[w] \in {"active", "done"} => stage'[w] \in {"active", "done"}
               /\ stage'[w] = "active" => stage[w] = "active"
               /\ io'[w] = io[w] \/ io'[w] \notin {"busy", "ready"}
               /\ outcome'[w] = "ok" => stage'[w] = "done" /\ (outcome[w] = "ok" \/ io[w] = "ready")
    PROVE  WriteInv'
<1>1. wire \in Seq(Writes) /\ WireInv /\ CountInv /\ WritesDoNotMix
  BY DEF StreamInv, TypeOK
<1>2. \A w \in Writes : Out(w)' = Out(w)
  BY <1>1, OutFacts
<1>3. \A i \in DOMAIN wire : wire[i] \in Writes
  BY <1>1
<1>4. WireInv'
  BY <1>1, <1>3 DEF WireInv
<1>5. CountInv'
  BY <1>1, <1>2 DEF CountInv
<1>6. WritesDoNotMix'
  BY <1>1, <1>2 DEF CountInv, WritesDoNotMix
<1>. QED
  BY <1>4, <1>5, <1>6 DEF WriteInv

\* Every step: the bytes of two writes do not mix.
LEMMA WriteNext ==
    ASSUME StreamInv, [Next]_vars
    PROVE  WriteInv'
<1>0. /\ stage \in [Requests -> {"none", "calling", "posted", "queued", "active", "done"}]
      /\ io \in [Requests -> {"none", "busy", "ready", "failed", "aborted"}]
      /\ outcome \in [Requests -> {"none", "ok", "error", "cancelled"}]
      /\ wire \in Seq(Writes) /\ Writes \subseteq Requests
      /\ WireInv /\ CountInv /\ WritesDoNotMix /\ Length \in Nat \ {0}
  BY SizesAssumption DEF StreamInv, TypeOK, Requests
<1>1. CASE UNCHANGED <<wire, stage, io, outcome>>
  BY <1>0, <1>1, SameWire DEF CountInv
<1>2. ASSUME NEW r \in Requests, Call(r) \/ Post(r) \/ Drop(r) \/ CancelWaiting(r) PROVE WriteInv'
  <2>1. UNCHANGED <<wire, io>>
    BY <1>2 DEF Call, Post, Drop, CancelWaiting, streamVars
  <2>2. PICK s \in {"calling", "posted", "done"} :
            /\ stage' = [stage EXCEPT ![r] = s]
            /\ s # "done" => stage[r] \in {"none", "calling"}
    BY <1>2 DEF Call, Post, Drop, CancelWaiting
  <2>3. \A w \in Writes : outcome'[w] = "ok" => outcome[w] = "ok"
    BY <1>0, <1>2 DEF Call, Post, Drop, CancelWaiting
  <2>4. \A w \in Writes : outcome[w] = "ok" => stage[w] = "done"
    BY <1>0 DEF CountInv
  <2>5. \A w \in Writes :
           /\ stage[w] \in {"active", "done"} => stage'[w] \in {"active", "done"}
           /\ stage'[w] = "active" => stage[w] = "active"
           /\ stage[w] = "done" => stage'[w] = "done"
    BY <1>0, <2>2
  <2>. QED
    BY <2>1, <2>3, <2>4, <2>5, SameWire
<1>3. ASSUME NEW r \in Requests, Enqueue(r) PROVE WriteInv'
  <2>1. UNCHANGED <<wire, io, outcome>>
    BY <1>3 DEF Enqueue, streamVars
  <2>2. CASE Done(r)
    BY <1>1, <1>3, <2>1, <2>2 DEF Enqueue
  <2>3. CASE ~Done(r)
    <3>1. stage[r] = "posted" /\ stage' = [stage EXCEPT ![r] = "queued"]
      BY <1>3, <2>3, EnqueueStage DEF Enqueue
    <3>2. \A w \in Writes : outcome[w] = "ok" => stage[w] = "done"
      BY <1>0 DEF CountInv
    <3>3. \A w \in Writes :
             /\ stage[w] \in {"active", "done"} => stage'[w] \in {"active", "done"}
             /\ stage'[w] = "active" => stage[w] = "active"
             /\ stage[w] = "done" => stage'[w] = "done"
      BY <1>0, <3>1
    <3>. QED
      BY <2>1, <3>2, <3>3, SameWire
  <2>. QED
    BY <2>2, <2>3
<1>4. ASSUME NEW r \in Requests, StartRead(r) \/ OnRead(r) \/ OnReadError(r) PROVE WriteInv'
  <2>1. PICK d, rest : ReadHandler(r, d, rest)
    BY <1>4, ReadHandlerFacts
  <2>2. r \in Reads /\ wire' = wire
    BY <2>1 DEF ReadHandler, Reading, streamVars
  <2>3. r \notin Writes
    BY <2>2, RequestsAssumption
  <2>4. \A w \in Writes : stage'[w] = stage[w]
    BY <1>0, <2>1, <2>3 DEF ReadHandler, Reading, Answers, GoesOn, CompleteRead, IssueRead
  <2>5. \A w \in Writes : io'[w] = io[w]
    BY <1>0, <2>1, <2>3 DEF ReadHandler, Reading, Answers, GoesOn, CompleteRead, IssueRead
  <2>6. \A w \in Writes : outcome'[w] = outcome[w]
    BY <1>0, <2>1, <2>3 DEF ReadHandler, Reading, Answers, GoesOn, CompleteRead, IssueRead
  <2>7. \A w \in Writes : outcome[w] = "ok" => stage[w] = "done"
    BY <1>0 DEF CountInv
  <2>. QED
    BY <2>2, <2>4, <2>5, <2>6, <2>7, SameWire
<1>5. ASSUME NEW w \in Requests, StartWrite(w) PROVE WriteInv'
  <2>1. w \in Writes /\ stage[w] = "queued" /\ \A x \in Writes : stage[x] # "active"
    BY <1>5, StartWriteFacts
  <2>2. /\ stage' = [stage EXCEPT ![w] = "active"] /\ io' = [io EXCEPT ![w] = "busy"]
        /\ UNCHANGED <<wire, outcome>>
    BY <1>5 DEF StartWrite, streamVars
  <2>3. \A i \in DOMAIN wire : wire[i] \in Writes /\ wire[i] # w
    BY <1>0, <2>1 DEF WireInv
  <2>4. Out(w) = 0 /\ \A x \in Writes : Out(x)' = Out(x)
    BY <1>0, <2>1, <2>2, <2>3, OutFacts
  <2>5. stage'[w] = "active" /\ \A x \in Requests : x # w => stage'[x] = stage[x] /\ io'[x] = io[x]
    BY <1>0, <2>2
  <2>6. WireInv'
    BY <1>0, <2>1, <2>2, <2>3, <2>5 DEF WireInv
  <2>7. io'[w] = "busy" /\ outcome[w] # "ok"
    BY <1>0, <2>1, <2>2 DEF CountInv
  <2>8. CountInv'
    BY <1>0, <2>1, <2>2, <2>4, <2>5, <2>7 DEF CountInv
  <2>9. WritesDoNotMix'
    BY <1>0, <2>2, <2>4 DEF WritesDoNotMix
  <2>. QED
    BY <2>6, <2>8, <2>9 DEF WriteInv
<1>6. ASSUME NEW w \in Requests, OnWritten(w) PROVE WriteInv'
  <2>1. /\ stage' = [stage EXCEPT ![w] = "done"] /\ io' = [io EXCEPT ![w] = "none"]
        /\ UNCHANGED wire
    BY <1>6 DEF OnWritten, streamVars
  <2>2. \A x \in Requests : x # w => outcome'[x] = outcome[x]
    BY <1>0, <1>6 DEF OnWritten
  <2>3. outcome'[w] = "ok" => io[w] = "ready"
    BY <1>0, <1>6 DEF OnWritten
  <2>4. \A x \in Writes : outcome[x] = "ok" => stage[x] = "done"
    BY <1>0 DEF CountInv
  <2>5. /\ stage'[w] = "done" /\ io'[w] = "none"
        /\ \A x \in Requests : x # w => stage'[x] = stage[x] /\ io'[x] = io[x]
    BY <1>0, <2>1
  <2>. QED
    BY <1>0, <2>1, <2>2, <2>3, <2>4, <2>5, SameWire
<1>7. ASSUME NEW w \in Requests, ByteWritten(w) PROVE WriteInv'
  <2>1. /\ w \in Writes /\ io[w] = "busy" /\ wire' = Append(wire, w)
        /\ io' = [io EXCEPT ![w] = IF Out(w) + 1 = Length THEN "ready" ELSE "busy"]
        /\ UNCHANGED <<stage, outcome>>
    BY <1>7 DEF ByteWritten, callVars
  <2>2. stage[w] = "active"
    BY <2>1 DEF StreamInv, IoInv
  <2>3. \A x \in Writes : stage[x] = "active" => x = w
    <3>1. \A x \in Writes : x \in Requests /\ QueueOf(x) = QueueOf(w)
      BY <2>1, RequestsAssumption DEF Requests, QueueOf
    <3>. QED
      BY <2>2, <3>1, ActiveIsFirst
  <2>4. /\ \A i \in DOMAIN wire : i \in DOMAIN wire' /\ wire'[i] = wire[i] /\ i # Len(wire) + 1
        /\ \A i \in DOMAIN wire' : (i \in DOMAIN wire /\ wire'[i] = wire[i])
                                   \/ (wire'[i] = w /\ i = Len(wire) + 1)
    BY <1>0, <2>1, AppendFacts
  <2>5. \A i \in DOMAIN wire : wire[i] \in Writes /\ i \in Nat /\ i <= Len(wire) /\ Len(wire) \in Nat
    BY <1>0
  <2>6. Out(w) \in Nat /\ Out(w)' = Out(w) + 1 /\ \A x \in Writes : x # w => Out(x)' = Out(x)
    BY <1>0, <2>1, OutFacts
  <2>7. WireInv'
    <3>1. \A i \in DOMAIN wire' : stage'[wire'[i]] \in {"active", "done"}
      BY <1>0, <2>1, <2>2, <2>4 DEF WireInv
    <3>2. ASSUME NEW i \in DOMAIN wire', NEW j \in DOMAIN wire', i < j, stage[wire'[i]] = "active"
          PROVE  wire'[j] = wire'[i]
      <4>1. i \in DOMAIN wire /\ wire'[i] = wire[i]
        BY <1>0, <2>4, <2>5, <3>2
      <4>2. wire[i] = w
        BY <2>3, <2>5, <3>2, <4>1
      <4>3. CASE j \in DOMAIN wire
        BY <1>0, <2>4, <3>2, <4>1, <4>2, <4>3 DEF WireInv
      <4>4. CASE j \notin DOMAIN wire
        BY <2>4, <4>1, <4>2, <4>4
      <4>. QED
        BY <4>3, <4>4
    <3>. QED
      BY <2>1, <3>1, <3>2 DEF WireInv
  <2>8. CountInv'
    <3>1. Out(w) < Length /\ outcome[w] # "ok"
      BY <1>0, <2>1, <2>2 DEF CountInv
    <3>2. io'[w] = (IF Out(w) + 1 = Length THEN "ready" ELSE "busy") /\ \A x \in Requests : x # w => io'[x] = io[x]
      BY <1>0, <2>1
    <3>. QED
      BY <1>0, <2>1, <2>6, <3>1, <3>2 DEF CountInv
  <2>9. \A i, j, m \in DOMAIN wire' : i < j /\ j < m /\ wire'[i] = wire'[m] => wire'[j] = wire'[i]
    <3>. SUFFICES ASSUME NEW i \in DOMAIN wire', NEW j \in DOMAIN wire', NEW m \in DOMAIN wire',
                         i < j, j < m, wire'[i] = wire'[m]
                  PROVE  wire'[j] = wire'[i]
      OBVIOUS
    <3>1. i \in DOMAIN wire /\ j \in DOMAIN wire /\ wire'[i] = wire[i] /\ wire'[j] = wire[j]
      <4>1. \A x \in DOMAIN wire' : x \in Nat /\ x <= Len(wire) + 1 /\ Len(wire) \in Nat
        BY <1>0, <2>4, <2>5
      <4>2. i # Len(wire) + 1 /\ j # Len(wire) + 1
        BY <4>1
      <4>. QED
        BY <2>4, <4>2
    <3>2. CASE m \in DOMAIN wire
      BY <1>0, <2>4, <3>1, <3>2 DEF WritesDoNotMix
    <3>3. CASE m \notin DOMAIN wire
      <4>1. wire[i] = w
        BY <2>4, <3>1, <3>3
      <4>. QED
        BY <1>0, <2>2, <3>1, <4>1 DEF WireInv
    <3>. QED
      BY <3>2, <3>3
  <2>10. \A x \in Writes : outcome'[x] = "ok" => Out(x)' = Length
    BY <1>0, <2>1, <2>2, <2>6 DEF CountInv, WritesDoNotMix
  <2>. QED
    BY <2>7, <2>8, <2>9, <2>10 DEF WriteInv, WritesDoNotMix
<1>8. ASSUME UNCHANGED <<wire, stage, outcome>>,
             \A w \in Writes : io'[w] = io[w] \/ io'[w] \in {"failed", "aborted"}
      PROVE  WriteInv'
  BY <1>0, <1>8, SameWire DEF CountInv
<1>9. ASSUME NEW r \in Requests, CancelActive(r) \/ IoFails(r) PROVE WriteInv'
  <2>1. UNCHANGED <<wire, stage, outcome>>
    BY <1>9 DEF CancelActive, IoFails, callVars, streamVars
  <2>2. \A w \in Writes : io'[w] = io[w] \/ io'[w] \in {"failed", "aborted"}
    BY <1>0, <1>9 DEF CancelActive, IoFails, Interrupted
  <2>. QED
    BY <1>8, <2>1, <2>2
<1>10. CASE Close
  <2>1. UNCHANGED <<wire, stage, outcome>>
    BY <1>10 DEF Close, callVars
  <2>2. \A w \in Writes : io'[w] = io[w] \/ io'[w] \in {"failed", "aborted"}
    BY <1>0, <1>10 DEF Close, Interrupted
  <2>. QED
    BY <1>8, <2>1, <2>2
<1>11. ASSUME NEW r \in Requests, NEW n \in 1 .. Len(inbound), ReadDone(r, n) PROVE WriteInv'
  <2>1. UNCHANGED <<wire, stage, outcome>> /\ r \in Reads /\ io' = [io EXCEPT ![r] = "ready"]
    BY <1>11 DEF ReadDone, callVars
  <2>2. \A w \in Writes : io'[w] = io[w]
    BY <1>0, <2>1, RequestsAssumption
  <2>. QED
    BY <1>8, <2>1, <2>2
<1>12. ASSUME NEW r \in Requests, CompleteOperation(r) PROVE WriteInv'
  BY <1>1, <1>12 DEF CompleteOperation, streamVars
<1>13. CASE CallFlush \/ FlushInput \/ CallClear \/ CallClose \/ Flush \/ Purge \/ LoopDone
            \/ DeviceSends \/ ConnectionEnds \/ UNCHANGED vars
  BY <1>1, <1>13 DEF CallFlush, FlushInput, CallClear, CallClose, Flush, Purge, LoopDone,
                     DeviceSends, ConnectionEnds, vars, callVars, streamVars
<1>. QED
  BY <1>2, <1>3, <1>4, <1>5, <1>6, <1>7, <1>9, <1>10, <1>11, <1>12, <1>13
  DEF Next, Strand, Environment

-----------------------------------------------------------------------------
\* The invariant holds initially.
LEMMA StreamInit == Init => StreamInv
<1>. SUFFICES ASSUME Init PROVE StreamInv
  OBVIOUS
<1>1. TypeOK
  <2>1. /\ posted \in Seq(Tasks) /\ queue \in [Queues -> Seq(Requests)] /\ starting \in Queues \cup {"none"}
        /\ scratch \in [Requests -> Seq(Bytes)] /\ data \in [Requests -> Seq(Bytes)]
        /\ read_ahead \in Seq(Bytes) /\ delivered \in Seq(Bytes) /\ inbound \in Seq(Bytes)
        /\ wire \in Seq(Writes)
    BY DEF Init
  <2>2. \A r \in Requests : Len(data[r]) <= Count
    BY SizesAssumption DEF Init
  <2>3. sent \in 0 .. MaxBytes /\ flushes \in 0 .. MaxFlushes
    BY BoundsAssumption DEF Init
  <2>4. /\ stage \in [Requests -> {"none", "calling", "posted", "queued", "active", "done"}]
        /\ op \in [Requests -> {"none", "pending", "cancelled", "done"}]
        /\ outcome \in [Requests -> {"none", "ok", "error", "cancelled"}]
        /\ io \in [Requests -> {"none", "busy", "ready", "failed", "aborted"}]
    BY DEF Init
  <2>5. /\ terminal \in BOOLEAN /\ closing \in BOOLEAN /\ closed \in BOOLEAN /\ broken \in BOOLEAN
        /\ flushing \in BOOLEAN /\ planned \in Scenarios
        /\ discarded \in SUBSET Bytes /\ overtaken \in SUBSET Reads
    BY DEF Init
  <2>. QED
    BY <2>1, <2>2, <2>3, <2>4, <2>5 DEF TypeOK
<1>2. PostedInv /\ QueueInv /\ ServedInv
  BY DEF Init, PostedInv, QueueInv, ServedInv
<1>3. IoInv /\ ReadInv
  BY DEF Init, IoInv, ReadInv, Requests
<1>4. InHand = <<>>
  BY DEF Init, InHand, ActiveReads, Requests
<1>5. Stream = <<>>
  BY <1>4 DEF Init, Stream
<1>6. Elements(Stream) = {} /\ 1 .. sent = {}
  BY <1>5 DEF Init, Elements
<1>7. DiscardInv /\ StreamPart
  BY <1>5, <1>6 DEF Init, DiscardInv, StreamPart, Increasing
<1>8. TermPart
  BY RequestsAssumption DEF Init, TermPart, Done, Requests
<1>9. WireInv /\ CountInv /\ WritesDoNotMix
  BY DEF Init, WireInv, CountInv, WritesDoNotMix, Requests
<1>. QED
  BY <1>1, <1>2, <1>3, <1>7, <1>8, <1>9, BytesParts DEF StreamInv

\* Every step preserves the invariant.
LEMMA StreamStep == StreamInv /\ [Next]_vars => StreamInv'
<1>. SUFFICES ASSUME StreamInv, [Next]_vars PROVE StreamInv'
  OBVIOUS
<1>1. TypeOK' /\ PostedInv' /\ QueueInv' /\ ServedInv' /\ IoInv' /\ ReadInv'
  BY TypeNext, PostedNext, QueueNext, IoNext, ReadNext
<1>2. StreamPart' /\ TermPart' /\ DiscardInv'
  BY StreamNext, TermNext
<1>3. BytesInOrder'
  BY <1>2 DEF BytesInOrder, StreamPart, TermPart, Increasing
<1>4. WireInv' /\ CountInv' /\ WritesDoNotMix'
  BY WriteNext DEF WriteInv
<1>. QED
  BY <1>1, <1>2, <1>3, <1>4 DEF StreamInv

\* The inductive invariant holds throughout.
THEOREM StreamCorrect == Spec => []StreamInv
BY StreamInit, StreamStep, PTL DEF Spec

\* The state keeps its types; no read is given more bytes than it asked for.
THEOREM StreamTypeCorrect == Spec => []TypeOK
<1>1. StreamInv => TypeOK
  BY DEF StreamInv
<1>. QED
  BY <1>1, StreamCorrect, PTL

\* Whatever is cancelled, restored to read_ahead_, flushed or cut short, the callers are
\* given the device's bytes in order, none twice and none missing but those thrown away,
\* and a read with a termchar nothing beyond it.
THEOREM BytesInOrderAlways == Spec => []BytesInOrder
<1>1. StreamInv => BytesInOrder
  BY DEF StreamInv
<1>. QED
  BY <1>1, StreamCorrect, PTL

\* Between handlers the first request of each queue is active and the others wait.
THEOREM QueueIsServedAlways == Spec => []QueueIsServed
<1>1. StreamInv => QueueIsServed
  BY DEF StreamInv, ServedInv, QueueIsServed, Queues
<1>. QED
  BY <1>1, StreamCorrect, PTL

\* The bytes of two writes do not mix on the wire, and a write that succeeds is out as a whole.
THEOREM WritesDoNotMixAlways == Spec => []WritesDoNotMix
<1>1. StreamInv => WritesDoNotMix
  BY DEF StreamInv
<1>. QED
  BY <1>1, StreamCorrect, PTL

-----------------------------------------------------------------------------
\* Where the workers and the exchanges are; what is in the queues does not matter to them.
PlaceTypes ==
    /\ at \in [Workers -> Strands \cup {Free}]
    /\ call \in [Sessions -> {"none", "active", "cancelled", "recovering", "returned"}]
    /\ side \in [Sessions -> SocketOperations \cup {"none", "queued", "done"}]
    /\ expired \subseteq Sessions

\* What is posted to the strands is handlers.
TaskTypes == tasks \in [Strands -> Seq(Kinds)]

\* A worker that waits does so in the observer of a cancelled call.
WaitsForObserver(w) ==
    at[w] # Free =>
        \E s \in Sessions : at[w] = Main(s) /\ call[s] = "cancelled" /\ side[s] # "none"

\* No two workers wait in the same strand.
Alone(v, w) == at[w] # Free /\ at[v] = at[w] => v = w

\* The inductive invariant.
PoolInv ==
    /\ PlaceTypes
    /\ \A w \in Workers : WaitsForObserver(w)
    /\ \A v, w \in Workers : Alone(v, w)

\* Different sessions have different strands, and no strand is Free.
LEMMA StrandsDiffer ==
    /\ \A s, t \in Sessions : Main(s) = Main(t) => s = t
    /\ \A s, t \in Sessions : Main(s) # Side(t)
    /\ \A s \in Sessions : Main(s) \in Strands /\ Side(s) \in Strands
    /\ Free \notin Strands
BY FreeAssumption DEF Main, Side, Strands

\* Only cancel() makes a worker wait, and only in a strand nobody waits in; while
\* one waits no handler of that strand can end the call.
LEMMA PoolStep == PoolInv /\ [PoolNext]_poolVars => PoolInv'
<1> SUFFICES ASSUME PoolInv, [PoolNext]_poolVars PROVE PoolInv'
  OBVIOUS
<1> USE StrandsDiffer
<1>1. ASSUME NEW s \in Sessions, PoolEnvironment(s) \/ Timers(s) PROVE PoolInv'
  BY <1>1 DEF PoolInv, PlaceTypes, WaitsForObserver, Alone, PoolEnvironment, Timers, MakeCall,
              Terminate, DeadlinePasses, DeviceResponds, DeviceAnswers, RecoveryExpires,
              SideDeadlinePasses, Due
<1>2. ASSUME NEW s \in Sessions, NEW w \in Workers, OnTimer(w, s) PROVE PoolInv'
  BY <1>2 DEF PoolInv, PlaceTypes, WaitsForObserver, Alone, OnTimer, Take
<1>3. ASSUME NEW s \in Sessions, NEW w \in Workers, OnCancel(w, s) PROVE PoolInv'
  BY <1>3 DEF PoolInv, PlaceTypes, WaitsForObserver, Alone, OnCancel, Take
<1>4. ASSUME NEW s \in Sessions, NEW w \in Workers, Resume(w, s) PROVE PoolInv'
  BY <1>4 DEF PoolInv, PlaceTypes, WaitsForObserver, Alone, Resume
<1>5. ASSUME NEW s \in Sessions, NEW w \in Workers,
             OnFinish(w, s, "response") \/ OnFinish(w, s, "recovery")
      PROVE  PoolInv'
  BY <1>5 DEF PoolInv, PlaceTypes, WaitsForObserver, Alone, OnFinish, Take
<1>6. ASSUME NEW s \in Sessions, NEW w \in Workers,
             \/ OnSideEnqueue(w, s) \/ OnSideTimer(w, s) \/ OnSideCancel(w, s)
             \/ OnSideAnswer(w, s) \/ OnSideAborted(w, s)
      PROVE  PoolInv'
  BY <1>6 DEF PoolInv, PlaceTypes, WaitsForObserver, Alone, OnSideEnqueue, OnSideTimer,
              OnSideCancel, OnSideAnswer, OnSideAborted, SocketOperations
<1>7. CASE UNCHANGED poolVars
  BY <1>7 DEF PoolInv, PlaceTypes, WaitsForObserver, Alone, poolVars
<1> QED
  BY <1>1, <1>2, <1>3, <1>4, <1>5, <1>6, <1>7 DEF PoolNext, Handlers

\* A handler is appended to the queue of a strand, or the first one taken from it.
LEMMA TaskStep == TaskTypes /\ [PoolNext]_poolVars => TaskTypes'
<1> SUFFICES ASSUME TaskTypes, [PoolNext]_poolVars PROVE TaskTypes'
  OBVIOUS
<1>1. ASSUME NEW x \in Strands, NEW k \in Kinds
      PROVE  Append(tasks[x], k) \in Seq(Kinds)
  BY <1>1 DEF TaskTypes
<1>2. ASSUME NEW x \in Strands, tasks[x] # <<>>
      PROVE  Tail(tasks[x]) \in Seq(Kinds) /\ \A k \in Kinds : Append(Tail(tasks[x]), k) \in Seq(Kinds)
  <2>1. tasks[x] \in Seq(Kinds)
    BY <1>2 DEF TaskTypes
  <2>2. Tail(tasks[x]) \in Seq(Kinds)
    BY <1>2, <2>1
  <2> QED
    BY <2>2
<1>3. ASSUME NEW x \in Strands, NEW q \in Seq(Kinds), tasks' = [tasks EXCEPT ![x] = q]
      PROVE  TaskTypes'
  BY <1>3 DEF TaskTypes
<1>4. {"timer", "cancel", "response", "recovery", "enqueue", "answer", "aborted"} \subseteq Kinds
  BY DEF Kinds
<1>5. ASSUME NEW s \in Sessions, PoolEnvironment(s) \/ Timers(s) PROVE TaskTypes'
  <2>1. \/ tasks' = tasks
        \/ \E x \in Strands, k \in Kinds : tasks' = [tasks EXCEPT ![x] = Append(tasks[x], k)]
    BY <1>4, <1>5, StrandsDiffer
    DEF PoolEnvironment, Timers, MakeCall, Terminate, DeadlinePasses, DeviceResponds,
        DeviceAnswers, RecoveryExpires, SideDeadlinePasses, Due
  <2> QED
    BY <1>1, <1>3, <2>1 DEF TaskTypes
<1>6. ASSUME NEW s \in Sessions, NEW w \in Workers, Handlers(w, s) PROVE TaskTypes'
  <2> DEFINE m == Main(s)
             d == Side(s)
  <2>1. m \in Strands /\ d \in Strands /\ m # d
    BY StrandsDiffer
  <2>2. CASE OnCancel(w, s)
    <3>1. tasks[m] # <<>>
      BY <2>2 DEF OnCancel, Take
    <3>2. \/ tasks' = [tasks EXCEPT ![m] = Tail(tasks[m])]
          \/ tasks' = [[tasks EXCEPT ![m] = Tail(tasks[m])] EXCEPT ![d] = Append(tasks[d], "enqueue")]
      BY <2>1, <2>2 DEF OnCancel, Rest, TaskTypes
    <3> QED
      BY <1>1, <1>2, <1>4, <2>1, <3>1, <3>2 DEF TaskTypes
  <2>3. CASE ~ OnCancel(w, s)
    <3>1. \/ tasks' = tasks
          \/ \E x \in {m, d} :
                /\ tasks[x] # <<>>
                /\ \/ tasks' = [tasks EXCEPT ![x] = Tail(tasks[x])]
                   \/ \E k \in Kinds : tasks' = [tasks EXCEPT ![x] = Append(Tail(tasks[x]), k)]
      BY <1>4, <1>6, <2>3
      DEF Handlers, OnTimer, Resume, OnFinish, OnSideEnqueue, OnSideTimer, OnSideCancel,
          OnSideAnswer, OnSideAborted, Take, Rest
    <3> QED
      BY <1>2, <1>3, <2>1, <3>1 DEF TaskTypes
  <2> QED
    BY <2>2, <2>3
<1> QED
  BY <1>5, <1>6 DEF PoolNext, poolVars, TaskTypes

\* Queues, workers and exchanges keep their types.
THEOREM PoolTypeCorrect == PoolSpec => []PoolTypes
<1>1. PoolInit => PoolInv /\ TaskTypes
  <2>1. <<>> \in Seq(Kinds)
    OBVIOUS
  <2> QED
    BY <2>1 DEF PoolInit, PoolInv, PlaceTypes, TaskTypes, WaitsForObserver, Alone
<1>2. PoolInv /\ TaskTypes => PoolTypes
  BY DEF PoolInv, PlaceTypes, TaskTypes, PoolTypes
<1> QED
  BY <1>1, <1>2, PoolStep, TaskStep, PTL DEF PoolSpec

\* The inductive invariant holds throughout.
LEMMA PoolInvariant == PoolSpec => []PoolInv
<1>1. PoolInit => PoolInv
  BY DEF PoolInit, PoolInv, PlaceTypes, WaitsForObserver, Alone
<1> QED
  BY <1>1, PoolStep, PTL DEF PoolSpec

\* A session never holds two workers, and holds one only while the observer of its
\* cancelled call waits for the side channel (request_channel.cpp, cancel()).
THEOREM OneWorkerPerSessionAlways == PoolSpec => []OneWorkerPerSession
<1>1. PoolInv => OneWorkerPerSession
  BY DEF PoolInv, WaitsForObserver, Alone, OneWorkerPerSession
<1> QED
  BY <1>1, PoolInvariant, PTL

\* If no worker is free, waiting maps the workers one to one into the sessions.
LEMMA AllWaiting ==
    PoolInv /\ (\A w \in Workers : at[w] # Free) => Cardinality(Workers) <= Cardinality(Sessions)
<1> SUFFICES ASSUME PoolInv, \A w \in Workers : at[w] # Free
             PROVE  Cardinality(Workers) <= Cardinality(Sessions)
  OBVIOUS
<1> DEFINE f == [w \in Workers |-> CHOOSE s \in Sessions : at[w] = Main(s)]
<1>1. \A w \in Workers : f[w] \in Sessions /\ at[w] = Main(f[w])
  BY DEF PoolInv, WaitsForObserver
<1>2. f \in [Workers -> Sessions]
  BY <1>1
<1>3. \A v, w \in Workers : f[v] = f[w] => v = w
  BY <1>1 DEF PoolInv, Alone
<1>4. f \in Injection(Workers, Sessions)
  BY <1>2, <1>3 DEF Injection, IsInjective
<1> QED
  BY <1>4, FS_Injection, FiniteAssumption DEF ExistsInjection

\* With more workers than network sessions the pool always has one for the handlers
\* that end the waiting; clamp(..., 2, 4) in IoRuntime() does not ensure the premise.
THEOREM WorkerLeftAlways == PoolSpec => []WorkerLeft
<1>1. PoolInv => WorkerLeft
  <2> SUFFICES ASSUME PoolInv, Cardinality(Sessions) < Cardinality(Workers),
                      \A w \in Workers : at[w] # Free
               PROVE  FALSE
    BY DEF WorkerLeft
  <2>1. Cardinality(Workers) <= Cardinality(Sessions)
    BY AllWaiting
  <2>2. Cardinality(Workers) \in Nat /\ Cardinality(Sessions) \in Nat
    BY FS_CardinalityType, FiniteAssumption
  <2> QED
    BY <2>1, <2>2
<1> QED
  BY <1>1, PoolInvariant, PTL
=============================================================================
