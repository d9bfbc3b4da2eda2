------------------------ MODULE MessageSessionProofs ------------------------
(***************************************************************************)
(* Proofs about the five message sessions of MessageSession.tla, for any   *)
(* bounds on calls, writes, faults and the length of answers: bytes are    *)
(* delivered in order and none is forgotten, messages are not joined, a    *)
(* read gets the answer to the last write, a clear is announced, writes do *)
(* not mix, and a status byte answers its own request.                     *)
(*                                                                         *)
(* Answers are numbered, and so are their bytes; the order of the bytes is *)
(* that of the numbers.  The bytes known so far are in one of five places  *)
(* (Known).  Every step moves bytes from one place to the next, and the    *)
(* lemma Moves says in which ways; the invariants about bytes are proved   *)
(* from it and not action by action.                                       *)
(***************************************************************************)
EXTENDS MessageSession, WellFoundedInduction, TLAPS

\* The numbers of bytes of answers; Interrupted is none of them.
Byte == Nat \ {0}

\* The types of the flags, the buffers and the numbers.
FlagTypes ==
    /\ end \in BOOLEAN /\ termchar \in BOOLEAN /\ read_ahead_end \in BOOLEAN
    /\ usable \in BOOLEAN /\ tail \in BOOLEAN /\ clearing \in BOOLEAN /\ lost \in BOOLEAN
    /\ clear_requested \in BOOLEAN /\ clear_acknowledged \in BOOLEAN /\ clear_request_finished \in BOOLEAN

\* The bytes that are held, on their way or accounted for.
BufferTypes ==
    /\ data \in Seq(Byte) /\ read_ahead \in Seq(Byte) /\ output \in Seq(Nat)
    /\ got \in [bytes : Seq(Byte), write : Nat]
    /\ delivered \subseteq Byte /\ dropped \subseteq Byte /\ torn \subseteq Byte

\* A part of a message on its way to the device; an answer on the interrupt endpoint.
Part   == [write : Nat, last : BOOLEAN, failed : BOOLEAN]
Notice == [tag : Nat, request : Nat]

\* Message ids grow; the last one sent is behind the next.
IdTypes ==
    /\ next_message_id \in Nat /\ last_sent_message_id \in Nat /\ last_sent_message_id < next_message_id
    /\ writes \in 1 .. MaxWrites
    /\ ids \in [1 .. MaxWrites -> Nat]

\* Counters.
CountTypes == next_status_tag \in Nat /\ calls \in Nat /\ faults \in Nat

\* What is under way between host and device.
QueueTypes ==
    /\ input \in Seq(Part)
    /\ irq \in Seq(Notice)
    /\ stb \in [asked : Nat, answered : Nat]

\* Everything that is counted or queued.
NumberTypes == IdTypes /\ CountTypes /\ QueueTypes

\* The type invariant.
MessageTypes ==
    /\ kind \in Kinds /\ op \in {"pending", "aborted"}
    /\ pc \in {"idle", "reading", "writing", "recover", "clear", "complete", "stb"}
    /\ FlagTypes /\ BufferTypes /\ NumberTypes

\* The arguments of the call that is under way; only a read has bytes in data.
CallInv ==
    /\ pc = "reading" => call \in [what : {"read"}, count : Byte, termchar : BOOLEAN]
    /\ pc = "writing" => call \in [what : {"write", "trigger"}, left : Nat]
    /\ pc = "stb" => call \in [what : {"stb"}, tag : Nat, request : Nat]
    /\ data # <<>> => pc = "reading" \/ (pc = "recover" /\ kind = "usbtmc")

\* As long as a call may follow, its tag is a new one.
StatusInv ==
    /\ 2 <= next_status_tag
    /\ calls < MaxCalls => /\ next_status_tag <= calls + 2
                           /\ \A i \in DOMAIN irq : irq[i].tag < next_status_tag
    /\ pc = "stb" => /\ 2 <= call.tag
                     /\ \A i \in DOMAIN irq : irq[i].tag = call.tag => irq[i].request = call.request

\* The flags of a clear that is acknowledged belong to the recovery under way, or
\* were left behind.
AnnounceInv ==
    kind = "hislip" /\ clear_acknowledged => lost \/ (pc = "recover" /\ clearing)

\* A part that is not the last of its message and did not fail has been sent by the
\* write under way, or the recovery takes it back.
Unfinished ==
    \/ pc = "recover" /\ (kind = "usbtmc" => call.what = "write" /\ input[Len(input)].write = writes)
    \/ kind = "hislip" /\ pc = "writing" /\ call.what = "write" /\ call.left > 0 /\ input[Len(input)].write = writes
    \/ kind = "usbtmc" /\ ~usable

\* Where clearing and a USBTMC session that is not usable can be found; unless something
\* was lost, an unfinished message is Unfinished.
MixInv ==
    kind \in {"hislip", "usbtmc"} =>
        /\ kind = "usbtmc" => ~clearing /\ pc # "complete"
        /\ kind = "usbtmc" /\ ~usable => pc = "idle"
        /\ kind = "usbtmc" /\ pc = "writing" => call.left <= 1
        /\ \/ lost
           \/ /\ clearing => pc \in {"complete", "recover"}
              /\ input # <<>> /\ ~input[Len(input)].last /\ ~input[Len(input)].failed => Unfinished

\* What is held and not marked contains no end of a message, but for torn ones.
SeparateInv ==
    kind \in {"gpib", "hislip", "usbtmc"} =>
        /\ \A i \in 1..Len(data) : EndsMessage(data[i]) => data[i] \in torn \/ (end /\ i = Len(data))
        /\ \A i \in 1..Len(read_ahead) :
              EndsMessage(read_ahead[i]) => read_ahead[i] \in torn \/ (read_ahead_end /\ i = Len(read_ahead))
        /\ end => read_ahead = <<>>

\* Answers end with the end of a message, and only there one follows another; the
\* message Interrupted comes first.
OutputInv ==
    /\ \A i \in 2..Len(output) : output[i] # Interrupted
    /\ output # <<>> => output[Len(output)] # Interrupted /\ EndsMessage(output[Len(output)])
    /\ \A i, j \in 1..Len(output) :
          i < j /\ output[i] # Interrupted /\ AnswerOf(output[i]) # AnswerOf(output[j]) =>
              \E m \in i..(j - 1) : EndsMessage(output[m])

\* The writes that are or will be answered.
Awaited == {AnswerOf(b) : b \in Bytes(output)} \cup {input[i].write : i \in DOMAIN input}

\* Their ids are behind the last one sent, but for that of the last write.
IdInv ==
    \A w \in Awaited :
        /\ w \in 1..writes /\ ids[w] <= last_sent_message_id
        /\ ids[w] = last_sent_message_id =>
              w = writes \/ (pc = "writing" /\ call.what = "write" /\ call.left > 0)

\* HiSLIP holds only bytes of the answer to the last write.
OwnInv == kind = "hislip" => \A b \in ToSet(data) \cup ToSet(read_ahead) : AnswerOf(b) = writes

\* The bytes that have been sent or held: a byte is in one of these places.
Known == delivered \cup dropped \cup ToSet(data) \cup ToSet(read_ahead) \cup Bytes(output)

\* The bytes of S come before those of T.
Below(S, T) == \A a \in S, b \in T : a < b

\* The places follow one another: first what was delivered, then what is held, then what is
\* to arrive; a byte that was dropped is nowhere else.
OrderInv ==
    kind # "raw" =>
        /\ Wanting => read_ahead = <<>>
        /\ Increasing(got.bytes) /\ Increasing(data) /\ Increasing(read_ahead) /\ Increasing(output)
        /\ Below(ToSet(data), ToSet(read_ahead))
        /\ Below(ToSet(data) \cup ToSet(read_ahead), Bytes(output))
        /\ Below(delivered, ToSet(data) \cup ToSet(read_ahead) \cup Bytes(output))
        /\ dropped \cap (delivered \cup ToSet(data) \cup ToSet(read_ahead) \cup Bytes(output)) = {}

\* The last byte before answer w.
Floor(w) == (w - 1) * Length

\* A message is answered once: what is known comes before the answers still to come.
AnswerInv ==
    /\ \A b \in Known : b <= Floor(writes + 1)
    /\ \A i \in DOMAIN input : input[i].write \in 1..writes
    /\ pc = "writing" /\ call.what = "write" /\ call.left > 0 =>
          /\ \A b \in Known : b <= Floor(writes)
          /\ \A i \in DOMAIN input : input[i].last => input[i].write < writes
    /\ \A i \in DOMAIN input : input[i].last => \A b \in Known : b <= Floor(input[i].write)
    /\ \A i, j \in DOMAIN input : i < j /\ input[i].last /\ input[j].last => input[i].write < input[j].write

\* The inductive invariant.
MessageInv ==
    /\ MessageTypes /\ CallInv /\ StatusInv /\ StatusByteIsOwn
    /\ AnnounceInv /\ MixInv /\ WritesDoNotMix
    /\ SeparateInv /\ MessagesSeparate
    /\ OutputInv /\ IdInv /\ OwnInv /\ OwnAnswer
    /\ NothingForgotten /\ OrderInv /\ AnswerInv

-----------------------------------------------------------------------------
(* Sequences of bytes. *)

\* A set of natural numbers that is not empty has a least element.
LEMMA LeastElement ==
    ASSUME NEW S, S \subseteq Nat, S # {}
    PROVE  \E x \in S : \A y \in S : x <= y
<1>1. PICK R : R = OpToRel(<, Nat)
  BY Zenon
<1>2. IsWellFoundedOn(R, Nat)
  BY <1>1, NatLessThanWellFounded, Zenon
<1>3. PICK x \in S : \A y \in S : ~ (<<y, x>> \in R)
  BY <1>2, WFMin, Zenon
<1>4. R = {ss \in Nat \X Nat : ss[1] < ss[2]}
  BY <1>1, Zenon DEF OpToRel
<1>5. ASSUME NEW y \in S PROVE x <= y
  <2>1. <<y, x>> \in Nat \X Nat /\ ~(<<y, x>> \in R)
    BY <1>3
  <2>2. ~(y < x)
    BY <1>4, <2>1
  <2>. QED
    BY <2>2
<1>. QED
  BY <1>5

\* The elements of a sequence that is joined from two, or cut in two.
LEMMA JoinFacts ==
    ASSUME NEW S, NEW s \in Seq(S), NEW t \in Seq(S)
    PROVE  /\ s \o t \in Seq(S) /\ Len(s \o t) = Len(s) + Len(t)
           /\ \A i \in 1 .. Len(s) : (s \o t)[i] = s[i]
           /\ \A i \in 1 .. Len(t) : (s \o t)[Len(s) + i] = t[i]
OBVIOUS

\* The two parts into which a sequence is cut.
LEMMA CutFacts ==
    ASSUME NEW S, NEW s \in Seq(S), NEW n \in Nat, n <= Len(s)
    PROVE  /\ SubSeq(s, 1, n) \in Seq(S) /\ Len(SubSeq(s, 1, n)) = n
           /\ \A i \in 1 .. n : SubSeq(s, 1, n)[i] = s[i]
           /\ SubSeq(s, n + 1, Len(s)) \in Seq(S) /\ Len(SubSeq(s, n + 1, Len(s))) = Len(s) - n
           /\ \A i \in 1 .. Len(s) - n : SubSeq(s, n + 1, Len(s))[i] = s[n + i]
OBVIOUS

\* The elements of a sequence.
LEMMA SetOf ==
    ASSUME NEW S, NEW s \in Seq(S)
    PROVE  /\ ToSet(s) \subseteq S
           /\ ToSet(s) = {s[i] : i \in 1 .. Len(s)}
           /\ s = <<>> <=> ToSet(s) = {}
<1>1. DOMAIN s = 1 .. Len(s) /\ Len(s) \in Nat
  OBVIOUS
<1>2. ToSet(s) = {s[i] : i \in 1 .. Len(s)}
  BY <1>1, Zenon DEF ToSet
<1>3. ToSet(s) \subseteq S
  BY <1>2
<1>4. CASE s = <<>>
  BY <1>2, <1>4
<1>5. CASE s # <<>>
  <2>1. 1 \in 1 .. Len(s)
    BY <1>5
  <2>. QED
    BY <1>2, <1>5, <2>1
<1>. QED
  BY <1>2, <1>3, <1>4, <1>5

\* The empty one has none.
LEMMA SetOfEmpty == ToSet(<<>>) = {}
BY DEF ToSet

\* The elements of two sequences joined.
LEMMA JoinSet ==
    ASSUME NEW S, NEW s \in Seq(S), NEW t \in Seq(S)
    PROVE  ToSet(s \o t) = ToSet(s) \cup ToSet(t)
<1>. DEFINE c == s \o t
<1>1. /\ c \in Seq(S) /\ Len(c) = Len(s) + Len(t)
      /\ \A i \in 1 .. Len(s) : c[i] = s[i]
      /\ \A i \in 1 .. Len(t) : c[Len(s) + i] = t[i]
  BY JoinFacts
<1>2. Len(s) \in Nat /\ Len(t) \in Nat
  OBVIOUS
<1>. HIDE DEF c
<1>3. /\ ToSet(c) = {c[i] : i \in 1 .. Len(c)} /\ ToSet(s) = {s[i] : i \in 1 .. Len(s)}
      /\ ToSet(t) = {t[i] : i \in 1 .. Len(t)}
  BY <1>1, SetOf
<1>4. ASSUME NEW i \in 1 .. Len(c) PROVE c[i] \in ToSet(s) \cup ToSet(t)
  <2>1. CASE i <= Len(s)
    BY <1>1, <1>2, <1>3, <2>1
  <2>2. CASE i > Len(s)
    <3>1. i - Len(s) \in 1 .. Len(t) /\ i = Len(s) + (i - Len(s))
      BY <1>1, <1>2, <2>2
    <3>2. c[i] = t[i - Len(s)]
      BY <1>1, <3>1
    <3>. QED
      BY <1>3, <3>1, <3>2
  <2>. QED
    BY <1>1, <1>2, <2>1, <2>2
<1>5. ASSUME NEW i \in 1 .. Len(s) PROVE s[i] \in ToSet(c)
  BY <1>1, <1>2, <1>3
<1>6. ASSUME NEW i \in 1 .. Len(t) PROVE t[i] \in ToSet(c)
  <2>1. Len(s) + i \in 1 .. Len(c)
    BY <1>1, <1>2
  <2>. QED
    BY <1>1, <1>3, <2>1
<1>7. ToSet(c) = ToSet(s) \cup ToSet(t)
  BY <1>3, <1>4, <1>5, <1>6
<1>. QED
  BY <1>7 DEF c

\* The two parts of a sequence cut after n elements.
LEMMA CutSetOf ==
    ASSUME NEW S, NEW s \in Seq(S), NEW n \in Nat, n <= Len(s)
    PROVE  ToSet(s) = ToSet(SubSeq(s, 1, n)) \cup ToSet(SubSeq(s, n + 1, Len(s)))
<1>. DEFINE p == SubSeq(s, 1, n)
            r == SubSeq(s, n + 1, Len(s))
<1>1. /\ p \in Seq(S) /\ Len(p) = n /\ \A i \in 1 .. n : p[i] = s[i]
      /\ r \in Seq(S) /\ Len(r) = Len(s) - n /\ \A i \in 1 .. Len(s) - n : r[i] = s[n + i]
  BY CutFacts
<1>. HIDE DEF p, r
<1>2. /\ ToSet(p) = {p[i] : i \in 1 .. n} /\ ToSet(s) = {s[i] : i \in 1 .. Len(s)}
      /\ ToSet(r) = {r[i] : i \in 1 .. Len(s) - n} /\ Len(s) \in Nat
  <2>1. p \in Seq(S) /\ r \in Seq(S) /\ Len(s) \in Nat
    BY <1>1
  <2>2. \A q \in Seq(S) : ToSet(q) = {q[i] : i \in 1 .. Len(q)}
    BY SetOf, Zenon
  <2>3. ToSet(s) = {s[i] : i \in 1 .. Len(s)}
    BY SetOf, Zenon
  <2>. QED
    BY <1>1, <2>1, <2>2, <2>3
<1>3. ASSUME NEW i \in 1 .. Len(s) PROVE s[i] \in ToSet(p) \cup ToSet(r)
  <2>1. CASE i <= n
    BY <1>1, <1>2, <2>1
  <2>2. CASE i > n
    <3>1. i - n \in 1 .. Len(s) - n /\ i = n + (i - n)
      BY <1>2, <2>2
    <3>2. s[i] = r[i - n]
      BY <1>1, <3>1
    <3>. QED
      BY <1>2, <3>1, <3>2
  <2>. QED
    BY <1>2, <2>1, <2>2
<1>4. ASSUME NEW i \in 1 .. n PROVE p[i] \in ToSet(s)
  BY <1>1, <1>2
<1>5. ASSUME NEW i \in 1 .. Len(s) - n PROVE r[i] \in ToSet(s)
  <2>1. n + i \in 1 .. Len(s)
    BY <1>2
  <2>. QED
    BY <1>1, <1>2, <2>1
<1>6. ToSet(s) = ToSet(p) \cup ToSet(r)
  BY <1>2, <1>3, <1>4, <1>5
<1>. QED
  BY <1>6 DEF p, r

\* Joining and cutting sequences that go up.
LEMMA JoinIncreasing ==
    ASSUME NEW s \in Seq(Nat), NEW t \in Seq(Nat),
           Increasing(s), Increasing(t), Below(ToSet(s), ToSet(t))
    PROVE  Increasing(s \o t)
<1>. DEFINE c == s \o t
<1>1. /\ c \in Seq(Nat) /\ Len(c) = Len(s) + Len(t)
      /\ \A i \in 1 .. Len(s) : c[i] = s[i]
      /\ \A i \in 1 .. Len(t) : c[Len(s) + i] = t[i]
  BY JoinFacts
<1>2. Len(s) \in Nat /\ Len(t) \in Nat
  OBVIOUS
<1>. HIDE DEF c
<1>3. \A i \in 1 .. Len(s), j \in 1 .. Len(t) : s[i] < t[j]
  <2>1. ToSet(s) = {s[i] : i \in 1 .. Len(s)} /\ ToSet(t) = {t[i] : i \in 1 .. Len(t)}
    BY SetOf, Zenon
  <2>. QED
    BY <2>1, Zenon DEF Below
<1>4. ASSUME NEW i \in 1 .. Len(c), NEW j \in 1 .. Len(c), i < j PROVE c[i] < c[j]
  <2>1. CASE j <= Len(s)
    <3>1. i \in 1 .. Len(s) /\ j \in 1 .. Len(s)
      BY <1>2, <1>4, <2>1, <1>1
    <3>2. c[i] = s[i] /\ c[j] = s[j]
      BY <1>1, <3>1
    <3>. QED
      BY <1>4, <3>1, <3>2 DEF Increasing
  <2>2. CASE j > Len(s)
    <3>0. j - Len(s) \in 1 .. Len(t) /\ j = Len(s) + (j - Len(s))
      BY <1>1, <1>2, <2>2
    <3>1. j - Len(s) \in 1 .. Len(t) /\ j = Len(s) + (j - Len(s)) /\ c[j] = t[j - Len(s)]
      BY <1>1, <3>0
    <3>2. CASE i <= Len(s)
      <4>1. i \in 1 .. Len(s)
        BY <1>2, <3>2
      <4>2. c[i] = s[i]
        BY <1>1, <4>1
      <4>. QED
        BY <1>3, <3>1, <4>1, <4>2
    <3>3. CASE i > Len(s)
      <4>0. i - Len(s) \in 1 .. Len(t) /\ i = Len(s) + (i - Len(s))
        BY <1>1, <1>2, <3>3
      <4>1. i - Len(s) \in 1 .. Len(t) /\ i = Len(s) + (i - Len(s)) /\ c[i] = t[i - Len(s)]
        BY <1>1, <4>0
      <4>2. i - Len(s) < j - Len(s)
        BY <1>2, <1>4
      <4>. QED
        BY <3>1, <4>1, <4>2 DEF Increasing
    <3>. QED
      BY <1>1, <1>2, <3>2, <3>3
  <2>. QED
    BY <1>1, <1>2, <2>1, <2>2
<1>5. Increasing(c)
  BY <1>4 DEF Increasing
<1>. QED
  BY <1>5 DEF c

\* What is cut from increasing bytes is increasing, and the parts follow one another.
LEMMA CutIncreasing ==
    ASSUME NEW s \in Seq(Nat), NEW n \in Nat, n <= Len(s), Increasing(s)
    PROVE  /\ Increasing(SubSeq(s, 1, n)) /\ Increasing(SubSeq(s, n + 1, Len(s)))
           /\ Below(ToSet(SubSeq(s, 1, n)), ToSet(SubSeq(s, n + 1, Len(s))))
<1>. DEFINE p == SubSeq(s, 1, n)
            r == SubSeq(s, n + 1, Len(s))
<1>1. /\ p \in Seq(Nat) /\ Len(p) = n /\ \A i \in 1 .. n : p[i] = s[i]
      /\ r \in Seq(Nat) /\ Len(r) = Len(s) - n /\ \A i \in 1 .. Len(s) - n : r[i] = s[n + i]
  BY CutFacts, ZenonT(60)
<1>. HIDE DEF p, r
<1>2. Len(s) \in Nat
  OBVIOUS
<1>3. Increasing(p)
  <2>. SUFFICES ASSUME NEW i \in 1 .. n, NEW j \in 1 .. n, i < j PROVE p[i] < p[j]
    BY <1>1 DEF Increasing
  <2>1. i \in 1 .. Len(s) /\ j \in 1 .. Len(s)
    BY <1>2
  <2>. QED
    BY <1>1, <2>1 DEF Increasing
<1>4. Increasing(r)
  <2>. SUFFICES ASSUME NEW i \in 1 .. Len(s) - n, NEW j \in 1 .. Len(s) - n, i < j PROVE r[i] < r[j]
    BY <1>1 DEF Increasing
  <2>1. n + i \in 1 .. Len(s) /\ n + j \in 1 .. Len(s) /\ n + i < n + j
    BY <1>2
  <2>. QED
    BY <1>1, <2>1 DEF Increasing
<1>5. Below(ToSet(p), ToSet(r))
  <2>. SUFFICES ASSUME NEW i \in 1 .. n, NEW j \in 1 .. Len(s) - n PROVE p[i] < r[j]
    <3>1. p \in Seq(Nat) /\ r \in Seq(Nat)
      BY <1>1
    <3>2. \A q \in Seq(Nat) : ToSet(q) = {q[i] : i \in 1 .. Len(q)}
      BY SetOf, Zenon
    <3>3. ToSet(p) = {p[i] : i \in 1 .. n} /\ ToSet(r) = {r[i] : i \in 1 .. Len(s) - n}
      BY <1>1, <3>2
    <3>. QED
      BY <3>3, Zenon DEF Below
  <2>1. i \in 1 .. Len(s) /\ n + j \in 1 .. Len(s) /\ i < n + j
    BY <1>2
  <2>. QED
    BY <1>1, <2>1 DEF Increasing
<1>. QED
  BY <1>3, <1>4, <1>5 DEF p, r


-----------------------------------------------------------------------------
(* Answers, and how far a read goes. *)

\* Products with Length: w answers before answer w + 1.
LEMMA FloorFacts ==
    ASSUME NEW w \in Nat, 1 <= w
    PROVE  /\ Floor(w) \in Nat
           /\ Floor(w + 1) = Floor(w) + Length
           /\ \A v \in Nat : w < v => Floor(w) + Length <= Floor(v)
<1>1. Length \in Nat /\ 1 <= Length
  BY LengthAssumption
<1>2. Floor(w) \in Nat /\ Floor(w + 1) = Floor(w) + Length
  BY <1>1 DEF Floor
<1>3. ASSUME NEW v \in Nat, w < v PROVE Floor(w) + Length <= Floor(v)
  <2>1. PICK k \in Nat : v = w + 1 + k
    <3>1. v - w - 1 \in Nat /\ v = w + 1 + (v - w - 1)
      BY <1>3
    <3>. QED
      BY <3>1
  <2>2. Floor(v) = Floor(w) + Length + k * Length
    BY <1>1, <2>1 DEF Floor
  <2>3. k * Length \in Nat
    BY <1>1
  <2>. QED
    BY <1>1, <1>2, <2>2, <2>3
<1>. QED
  BY <1>2, <1>3

\* Division by Length.
LEMMA Division ==
    ASSUME NEW q \in Nat, NEW x \in Nat, q * Length <= x, x < q * Length + Length
    PROVE  x \div Length = q
<1>1. Length \in Nat /\ 1 <= Length
  BY LengthAssumption
<1>2. PICK d \in Int : d = x \div Length
  BY <1>1
<1>3. d * Length <= x /\ x < d * Length + Length
  BY <1>1, <1>2
<1>4. CASE d < q
  <2>1. PICK k \in Nat : q = d + 1 + k
    <3>1. q - d - 1 \in Nat /\ q = d + 1 + (q - d - 1)
      BY <1>4
    <3>. QED
      BY <3>1
  <2>2. q * Length = d * Length + Length + k * Length /\ k * Length \in Nat /\ d * Length \in Int
    BY <1>1, <2>1
  <2>. QED
    BY <1>1, <1>3, <2>2
<1>5. CASE d > q
  <2>1. PICK k \in Nat : d = q + 1 + k
    <3>1. d - q - 1 \in Nat /\ d = q + 1 + (d - q - 1)
      BY <1>5
    <3>. QED
      BY <3>1
  <2>2. d * Length = q * Length + Length + k * Length /\ k * Length \in Nat /\ q * Length \in Int
    BY <1>1, <2>1
  <2>. QED
    BY <1>1, <1>3, <2>2
<1>. QED
  BY <1>2, <1>4, <1>5

\* The bytes of an answer.
LEMMA AnswerFacts ==
    ASSUME NEW w \in Nat, 1 <= w, NEW a, a = Answer(w)
    PROVE  /\ a \in Seq(Byte) /\ Len(a) = Length
           /\ Increasing(a)
           /\ \A b \in ToSet(a) : Floor(w) < b /\ b <= Floor(w + 1) /\ AnswerOf(b) = w
           /\ \A i \in 1 .. Length : AnswerOf(a[i]) = w
           /\ EndsMessage(a[Length])
<1>1. Length \in Nat /\ 1 <= Length
  BY LengthAssumption
<1>2. Floor(w) \in Nat /\ Floor(w + 1) = Floor(w) + Length
  BY FloorFacts
<1>3. a = [i \in 1 .. Length |-> Floor(w) + i]
  BY DEF Answer, Floor
<1>4. a \in Seq(Byte) /\ Len(a) = Length /\ \A i \in 1 .. Length : a[i] = Floor(w) + i
  BY <1>1, <1>2, <1>3 DEF Byte
<1>5. Increasing(a)
  BY <1>1, <1>2, <1>4 DEF Increasing
<1>6. ASSUME NEW i \in 1 .. Length PROVE AnswerOf(Floor(w) + i) = w
  <2>1. w - 1 \in Nat /\ Floor(w) + i - 1 \in Nat
    BY <1>1, <1>2
  <2>2. (w - 1) * Length <= Floor(w) + i - 1 /\ Floor(w) + i - 1 < (w - 1) * Length + Length
    BY <1>1, <1>2 DEF Floor
  <2>3. (Floor(w) + i - 1) \div Length = w - 1
    BY <2>1, <2>2, Division
  <2>. QED
    BY <1>1, <1>2, <2>3 DEF AnswerOf
<1>7. EndsMessage(a[Length])
  <2>1. a[Length] = w * Length
    BY <1>1, <1>2, <1>4 DEF Floor
  <2>2. w * Length \in Nat /\ (w * Length) \div Length = w
    <3>1. w * Length \in Nat
      BY <1>1
    <3>. QED
      BY <1>1, <3>1, Division
  <2>3. (w * Length) % Length = 0
    BY <1>1, <2>2
  <2>. QED
    BY <2>1, <2>3 DEF EndsMessage
<1>8. \A b \in ToSet(a) : \E i \in 1 .. Length : b = Floor(w) + i
  <2>1. ToSet(a) = {a[i] : i \in 1 .. Len(a)}
    BY <1>4, SetOf
  <2>. QED
    BY <1>4, <2>1
<1>9. \A b \in ToSet(a) : Floor(w) < b /\ b <= Floor(w + 1) /\ AnswerOf(b) = w
  BY <1>1, <1>2, <1>6, <1>8
<1>. QED
  BY <1>4, <1>5, <1>6, <1>7, <1>9

\* The loops of read() stop at the first byte that ends the read.
LEMMA PrefixFacts ==
    ASSUME NEW s \in Seq(Byte), NEW room \in Nat, NEW tc \in BOOLEAN, NEW n, n = Prefix(s, room, tc)
    PROVE  /\ n \in 0 .. Len(s) /\ n <= room
           /\ n < Len(s) => n = room \/ (n > 0 /\ tc /\ IsTermchar(s[n]))
<1>. DEFINE stops == {i \in 1 .. Len(s) : tc /\ IsTermchar(s[i])}
            P(m) == /\ m <= room /\ \A i \in stops : m <= i
                    /\ m \in stops \cup {Len(s), room}
<1>0. Len(s) \in Nat
  OBVIOUS
<1>1. PICK m \in stops \cup {Len(s), room} : \A y \in stops \cup {Len(s), room} : m <= y
  <2>1. stops \cup {Len(s), room} \subseteq Nat /\ stops \cup {Len(s), room} # {}
    BY <1>0
  <2>. QED
    BY <2>1, LeastElement, Zenon
<1>2. m \in 0 .. Len(s) /\ P(m)
  BY <1>0, <1>1
<1>3. n = CHOOSE k \in 0 .. Len(s) : P(k)
  BY DEF Prefix
<1>4. n \in 0 .. Len(s) /\ P(n)
  <2>. HIDE DEF P
  <2>. QED
    BY <1>2, <1>3
<1>. QED
  BY <1>0, <1>4


-----------------------------------------------------------------------------
(* What the actions do to the bytes. *)

USE DEF sessionVars, idVars, clearVars, readVars, deviceVars, historyVars

\* The bytes stay where they are.
Stays == UNCHANGED <<data, read_ahead, output, got, delivered, dropped>>

\* A read takes what was read ahead.
TakesUp ==
    /\ data = <<>>
    /\ \E n \in 0 .. Len(read_ahead) :
          /\ data' = SubSeq(read_ahead, 1, n)
          /\ read_ahead' = SubSeq(read_ahead, n + 1, Len(read_ahead))
    /\ UNCHANGED <<output, got, delivered, dropped>>

\* The first k bytes of the instrument arrive, n of which the read takes.
Arrive(k, n) ==
    /\ Wanting
    /\ Interrupted \notin ToSet(SubSeq(output, 1, k))
    /\ data' = data \o SubSeq(SubSeq(output, 1, k), 1, n)
    /\ read_ahead' = read_ahead \o SubSeq(SubSeq(output, 1, k), n + 1, k)
    /\ output' = SubSeq(output, k + 1, Len(output))
    /\ UNCHANGED <<got, delivered, dropped>>

\* The first n bytes of a read go to the caller.
Delivers(n) ==
    /\ kind # "raw" => n = Len(data)
    /\ got' = [bytes |-> SubSeq(data, 1, n), write |-> writes]
    /\ delivered' = delivered \cup ToSet(SubSeq(data, 1, n))
    /\ read_ahead' = read_ahead \o SubSeq(data, n + 1, Len(data))
    /\ data' = <<>>
    /\ UNCHANGED <<output, dropped>>

\* A read gives its bytes back; what was on its way may be lost.
GivesBack ==
    /\ data' = <<>> /\ read_ahead' = data \o read_ahead
    /\ output' \in Suffixes(output)
    /\ dropped' = dropped \cup (Bytes(output) \ Bytes(output'))
    /\ UNCHANGED <<got, delivered>>

\* Bytes are given up.
GivesUp ==
    /\ data' \in {data, <<>>} /\ read_ahead' \in {read_ahead, <<>>}
    /\ output' \in Suffixes(output)
    /\ dropped' = dropped \cup (ToSet(data) \ ToSet(data')) \cup (ToSet(read_ahead) \ ToSet(read_ahead'))
                          \cup (Bytes(output) \ Bytes(output'))
    /\ UNCHANGED <<got, delivered>>

\* A suffix is what is left after some elements.
LEMMA SuffixFacts ==
    ASSUME NEW s \in Seq(Nat), NEW t \in Suffixes(s)
    PROVE  /\ t \in Seq(Nat)
           /\ \E n \in Nat : n <= Len(s) /\ t = SubSeq(s, n + 1, Len(s))
<1>0. Len(s) \in Nat
  OBVIOUS
<1>1. CASE t = <<>>
  <2>1. SubSeq(s, Len(s) + 1, Len(s)) = <<>>
    BY <1>0
  <2>. QED
    BY <1>0, <1>1, <2>1
<1>2. ASSUME NEW l \in 1 .. Len(s), t = SubSeq(s, l, Len(s)) PROVE t \in Seq(Nat) /\ \E n \in Nat : n <= Len(s) /\ t = SubSeq(s, n + 1, Len(s))
  <2>1. l - 1 \in Nat /\ l - 1 <= Len(s) /\ (l - 1) + 1 = l
    BY <1>0
  <2>2. t = SubSeq(s, (l - 1) + 1, Len(s))
    BY <1>2, <2>1
  <2>3. t \in Seq(Nat)
    BY <1>2
  <2>. QED
    BY <2>1, <2>2, <2>3
<1>. QED
  BY <1>1, <1>2 DEF Suffixes

\* All of a sequence and nothing of it are suffixes.
LEMMA SuffixSelf ==
    ASSUME NEW s \in Seq(Nat) PROVE s \in Suffixes(s) /\ <<>> \in Suffixes(s)
<1>1. CASE s = <<>>
  BY <1>1 DEF Suffixes
<1>2. CASE s # <<>>
  <2>1. 1 \in 1 .. Len(s) /\ s = SubSeq(s, 1, Len(s))
    BY <1>2
  <2>. QED
    BY <2>1 DEF Suffixes
<1>. QED
  BY <1>1, <1>2

\* Bytes leaves out Interrupted.
LEMMA BytesOf ==
    ASSUME NEW s \in Seq(Nat)
    PROVE  Bytes(s) \subseteq Byte /\ Bytes(<<>>) = {}
<1>1. ToSet(s) \subseteq Nat /\ ToSet(<<>>) = {}
  BY SetOf, SetOfEmpty
<1>. QED
  BY <1>1 DEF Bytes, Byte, Interrupted

\* The buffers between calls.
LEMMA Moves ==
    ASSUME MessageTypes, CallInv, [Next]_vars
    PROVE  \/ Stays
           \/ TakesUp
           \/ \E k \in 1 .. Len(output) : \E n \in 0 .. k : Receive /\ Arrive(k, n)
           \/ \E n \in 0 .. Len(data) : FinishRead /\ Delivers(n)
           \/ GivesBack
           \/ GivesUp
           \/ Execute
<1>0. /\ data \in Seq(Byte) /\ read_ahead \in Seq(Byte) /\ output \in Seq(Nat)
      /\ output \in Suffixes(output) /\ <<>> \in Suffixes(output)
      /\ Bytes(<<>>) = {} /\ ToSet(<<>>) = {}
      /\ Len(data) \in Nat /\ Len(read_ahead) \in Nat /\ Len(output) \in Nat
  <2>1. data \in Seq(Byte) /\ read_ahead \in Seq(Byte) /\ output \in Seq(Nat)
    BY DEF MessageTypes, BufferTypes
  <2>. QED
    BY <2>1, SuffixSelf, BytesOf, SetOfEmpty
<1>a. <<>> \o read_ahead = read_ahead /\ data \o <<>> = data
  BY <1>0
<1>1. ASSUME NEW count \in Counts, NEW tc \in BOOLEAN, BeginRead(count, tc) PROVE TakesUp
  <2>1. data = <<>>
    BY <1>1 DEF BeginRead, Begin, CallInv
  <2>2. count \in Nat
    BY CountsAssumption
  <2>3. CASE kind = "raw"
    <3>1. PICK n : n = IF count < Len(read_ahead) THEN count ELSE Len(read_ahead)
      OBVIOUS
    <3>2. n \in 0 .. Len(read_ahead)
      BY <1>0, <2>2, <3>1
    <3>3. /\ data' = SubSeq(read_ahead, 1, n)
          /\ read_ahead' = SubSeq(read_ahead, n + 1, Len(read_ahead))
          /\ UNCHANGED <<output, got, delivered, dropped>>
      BY <1>1, <2>3, <3>1 DEF BeginRead
    <3>. QED
      BY <2>1, <3>2, <3>3 DEF TakesUp
  <2>4. CASE kind # "raw"
    <3>1. PICK n : n = Prefix(read_ahead, count, tc)
      OBVIOUS
    <3>2. n \in 0 .. Len(read_ahead)
      BY <1>0, <2>2, <3>1, PrefixFacts
    <3>3. /\ data' = SubSeq(read_ahead, 1, n)
          /\ read_ahead' = SubSeq(read_ahead, n + 1, Len(read_ahead))
          /\ UNCHANGED <<output, got, delivered, dropped>>
      BY <1>1, <2>4, <3>1 DEF BeginRead
    <3>. QED
      BY <2>1, <3>2, <3>3 DEF TakesUp
  <2>. QED
    BY <2>3, <2>4
<1>2. ASSUME Receive PROVE \E k \in 1 .. Len(output) : \E n \in 0 .. k : Receive /\ Arrive(k, n)
  <2>1. PICK k \in 1 .. Len(output) :
          LET chunk == SubSeq(output, 1, k)
              room == call.count - Len(data)
              n == IF kind = "raw" THEN k ELSE Prefix(chunk, room, call.termchar)
              rest == SubSeq(chunk, n + 1, k)
          IN  /\ Interrupted \notin ToSet(chunk)
              /\ data' = data \o SubSeq(chunk, 1, n)
              /\ read_ahead' = read_ahead \o rest
              /\ output' = SubSeq(output, k + 1, Len(output))
    BY <1>2 DEF Receive
  <2>2. PICK chunk : chunk = SubSeq(output, 1, k)
    OBVIOUS
  <2>3. PICK n : n = IF kind = "raw" THEN k ELSE Prefix(chunk, call.count - Len(data), call.termchar)
    OBVIOUS
  <2>4. Wanting /\ UNCHANGED <<got, delivered, dropped>>
    BY <1>2 DEF Receive
  <2>5. n \in 0 .. k
    <3>1. CASE kind = "raw"
      BY <1>0, <2>3, <3>1
    <3>2. CASE kind # "raw"
      <4>1. chunk \in Seq(Nat) /\ Len(chunk) = k
        BY <1>0, <2>2
      <4>2. chunk \in Seq(Byte)
        <5>1. ASSUME NEW i \in 1 .. Len(chunk) PROVE chunk[i] \in Byte
          <6>1. ToSet(chunk) = {chunk[j] : j \in 1 .. Len(chunk)}
            BY <4>1, SetOf
          <6>2. chunk[i] \in Nat /\ chunk[i] # Interrupted
            BY <2>1, <2>2, <4>1, <6>1
          <6>. QED
            BY <6>2 DEF Byte, Interrupted
        <5>. QED
          BY <4>1, <5>1
      <4>3. call.count - Len(data) \in Nat /\ call.termchar \in BOOLEAN
        BY <1>0, <2>4, <3>2 DEF Wanting, CallInv, Byte
      <4>4. n = Prefix(chunk, call.count - Len(data), call.termchar)
        BY <2>3, <3>2
      <4>5. n \in 0 .. Len(chunk)
        BY <4>2, <4>3, <4>4, PrefixFacts
      <4>. QED
        BY <4>1, <4>5
    <3>. QED
      BY <3>1, <3>2
  <2>6. Arrive(k, n)
    BY <2>1, <2>2, <2>3, <2>4 DEF Arrive
  <2>. QED
    BY <1>2, <2>5, <2>6
<1>3. ASSUME Reject PROVE GivesUp
  <2>1. CASE Head(output) # Interrupted
    BY <1>0, <1>3, <2>1 DEF Reject, GivesUp, Return
  <2>2. CASE Head(output) = Interrupted
    BY <1>0, <1>3, <2>2 DEF Reject, GivesUp, Return
  <2>. QED
    BY <2>1, <2>2
<1>4. ASSUME FinishRead PROVE GivesBack \/ \E n \in 0 .. Len(data) : FinishRead /\ Delivers(n)
  <2>1. CASE op = "aborted"
    BY <1>0, <1>4, <2>1 DEF FinishRead, Restore, PushFront, Return, GivesBack
  <2>2. CASE op # "aborted"
    <3>. DEFINE stops == {i \in 1 .. Len(data) : kind = "raw" /\ call.termchar /\ IsTermchar(data[i])}
                n == IF stops = {} THEN Len(data) ELSE CHOOSE i \in stops : \A j \in stops : i <= j
    <3>3. n \in 0 .. Len(data) /\ (kind # "raw" => n = Len(data))
      <4>1. CASE stops = {}
        BY <1>0, <4>1
      <4>2. CASE stops # {}
        <5>1. stops \subseteq Nat /\ stops \subseteq 0 .. Len(data) /\ kind = "raw"
          BY <1>0, <4>2
        <5>2. \E x \in stops : \A y \in stops : x <= y
          BY <4>2, <5>1, LeastElement
        <5>3. n \in stops
          <6>. HIDE DEF stops
          <6>. QED
            BY <4>2, <5>2
        <5>. QED
          BY <5>1, <5>3
      <4>. QED
        BY <4>1, <4>2
    <3>4. Delivers(n)
      BY <1>0, <1>4, <2>2, <3>3 DEF FinishRead, Return, Delivers
    <3>. HIDE DEF n
    <3>. QED
      BY <1>4, <3>3, <3>4
  <2>. QED
    BY <2>1, <2>2
<1>5. ASSUME ReadError PROVE GivesBack \/ GivesUp
  BY <1>0, <1>5 DEF ReadError, Restore, PushFront, Return, GivesBack, GivesUp
<1>6. ASSUME NEW received, NEW coming \in Suffixes(output), RequestAsyncClear(received, coming)
      PROVE  output' \in Suffixes(output) /\ dropped' = dropped \cup (Bytes(output) \ Bytes(output'))
  BY <1>0, <1>6 DEF RequestAsyncClear, DeviceClear
<1>7. ASSUME ReadCancelled PROVE GivesBack \/ Stays
  <2>1. CASE kind = "hislip"
    BY <1>0, <1>6, <1>7, <2>1 DEF ReadCancelled, Restore, PushFront, GivesBack
  <2>2. CASE kind # "hislip"
    BY <1>0, <1>7, <2>2 DEF ReadCancelled, Restore, PushFront, Return, GivesBack, Stays
  <2>. QED
    BY <2>1, <2>2
<1>8. ASSUME CompleteCancelRecovery PROVE GivesUp
  BY <1>0, <1>8 DEF CompleteCancelRecovery, EmptyReadAhead, DeviceClear, GiveUpAll, Return, GivesUp
<1>9. ASSUME CancelRecoveryFails PROVE Stays
  BY <1>9 DEF CancelRecoveryFails, Return, Stays, CallInv
<1>10. ASSUME RecoverCancelledTransfer PROVE GivesUp
  <2>1. output' \in Suffixes(output)
    BY <1>0, <1>10 DEF RecoverCancelledTransfer, AbortBulkIn, AbortBulkOut, DeviceClear
  <2>2. /\ data' = <<>> /\ UNCHANGED <<got, delivered>>
        /\ \/ read_ahead' = <<>> /\ GiveUpAll
           \/ /\ UNCHANGED <<read_ahead, output>>
              /\ dropped' = dropped \cup ToSet(data)
    BY <1>10 DEF RecoverCancelledTransfer, EmptyReadAhead, Return
  <2>. QED
    BY <1>0, <2>1, <2>2 DEF GiveUpAll, GivesUp
<1>11. ASSUME NEW what \in {"write", "trigger"}, NEW parts \in 1 .. 2, BeginWrite(what, parts) PROVE GivesUp
  BY <1>0, <1>11 DEF BeginWrite, EmptyReadAhead, GivesUp
<1>12. ASSUME WriteCancelled PROVE GivesUp
  <2>1. data = <<>>
    BY <1>12 DEF WriteCancelled, CallInv
  <2>2. output' \in Suffixes(output) /\ dropped' = dropped \cup (Bytes(output) \ Bytes(output'))
    <3>1. CASE kind = "hislip"
      BY <1>0, <1>6, <1>12, <3>1 DEF WriteCancelled
    <3>2. CASE kind # "hislip"
      BY <1>0, <1>12, <3>2 DEF WriteCancelled
    <3>. QED
      BY <3>1, <3>2
  <2>3. data' = data /\ read_ahead' = read_ahead /\ UNCHANGED <<got, delivered>>
    BY <1>12, <2>1 DEF WriteCancelled, Return
  <2>. QED
    BY <2>2, <2>3 DEF GivesUp
<1>13. ASSUME SendPart \/ WriteError \/ FinishWrite PROVE Stays
  BY <1>13 DEF SendPart, WriteError, FinishWrite, Return, Stays, CallInv
<1>14. ASSUME BeginClear \/ BeginReadStb \/ InterruptIn \/ ReadStbCancelled \/ Terminate \/ ServiceRequest PROVE Stays
  BY <1>14 DEF BeginClear, BeginReadStb, InterruptIn, ReadStbCancelled, Terminate, ServiceRequest, Return, Stays, CallInv
<1>15. ASSUME AnnounceClear PROVE GivesUp
  BY <1>0, <1>15 DEF AnnounceClear, DeviceClear, GivesUp
<1>16. ASSUME ClearSucceeds PROVE GivesUp
  <2>1. data = <<>>
    BY <1>16 DEF ClearSucceeds, CallInv
  <2>. QED
    BY <1>0, <1>16, <2>1 DEF ClearSucceeds, DeviceClear, EmptyReadAhead, Return, GivesUp
<1>17. ASSUME ClearFails PROVE GivesUp
  <2>1. data = <<>>
    BY <1>17 DEF ClearFails, CallInv
  <2>2. output' \in Suffixes(output) /\ dropped' = dropped \cup (Bytes(output) \ Bytes(output'))
    <3>1. CASE pc = "complete" /\ op = "aborted"
      BY <1>0, <1>6, <1>17, <3>1 DEF ClearFails
    <3>2. CASE ~(pc = "complete" /\ op = "aborted")
      BY <1>0, <1>17, <3>2 DEF ClearFails
    <3>. QED
      BY <3>1, <3>2
  <2>3. data' = data /\ read_ahead' = read_ahead /\ UNCHANGED <<got, delivered>>
    BY <1>17, <2>1 DEF ClearFails, Return
  <2>. QED
    BY <2>2, <2>3 DEF GivesUp
<1>18. ASSUME ClearTail \/ Flush PROVE GivesUp
  BY <1>0, <1>18 DEF ClearTail, Flush, EmptyReadAhead, GivesUp
<1>19. ASSUME UNCHANGED vars PROVE Stays
  BY <1>19 DEF vars, Stays
<1>. QED
  BY <1>1, <1>2, <1>3, <1>4, <1>5, <1>7, <1>8, <1>9, <1>10, <1>11, <1>12, <1>13, <1>14, <1>15, <1>16,
     <1>17, <1>18, <1>19 DEF Next


\* What arrives is c: the read takes p, r is read ahead.
Chunk(k, n, c, p, r) ==
    /\ c = SubSeq(output, 1, k) /\ Len(c) = k /\ (\A i \in 1 .. k : c[i] = output[i])
    /\ p = SubSeq(c, 1, n) /\ r = SubSeq(c, n + 1, k)
    /\ Len(p) = n /\ (\A i \in 1 .. n : p[i] = c[i])
    /\ Len(r) = k - n /\ (\A i \in 1 .. k - n : r[i] = c[n + i])
    /\ data' = data \o p /\ read_ahead' = read_ahead \o r
    /\ data' \in Seq(Byte) /\ read_ahead' \in Seq(Byte) /\ output' \in Seq(Nat)
    /\ ToSet(data') = ToSet(data) \cup ToSet(p)
    /\ ToSet(read_ahead') = ToSet(read_ahead) \cup ToSet(r)
    /\ ToSet(c) = ToSet(p) \cup ToSet(r)
    /\ Bytes(output) = ToSet(p) \cup ToSet(r) \cup Bytes(output')

\* What arrives is a chunk of the output, cut in two.
LEMMA ArriveFacts ==
    ASSUME MessageTypes, NEW k \in 1 .. Len(output), NEW n \in 0 .. k, Arrive(k, n)
    PROVE  \E c, p, r \in Seq(Byte) : Chunk(k, n, c, p, r)
<1>1. data \in Seq(Byte) /\ read_ahead \in Seq(Byte) /\ output \in Seq(Nat)
  BY DEF MessageTypes, BufferTypes
<1>2. k \in Nat /\ k <= Len(output) /\ n \in Nat /\ n <= k
  BY <1>1
<1>3. PICK c \in Seq(Nat) : c = SubSeq(output, 1, k)
  BY <1>1, <1>2, CutFacts
<1>4. Len(c) = k /\ \A i \in 1 .. k : c[i] = output[i]
  BY <1>1, <1>2, <1>3, CutFacts, ZenonT(60)
<1>5. c \in Seq(Byte)
  <2>1. ToSet(c) = {c[j] : j \in 1 .. Len(c)}
    BY SetOf
  <2>2. \A i \in 1 .. Len(c) : c[i] \in Nat /\ c[i] # Interrupted
    BY <1>3, <2>1 DEF Arrive
  <2>3. \A i \in 1 .. Len(c) : c[i] \in Byte
    BY <2>2 DEF Byte, Interrupted
  <2>. QED
    BY <2>3
<1>6. PICK p \in Seq(Byte) : p = SubSeq(c, 1, n)
  BY <1>2, <1>4, <1>5, CutFacts
<1>7. PICK r \in Seq(Byte) : r = SubSeq(c, n + 1, Len(c))
  BY <1>2, <1>4, <1>5, CutFacts
<1>8. /\ Len(p) = n /\ (\A i \in 1 .. n : p[i] = c[i])
      /\ Len(r) = k - n /\ (\A i \in 1 .. k - n : r[i] = c[n + i])
  <2>1. n <= Len(c)
    BY <1>2, <1>4
  <2>2. /\ Len(SubSeq(c, 1, n)) = n /\ (\A i \in 1 .. n : SubSeq(c, 1, n)[i] = c[i])
        /\ Len(SubSeq(c, n + 1, Len(c))) = Len(c) - n
        /\ \A i \in 1 .. Len(c) - n : SubSeq(c, n + 1, Len(c))[i] = c[n + i]
    BY <1>2, <1>5, <2>1, CutFacts, SMTT(60)
  <2>. QED
    BY <1>4, <1>6, <1>7, <2>2, ZenonT(60)
<1>9. data' = data \o p /\ read_ahead' = read_ahead \o r /\ output' = SubSeq(output, k + 1, Len(output))
  BY <1>3, <1>4, <1>6, <1>7 DEF Arrive
<1>10. data \o p \in Seq(Byte) /\ read_ahead \o r \in Seq(Byte) /\ SubSeq(output, k + 1, Len(output)) \in Seq(Nat)
  BY <1>1, <1>2, JoinFacts, CutFacts
<1>11. ToSet(data \o p) = ToSet(data) \cup ToSet(p) /\ ToSet(read_ahead \o r) = ToSet(read_ahead) \cup ToSet(r)
  BY <1>1, JoinSet
<1>12. ToSet(c) = ToSet(p) \cup ToSet(r)
  <2>1. n <= Len(c)
    BY <1>2, <1>4
  <2>2. ToSet(c) = ToSet(SubSeq(c, 1, n)) \cup ToSet(SubSeq(c, n + 1, Len(c)))
    BY <1>2, <1>5, <2>1, CutSetOf, Zenon
  <2>. QED
    BY <1>6, <1>7, <2>2, Zenon
<1>13. ToSet(output) = ToSet(c) \cup ToSet(output')
  <2>1. ToSet(output) = ToSet(SubSeq(output, 1, k)) \cup ToSet(SubSeq(output, k + 1, Len(output)))
    BY <1>1, <1>2, CutSetOf, Zenon
  <2>. QED
    BY <1>3, <1>9, <2>1, Zenon
<1>14. Interrupted \notin ToSet(c)
  BY <1>3 DEF Arrive
<1>15. Bytes(output) = ToSet(p) \cup ToSet(r) \cup Bytes(output')
  BY <1>12, <1>13, <1>14 DEF Bytes
<1>16. r = SubSeq(c, n + 1, k)
  BY <1>4, <1>7
<1>17. /\ data' \in Seq(Byte) /\ read_ahead' \in Seq(Byte) /\ output' \in Seq(Nat)
       /\ ToSet(data') = ToSet(data) \cup ToSet(p)
       /\ ToSet(read_ahead') = ToSet(read_ahead) \cup ToSet(r)
  BY <1>9, <1>10, <1>11, Zenon
<1>18. Chunk(k, n, c, p, r)
  BY <1>3, <1>4, <1>6, <1>8, <1>9, <1>12, <1>15, <1>16, <1>17, Zenon DEF Chunk
<1>. QED
  BY <1>5, <1>18, Zenon

\* What the instrument does: it answers the first whole message, after bytes or nothing or
\* after the message Interrupted.
LEMMA ExecuteFacts ==
    ASSUME MessageTypes, AnswerInv, Execute
    PROVE  \E i \in 1 .. Len(input) : \E w \in 1 .. writes : \E pre, a \in Seq(Nat) :
              /\ i \in DOMAIN input /\ w = input[i].write /\ input[i].last
              /\ input' = SubSeq(input, i + 1, Len(input))
              /\ a = Answer(w) /\ a \in Seq(Byte) /\ output' = pre \o a
              /\ output' \in Seq(Nat) /\ Bytes(output') = Bytes(pre) \cup ToSet(a)
              /\ \/ pre = output /\ dropped' = dropped
                 \/ pre \in {<<>>, <<Interrupted>>} /\ Bytes(pre) = {} /\ dropped' = dropped \cup Bytes(output)
              /\ UNCHANGED <<data, read_ahead, got, delivered>>
<1>0. input \in Seq(Part) /\ output \in Seq(Nat) /\ writes \in Nat
  BY BoundAssumption DEF MessageTypes, BufferTypes, NumberTypes, IdTypes, QueueTypes
<1>1. PICK i \in 1 .. Len(input) :
        /\ input[i].last
        /\ input' = SubSeq(input, i + 1, Len(input))
        /\ \/ output' = output \o Answer(input[i].write) /\ UNCHANGED dropped
           \/ /\ output' = (IF kind = "hislip" THEN <<Interrupted>> ELSE <<>>) \o Answer(input[i].write)
              /\ dropped' = dropped \cup Bytes(output)
  BY DEF Execute
<1>2. i \in DOMAIN input /\ input[i].write \in 1 .. writes
  BY <1>0, <1>1 DEF AnswerInv
<1>3. PICK w \in 1 .. writes : w = input[i].write
  BY <1>2
<1>4. w \in Nat /\ 1 <= w
  BY <1>0
<1>5. PICK a \in Seq(Byte) : a = Answer(w)
  BY <1>4, AnswerFacts
<1>6. a \in Seq(Nat)
  BY DEF Byte
<1>7. UNCHANGED <<data, read_ahead, got, delivered>>
  BY DEF Execute
<1>8. ASSUME NEW pre \in Seq(Nat), output' = pre \o a
      PROVE  output' \in Seq(Nat) /\ Bytes(output') = Bytes(pre) \cup ToSet(a)
  <2>1. ToSet(pre \o a) = ToSet(pre) \cup ToSet(a) /\ pre \o a \in Seq(Nat)
    BY <1>6, JoinSet, JoinFacts
  <2>2. ToSet(a) \subseteq Byte
    BY SetOf
  <2>. QED
    BY <1>8, <2>1, <2>2 DEF Bytes, Byte, Interrupted
<1>9. CASE output' = output \o Answer(input[i].write) /\ UNCHANGED dropped
  BY <1>0, <1>1, <1>2, <1>3, <1>5, <1>6, <1>7, <1>8, <1>9
<1>10. CASE /\ output' = (IF kind = "hislip" THEN <<Interrupted>> ELSE <<>>) \o Answer(input[i].write)
            /\ dropped' = dropped \cup Bytes(output)
  <2>1. PICK pre \in Seq(Nat) : pre \in {<<>>, <<Interrupted>>} /\ output' = pre \o a
    <3>1. CASE kind = "hislip"
      <4>1. <<Interrupted>> \in Seq(Nat)
        BY DEF Interrupted
      <4>2. output' = <<Interrupted>> \o a
        BY <1>3, <1>5, <1>10, <3>1, Zenon
      <4>. QED
        BY <4>1, <4>2, Zenon
    <3>2. CASE kind # "hislip"
      <4>1. <<>> \in Seq(Nat)
        OBVIOUS
      <4>2. output' = <<>> \o a
        BY <1>3, <1>5, <1>10, <3>2, Zenon
      <4>. QED
        BY <4>1, <4>2, Zenon
    <3>. QED
      BY <3>1, <3>2
  <2>2. Bytes(pre) = {}
    BY <2>1 DEF Bytes, ToSet
  <2>. QED
    BY <1>1, <1>2, <1>3, <1>5, <1>6, <1>7, <1>8, <1>10, <2>1, <2>2
<1>. QED
  BY <1>1, <1>9, <1>10

\* Of what is known, nothing is forgotten, and only the instrument adds to it.
LEMMA MoveFacts ==
    ASSUME MessageTypes, CallInv, AnswerInv, [Next]_vars
    PROVE  /\ data' \in Seq(Byte) /\ read_ahead' \in Seq(Byte) /\ output' \in Seq(Nat)
           /\ got' \in [bytes : Seq(Byte), write : Nat] /\ delivered' \subseteq Byte /\ dropped' \subseteq Byte
           /\ Known' = Known \/ (Execute /\ \E w \in 1 .. writes : Known' = Known \cup ToSet(Answer(w)))
<1>0. /\ data \in Seq(Byte) /\ read_ahead \in Seq(Byte) /\ output \in Seq(Nat)
      /\ got \in [bytes : Seq(Byte), write : Nat] /\ delivered \subseteq Byte /\ dropped \subseteq Byte
      /\ writes \in Nat
  BY BoundAssumption DEF MessageTypes, BufferTypes, NumberTypes, IdTypes, QueueTypes
<1>1. /\ ToSet(data) \subseteq Byte /\ ToSet(read_ahead) \subseteq Byte /\ Bytes(output) \subseteq Byte
      /\ ToSet(<<>>) = {} /\ Bytes(<<>>) = {} /\ Len(data) \in Nat /\ Len(read_ahead) \in Nat
  BY <1>0, SetOf, BytesOf, SetOfEmpty
<1>2. CASE Stays
  BY <1>0, <1>2 DEF Stays, Known
<1>3. CASE TakesUp
  <2>1. PICK n \in 0 .. Len(read_ahead) :
          /\ data' = SubSeq(read_ahead, 1, n)
          /\ read_ahead' = SubSeq(read_ahead, n + 1, Len(read_ahead))
    BY <1>3 DEF TakesUp
  <2>2. n \in Nat /\ n <= Len(read_ahead)
    BY <1>1
  <2>3. data' \in Seq(Byte) /\ read_ahead' \in Seq(Byte)
    BY <1>0, <2>1, <2>2, CutFacts
  <2>4. ToSet(read_ahead) = ToSet(data') \cup ToSet(read_ahead')
    <3>1. ToSet(read_ahead) = ToSet(SubSeq(read_ahead, 1, n)) \cup ToSet(SubSeq(read_ahead, n + 1, Len(read_ahead)))
      BY <1>0, <2>2, CutSetOf, Zenon
    <3>. QED
      BY <2>1, <3>1, Zenon
  <2>. QED
    BY <1>0, <1>1, <1>3, <2>3, <2>4 DEF TakesUp, Known
<1>4. ASSUME NEW k \in 1 .. Len(output), NEW n \in 0 .. k, Arrive(k, n)
      PROVE  /\ data' \in Seq(Byte) /\ read_ahead' \in Seq(Byte) /\ output' \in Seq(Nat)
             /\ Known' = Known
  <2>1. PICK c, p, r \in Seq(Byte) : Chunk(k, n, c, p, r)
    BY <1>4, ArriveFacts
  <2>. QED
    BY <1>4, <2>1 DEF Arrive, Chunk, Known
<1>5. ASSUME NEW n \in 0 .. Len(data), Delivers(n)
      PROVE  /\ read_ahead' \in Seq(Byte)
             /\ got' \in [bytes : Seq(Byte), write : Nat] /\ delivered' \subseteq Byte
             /\ Known' = Known
  <2>1. n \in Nat /\ n <= Len(data)
    BY <1>1
  <2>2. PICK p \in Seq(Byte) : p = SubSeq(data, 1, n)
    BY <1>0, <2>1, CutFacts
  <2>3. PICK r \in Seq(Byte) : r = SubSeq(data, n + 1, Len(data))
    BY <1>0, <2>1, CutFacts
  <2>4. ToSet(data) = ToSet(p) \cup ToSet(r)
    <3>1. ToSet(data) = ToSet(SubSeq(data, 1, n)) \cup ToSet(SubSeq(data, n + 1, Len(data)))
      BY <1>0, <2>1, CutSetOf, Zenon
    <3>. QED
      BY <2>2, <2>3, <3>1, Zenon
  <2>5. read_ahead \o r \in Seq(Byte) /\ ToSet(read_ahead \o r) = ToSet(read_ahead) \cup ToSet(r)
    BY <1>0, JoinFacts, JoinSet
  <2>6. ToSet(p) \subseteq Byte
    BY SetOf
  <2>. QED
    BY <1>0, <1>1, <1>5, <2>2, <2>3, <2>4, <2>5, <2>6 DEF Delivers, Known
<1>6. ASSUME output' \in Suffixes(output) PROVE output' \in Seq(Nat) /\ Bytes(output') \subseteq Bytes(output)
  <2>1. PICK n \in Nat : n <= Len(output) /\ output' = SubSeq(output, n + 1, Len(output))
    BY <1>0, <1>6, SuffixFacts
  <2>2. ToSet(output) = ToSet(SubSeq(output, 1, n)) \cup ToSet(output')
    <3>1. ToSet(output) = ToSet(SubSeq(output, 1, n)) \cup ToSet(SubSeq(output, n + 1, Len(output)))
      BY <1>0, <2>1, CutSetOf, Zenon
    <3>. QED
      BY <2>1, <3>1, Zenon
  <2>. QED
    BY <1>0, <1>6, <2>2, SuffixFacts DEF Bytes
<1>7. CASE GivesBack
  <2>1. data \o read_ahead \in Seq(Byte) /\ ToSet(data \o read_ahead) = ToSet(data) \cup ToSet(read_ahead)
    BY <1>0, JoinFacts, JoinSet
  <2>. QED
    BY <1>0, <1>1, <1>6, <1>7, <2>1 DEF GivesBack, Known
<1>8. CASE GivesUp
  <2>1. data' \in Seq(Byte) /\ ToSet(data') \subseteq ToSet(data)
    <3>1. CASE data' = data
      BY <1>0, <3>1, Zenon
    <3>2. CASE data' = <<>>
      BY <1>1, <3>2
    <3>. QED
      BY <1>8, <3>1, <3>2 DEF GivesUp
  <2>2. read_ahead' \in Seq(Byte) /\ ToSet(read_ahead') \subseteq ToSet(read_ahead)
    <3>1. CASE read_ahead' = read_ahead
      BY <1>0, <3>1, Zenon
    <3>2. CASE read_ahead' = <<>>
      BY <1>1, <3>2
    <3>. QED
      BY <1>8, <3>1, <3>2 DEF GivesUp
  <2>3. /\ output' \in Seq(Nat) /\ Bytes(output') \subseteq Bytes(output) /\ got' = got /\ delivered' = delivered
        /\ dropped' = dropped \cup (ToSet(data) \ ToSet(data')) \cup (ToSet(read_ahead) \ ToSet(read_ahead'))
                              \cup (Bytes(output) \ Bytes(output'))
    BY <1>6, <1>8 DEF GivesUp
  <2>4. dropped' \subseteq Byte
    BY <1>0, <1>1, <2>3
  <2>5. Known' = Known
    BY <2>1, <2>2, <2>3 DEF Known
  <2>. QED
    BY <1>0, <2>1, <2>2, <2>3, <2>4, <2>5
<1>9. CASE Execute
  <2>1. PICK w \in 1 .. writes, a \in Seq(Byte) :
          /\ a = Answer(w) /\ output' \in Seq(Nat)
          /\ \/ Bytes(output') = Bytes(output) \cup ToSet(a) /\ dropped' = dropped
             \/ Bytes(output') = ToSet(a) /\ dropped' = dropped \cup Bytes(output)
          /\ UNCHANGED <<data, read_ahead, got, delivered>>
    BY <1>9, ExecuteFacts
  <2>2. Known' = Known \cup ToSet(Answer(w))
    BY <2>1 DEF Known
  <2>3. dropped' \subseteq Byte
    BY <1>0, <1>1, <2>1
  <2>. QED
    BY <1>0, <1>9, <2>1, <2>2, <2>3
<1>10. CASE \E k \in 1 .. Len(output) : \E n \in 0 .. k : Receive /\ Arrive(k, n)
  <2>1. /\ data' \in Seq(Byte) /\ read_ahead' \in Seq(Byte) /\ output' \in Seq(Nat)
        /\ Known' = Known
    BY <1>4, <1>10
  <2>2. UNCHANGED <<got, delivered, dropped>>
    BY <1>10 DEF Arrive
  <2>. QED
    BY <1>0, <2>1, <2>2
<1>11. CASE \E n \in 0 .. Len(data) : FinishRead /\ Delivers(n)
  <2>1. /\ read_ahead' \in Seq(Byte)
        /\ got' \in [bytes : Seq(Byte), write : Nat] /\ delivered' \subseteq Byte
        /\ Known' = Known
    BY <1>5, <1>11
  <2>2. data' = <<>> /\ UNCHANGED <<output, dropped>>
    BY <1>11 DEF Delivers
  <2>. QED
    BY <1>0, <2>1, <2>2
<1>. QED
  BY <1>2, <1>3, <1>7, <1>8, <1>9, <1>10, <1>11, Moves


-----------------------------------------------------------------------------
(* Types, and the arguments of the call. *)

\* A session keeps its protocol.
LEMMA KindStays ==
    ASSUME [Next]_vars PROVE kind' = kind
BY DEF Next, vars, BeginRead, Receive, Reject, FinishRead, ReadError, ReadCancelled, CompleteCancelRecovery,
       CancelRecoveryFails, RecoverCancelledTransfer, BeginWrite, SendPart, WriteCancelled, WriteError, FinishWrite,
       BeginClear, AnnounceClear, ClearSucceeds, ClearFails, ClearTail, Flush, BeginReadStb, InterruptIn,
       ReadStbCancelled, Terminate, Execute, ServiceRequest

\* The flags keep their types.
LEMMA FlagStep ==
    ASSUME FlagTypes, [Next]_vars PROVE FlagTypes'
<1>. USE DEF FlagTypes
<1>1. CASE \E count \in Counts, tc \in BOOLEAN : BeginRead(count, tc)
  BY <1>1 DEF BeginRead
<1>2. CASE Receive
  BY <1>2 DEF Receive, MarkEnd, EndsMessage
<1>3. CASE Reject \/ FinishRead \/ ReadError
  BY <1>3, ZenonT(60) DEF Reject, FinishRead, ReadError, Restore, RestoresEnd, Return, Fault
<1>4. CASE ReadCancelled
  BY <1>4, ZenonT(60) DEF ReadCancelled, Restore, RestoresEnd, Return, RequestAsyncClear
<1>5. CASE CompleteCancelRecovery \/ CancelRecoveryFails \/ RecoverCancelledTransfer
  BY <1>5, ZenonT(60) DEF CompleteCancelRecovery, CancelRecoveryFails, RecoverCancelledTransfer, ResetAfterClear, EmptyReadAhead, Return
<1>6. CASE \E what \in {"write", "trigger"}, parts \in 1 .. 2 : BeginWrite(what, parts)
  BY <1>6, ZenonT(60) DEF BeginWrite, EmptyReadAhead
<1>7. CASE SendPart \/ WriteError \/ FinishWrite
  BY <1>7, ZenonT(60) DEF SendPart, WriteError, FinishWrite, Return, TakeId
<1>8. CASE WriteCancelled
  BY <1>8, ZenonT(60) DEF WriteCancelled, Return, RequestAsyncClear, TakeId
<1>9. CASE BeginClear \/ AnnounceClear \/ ClearSucceeds \/ ClearTail \/ Flush
  <2>1. CASE BeginClear \/ AnnounceClear
    BY <2>1, ZenonT(60) DEF BeginClear, AnnounceClear, EmptyReadAhead
  <2>2. CASE ClearSucceeds
    BY <2>2, ZenonT(60) DEF ClearSucceeds, ResetAfterClear, EmptyReadAhead, Return
  <2>3. CASE ClearTail \/ Flush
    BY <2>3, ZenonT(60) DEF ClearTail, Flush, EmptyReadAhead, Return
  <2>. QED
    BY <1>9, <2>1, <2>2, <2>3
<1>10. CASE ClearFails
  BY <1>10 DEF ClearFails, RequestAsyncClear, Return
<1>11. CASE BeginReadStb \/ InterruptIn \/ ReadStbCancelled \/ Terminate \/ Execute \/ ServiceRequest
  <2>1. CASE InterruptIn
    BY <2>1 DEF InterruptIn, Return
  <2>2. CASE Execute
    BY <2>2 DEF Execute
  <2>3. CASE BeginReadStb
    BY <2>3, Zenon DEF BeginReadStb
  <2>4. CASE Terminate \/ ServiceRequest
    BY <2>4, ZenonT(60) DEF Terminate, ServiceRequest
  <2>5. CASE ReadStbCancelled
    BY <2>5 DEF ReadStbCancelled, Return
  <2>. QED
    BY <1>11, <2>1, <2>2, <2>3, <2>4, <2>5
<1>12. CASE UNCHANGED vars
  BY <1>12 DEF vars
<1>. QED
  BY <1>1, <1>2, <1>3, <1>4, <1>5, <1>6, <1>7, <1>8, <1>9, <1>10, <1>11, <1>12 DEF Next

\* So do the control states.
LEMMA ControlStep ==
    ASSUME MessageTypes, [Next]_vars
    PROVE  /\ op' \in {"pending", "aborted"}
           /\ pc' \in {"idle", "reading", "writing", "recover", "clear", "complete", "stb"}
BY ZenonT(60) DEF MessageTypes, Next, vars, BeginRead, Receive, Reject, FinishRead, ReadError, ReadCancelled, CompleteCancelRecovery,
       CancelRecoveryFails, RecoverCancelledTransfer, BeginWrite, SendPart, WriteCancelled, WriteError, FinishWrite,
       BeginClear, AnnounceClear, ClearSucceeds, ClearFails, ClearTail, Flush, BeginReadStb, InterruptIn,
       ReadStbCancelled, Terminate, Execute, ServiceRequest, Return

\* Message ids grow only.
LEMMA IdStep ==
    ASSUME MessageTypes, [Next]_vars PROVE IdTypes'
<1>0. IdTypes /\ MaxWrites \in Nat
  BY BoundAssumption DEF MessageTypes, NumberTypes
<1>1. ASSUME UNCHANGED <<idVars, ids, writes>> PROVE IdTypes'
  BY <1>0, <1>1 DEF IdTypes
<1>2. ASSUME TakeId, UNCHANGED writes PROVE IdTypes'
  BY <1>0, <1>2 DEF TakeId, IdTypes
<1>3. ASSUME ResetAfterClear, UNCHANGED <<ids, writes>> PROVE IdTypes'
  BY <1>0, <1>3 DEF ResetAfterClear, FirstId, IdTypes
<1>4. CASE \E what \in {"write", "trigger"}, parts \in 1 .. 2 : BeginWrite(what, parts)
  BY <1>0, <1>4 DEF BeginWrite, IdTypes
<1>5. CASE SendPart \/ WriteCancelled \/ WriteError
  BY <1>2, <1>5 DEF SendPart, WriteCancelled, WriteError
<1>6. CASE CompleteCancelRecovery \/ ClearSucceeds
  BY <1>1, <1>3, <1>6 DEF CompleteCancelRecovery, ClearSucceeds
<1>7. CASE (\E count \in Counts, tc \in BOOLEAN : BeginRead(count, tc)) \/ Receive \/ Reject \/ FinishRead
           \/ ReadError \/ ReadCancelled \/ CancelRecoveryFails \/ RecoverCancelledTransfer
  BY <1>1, <1>7, ZenonT(60) DEF BeginRead, Receive, Reject, FinishRead, ReadError, ReadCancelled, CancelRecoveryFails,
                    RecoverCancelledTransfer
<1>8. CASE FinishWrite \/ BeginClear \/ AnnounceClear \/ ClearFails \/ ClearTail \/ Flush \/ BeginReadStb
           \/ InterruptIn \/ ReadStbCancelled \/ Terminate \/ Execute \/ ServiceRequest
  BY <1>1, <1>8 DEF FinishWrite, BeginClear, AnnounceClear, ClearFails, ClearTail, Flush, BeginReadStb, InterruptIn,
                    ReadStbCancelled, Terminate, Execute, ServiceRequest
<1>. QED
  BY <1>1, <1>4, <1>5, <1>6, <1>7, <1>8 DEF Next, vars

\* The counters keep their types.
LEMMA CountStep ==
    ASSUME MessageTypes, [Next]_vars PROVE CountTypes'
<1>0. CountTypes
  BY DEF MessageTypes, NumberTypes
<1>a. Fault => faults' \in Nat
  BY <1>0 DEF Fault, CountTypes
<1>b. Begin => calls' \in Nat
  BY <1>0 DEF Begin, CountTypes
<1>c. ASSUME UNCHANGED next_status_tag, UNCHANGED calls \/ Begin, UNCHANGED faults \/ Fault PROVE CountTypes'
  BY <1>0, <1>a, <1>b, <1>c DEF CountTypes
<1>1. CASE (\E count \in Counts, tc \in BOOLEAN : BeginRead(count, tc)) \/ Receive \/ Reject \/ FinishRead
           \/ ReadError \/ ReadCancelled \/ CompleteCancelRecovery \/ CancelRecoveryFails \/ RecoverCancelledTransfer
  BY <1>c, <1>1, ZenonT(60) DEF BeginRead, Receive, Reject, FinishRead, ReadError, ReadCancelled, CompleteCancelRecovery,
                    CancelRecoveryFails, RecoverCancelledTransfer
<1>2. CASE (\E what \in {"write", "trigger"}, parts \in 1 .. 2 : BeginWrite(what, parts))
           \/ SendPart \/ WriteCancelled \/ WriteError \/ FinishWrite
  BY <1>c, <1>2 DEF BeginWrite, SendPart, WriteCancelled, WriteError, FinishWrite
<1>3. CASE BeginClear \/ AnnounceClear \/ ClearSucceeds \/ ClearFails \/ ClearTail \/ Flush
  BY <1>c, <1>3 DEF BeginClear, AnnounceClear, ClearSucceeds, ClearFails, ClearTail, Flush
<1>4. CASE BeginReadStb
  BY <1>0, <1>4 DEF BeginReadStb, Begin, NextStatusTag, CountTypes
<1>5. CASE InterruptIn \/ ReadStbCancelled \/ Terminate \/ Execute \/ ServiceRequest
  BY <1>c, <1>5 DEF InterruptIn, ReadStbCancelled, Terminate, Execute, ServiceRequest
<1>. QED
  BY <1>0, <1>1, <1>2, <1>3, <1>4, <1>5 DEF Next, vars, CountTypes

\* How the queue of parts changes.
LEMMA ReceivedFacts ==
    ASSUME MessageTypes, CallInv, pc = "writing", NEW whole \in BOOLEAN, NEW failed \in BOOLEAN
    PROVE  Received(whole, failed) \in Seq(Part)
<1>0. input \in Seq(Part) /\ writes \in Nat
  BY BoundAssumption DEF MessageTypes, NumberTypes, IdTypes, QueueTypes
<1>1. [write |-> writes, last |-> whole /\ call.left = 1, failed |-> failed] \in Part
  <2>1. (whole /\ call.left = 1) \in BOOLEAN
    OBVIOUS
  <2>. QED
    BY <1>0, <2>1 DEF Part
<1>2. PICK x \in Part : x = [write |-> writes, last |-> whole /\ call.left = 1, failed |-> failed]
  BY <1>1
<1>3. Received(whole, failed) \in {input, Append(input, x)}
  BY <1>2 DEF Received
<1>. QED
  BY <1>0, <1>3

\* A part of a message leaves the session; failed tells whether with an error.
Sends(failed) == IF failed THEN WriteError ELSE SendPart \/ WriteCancelled

\* What the device has received grows by a part, is executed, is cleared or loses what
\* an abort takes back.
LEMMA InputSteps ==
    ASSUME MessageTypes, CallInv, [Next]_vars
    PROVE  \/ input' = input
           \/ input' = <<>>
           \/ \E whole, failed \in BOOLEAN : Sends(failed) /\ input' = Received(whole, failed)
           \/ RecoverCancelledTransfer /\ \E n \in 0 .. Len(input) : input' = SubSeq(input, 1, n)
           \/ Execute
<1>1. ASSUME NEW received, NEW coming, RequestAsyncClear(received, coming)
      PROVE  input' = received \/ input' = <<>>
  BY <1>1 DEF RequestAsyncClear, DeviceClear
<1>2. CASE WriteCancelled
  <2>1. PICK received \in {input, Received(TRUE, FALSE), Received(kind \in {"hislip", "vxi11"}, FALSE)} :
          RequestAsyncClear(received, output) \/ input' = received
    BY <1>2 DEF WriteCancelled
  <2>2. input' = received \/ input' = <<>>
    BY <1>1, <2>1
  <2>3. received = input \/ \E whole \in BOOLEAN : received = Received(whole, FALSE)
    <3>1. (kind \in {"hislip", "vxi11"}) \in BOOLEAN
      OBVIOUS
    <3>. QED
      BY <2>1, <3>1
  <2>4. Sends(FALSE)
    BY <1>2 DEF Sends
  <2>. QED
    BY <2>2, <2>3, <2>4
<1>3. CASE SendPart
  <2>1. Sends(FALSE) /\ input' = Received(TRUE, FALSE)
    BY <1>3 DEF SendPart, Sends
  <2>. QED
    BY <2>1
<1>4. CASE WriteError
  <2>1. Sends(TRUE) /\ input' \in {input, Received(TRUE, TRUE), Received(FALSE, TRUE)}
    BY <1>4 DEF WriteError, Sends
  <2>. QED
    BY <2>1
<1>5. CASE ReadCancelled
  BY <1>1, <1>5 DEF ReadCancelled
<1>6. CASE ClearFails
  BY <1>1, <1>6 DEF ClearFails
<1>7. CASE RecoverCancelledTransfer
  BY <1>7 DEF RecoverCancelledTransfer, AbortBulkIn, AbortBulkOut, DeviceClear
<1>8. CASE (\E count \in Counts, tc \in BOOLEAN : BeginRead(count, tc)) \/ Receive \/ Reject \/ FinishRead
           \/ ReadError \/ CompleteCancelRecovery \/ CancelRecoveryFails
  BY <1>8 DEF BeginRead, Receive, Reject, FinishRead, ReadError, CompleteCancelRecovery, CancelRecoveryFails, DeviceClear
<1>9. CASE (\E what \in {"write", "trigger"}, parts \in 1 .. 2 : BeginWrite(what, parts)) \/ FinishWrite
           \/ BeginClear \/ AnnounceClear \/ ClearSucceeds \/ ClearTail \/ Flush
  BY <1>9 DEF BeginWrite, FinishWrite, BeginClear, AnnounceClear, ClearSucceeds, ClearTail, Flush, DeviceClear
<1>10. CASE BeginReadStb \/ InterruptIn \/ ReadStbCancelled \/ Terminate \/ ServiceRequest \/ UNCHANGED vars
  BY <1>10 DEF BeginReadStb, InterruptIn, ReadStbCancelled, Terminate, ServiceRequest, vars
<1>. QED
  BY <1>2, <1>3, <1>4, <1>5, <1>6, <1>7, <1>8, <1>9, <1>10 DEF Next

\* What is left of the queue when its end is taken back.
LEMMA HeadFacts ==
    ASSUME NEW s \in Seq(Part), NEW n \in 0 .. Len(s)
    PROVE  /\ SubSeq(s, 1, n) \in Seq(Part) /\ Len(SubSeq(s, 1, n)) = n
           /\ \A i \in 1 .. n : SubSeq(s, 1, n)[i] = s[i]
OBVIOUS

\* Status requests and what interrupt-IN brings.
LEMMA NoticeSteps ==
    ASSUME [Next]_vars
    PROVE  (UNCHANGED <<irq, stb>>) \/ BeginReadStb \/ ServiceRequest \/ InterruptIn
<1>1. CASE (\E count \in Counts, tc \in BOOLEAN : BeginRead(count, tc)) \/ Receive \/ Reject \/ FinishRead
           \/ ReadError \/ ReadCancelled \/ CompleteCancelRecovery \/ CancelRecoveryFails \/ RecoverCancelledTransfer
  BY <1>1, ZenonT(60) DEF BeginRead, Receive, Reject, FinishRead, ReadError, ReadCancelled, CompleteCancelRecovery,
              CancelRecoveryFails, RecoverCancelledTransfer
<1>2. CASE (\E what \in {"write", "trigger"}, parts \in 1 .. 2 : BeginWrite(what, parts)) \/ SendPart \/ WriteCancelled
           \/ WriteError \/ FinishWrite \/ BeginClear \/ AnnounceClear \/ ClearSucceeds \/ ClearFails \/ ClearTail \/ Flush
  BY <1>2 DEF BeginWrite, SendPart, WriteCancelled, WriteError, FinishWrite, BeginClear, AnnounceClear, ClearSucceeds,
              ClearFails, ClearTail, Flush
<1>3. CASE ReadStbCancelled \/ Terminate \/ Execute \/ UNCHANGED vars
  BY <1>3 DEF ReadStbCancelled, Terminate, Execute, vars
<1>. QED
  BY <1>1, <1>2, <1>3 DEF Next

\* The queues keep their types.
LEMMA QueueStep ==
    ASSUME MessageTypes, CallInv, [Next]_vars PROVE QueueTypes'
<1>0. /\ input \in Seq(Part) /\ irq \in Seq(Notice) /\ stb \in [asked : Nat, answered : Nat]
      /\ next_status_tag \in Nat /\ calls \in Nat
  BY DEF MessageTypes, NumberTypes, QueueTypes, CountTypes
<1>1. input' \in Seq(Part)
  <2>1. ASSUME NEW whole \in BOOLEAN, NEW failed \in BOOLEAN, Sends(failed), input' = Received(whole, failed)
        PROVE  input' \in Seq(Part)
    BY <2>1, ReceivedFacts DEF Sends, SendPart, WriteCancelled, WriteError
  <2>2. CASE Execute
    <3>1. PICK i \in 1 .. Len(input) : input' = SubSeq(input, i + 1, Len(input))
      BY <2>2 DEF Execute
    <3>2. i \in Nat /\ i <= Len(input)
      BY <1>0
    <3>. QED
      BY <1>0, <3>1, <3>2, CutFacts
  <2>3. <<>> \in Seq(Part)
    OBVIOUS
  <2>4. ASSUME NEW n \in 0 .. Len(input), input' = SubSeq(input, 1, n) PROVE input' \in Seq(Part)
    BY <1>0, <2>4, HeadFacts
  <2>. QED
    BY <1>0, <2>1, <2>2, <2>3, <2>4, InputSteps, Zenon
<1>2. irq' \in Seq(Notice) /\ stb' \in [asked : Nat, answered : Nat]
  <2>1. CASE BeginReadStb
    <3>1. PICK x \in Notice : x = [tag |-> next_status_tag, request |-> calls']
      <4>1. calls' \in Nat
        BY <1>0, <2>1 DEF BeginReadStb, Begin
      <4>. QED
        BY <1>0, <4>1 DEF Notice
    <3>2. irq' = Append(irq, x) /\ stb' = stb
      BY <2>1, <3>1 DEF BeginReadStb
    <3>. QED
      BY <1>0, <3>2
  <2>2. CASE ServiceRequest
    <3>1. PICK x \in Notice : x = [tag |-> 1, request |-> 0]
      BY DEF Notice
    <3>2. irq' = Append(irq, x) /\ stb' = stb
      BY <2>2, <3>1 DEF ServiceRequest
    <3>. QED
      BY <1>0, <3>2
  <2>3. CASE InterruptIn
    <3>1. irq' \in Seq(Notice) /\ Head(irq) \in Notice
      BY <1>0, <2>3 DEF InterruptIn
    <3>2. call.request \in Nat /\ Head(irq).request \in Nat
      BY <2>3, <3>1 DEF InterruptIn, CallInv, Notice
    <3>3. stb' = stb \/ stb' = [asked |-> call.request, answered |-> Head(irq).request]
      BY <2>3 DEF InterruptIn
    <3>. QED
      BY <1>0, <3>1, <3>2, <3>3
  <2>. QED
    BY <1>0, <2>1, <2>2, <2>3, NoticeSteps
<1>. QED
  BY <1>1, <1>2 DEF QueueTypes


\* The marks that are lost are those of bytes that were read.
LEMMA TornStep ==
    ASSUME MessageTypes, [Next]_vars PROVE torn' \subseteq Byte
<1>0. torn \subseteq Byte /\ data \in Seq(Byte)
  BY DEF MessageTypes, BufferTypes
<1>1. data # <<>> => Last(data) \in Byte
  BY <1>0 DEF Last
<1>2. torn' \in {torn, torn \cup {Last(data)}} /\ (torn' = torn \/ data # <<>>)
  <2>1. CASE FinishRead \/ ReadError \/ ReadCancelled
    BY <2>1 DEF FinishRead, ReadError, ReadCancelled, Restore
  <2>2. CASE (\E count \in Counts, tc \in BOOLEAN : BeginRead(count, tc)) \/ Receive \/ Reject
             \/ CompleteCancelRecovery \/ CancelRecoveryFails \/ RecoverCancelledTransfer
    BY <2>2 DEF BeginRead, Receive, Reject, CompleteCancelRecovery, CancelRecoveryFails, RecoverCancelledTransfer
  <2>3. CASE (\E what \in {"write", "trigger"}, parts \in 1 .. 2 : BeginWrite(what, parts)) \/ SendPart \/ WriteCancelled
             \/ WriteError \/ FinishWrite \/ BeginClear \/ AnnounceClear \/ ClearSucceeds \/ ClearFails \/ ClearTail \/ Flush
    BY <2>3 DEF BeginWrite, SendPart, WriteCancelled, WriteError, FinishWrite, BeginClear, AnnounceClear, ClearSucceeds,
                ClearFails, ClearTail, Flush
  <2>4. CASE BeginReadStb \/ InterruptIn \/ ReadStbCancelled \/ Terminate \/ Execute \/ ServiceRequest \/ UNCHANGED vars
    BY <2>4 DEF BeginReadStb, InterruptIn, ReadStbCancelled, Terminate, Execute, ServiceRequest, vars
  <2>. QED
    BY <2>1, <2>2, <2>3, <2>4 DEF Next
<1>. QED
  BY <1>0, <1>1, <1>2

\* The arguments of a call are there as long as it runs.
LEMMA CallStep ==
    ASSUME MessageTypes, CallInv, [Next]_vars PROVE CallInv'
<1>0. kind' = kind /\ calls \in Nat /\ next_status_tag \in Nat
  BY KindStays DEF MessageTypes, NumberTypes, CountTypes
<1>1. ASSUME Return PROVE CallInv'
  BY <1>1 DEF Return, CallInv
<1>2. ASSUME UNCHANGED <<pc, call, data>> PROVE CallInv'
  BY <1>0, <1>2 DEF CallInv
<1>3. ASSUME NEW count \in Counts, NEW tc \in BOOLEAN, BeginRead(count, tc) PROVE CallInv'
  BY <1>3, CountsAssumption DEF BeginRead, CallInv, Byte
<1>4. CASE Receive
  BY <1>4 DEF Receive, Wanting, CallInv
<1>5. CASE Reject \/ FinishRead \/ ReadError \/ CompleteCancelRecovery \/ CancelRecoveryFails
           \/ RecoverCancelledTransfer \/ WriteError \/ FinishWrite \/ ClearSucceeds \/ ClearFails \/ ReadStbCancelled
  BY <1>1, <1>5 DEF Reject, FinishRead, ReadError, CompleteCancelRecovery, CancelRecoveryFails, RecoverCancelledTransfer,
                    WriteError, FinishWrite, ClearSucceeds, ClearFails, ReadStbCancelled
<1>6. CASE ReadCancelled
  <2>1. CASE kind = "hislip"
    BY <1>6, <2>1 DEF ReadCancelled, CallInv
  <2>2. CASE kind = "usbtmc"
    BY <1>0, <1>6, <2>2 DEF ReadCancelled, CallInv
  <2>3. CASE kind \notin {"hislip", "usbtmc"}
    BY <1>1, <1>6, <2>3 DEF ReadCancelled
  <2>. QED
    BY <2>1, <2>2, <2>3
<1>7. ASSUME NEW what \in {"write", "trigger"}, NEW parts \in 1 .. 2, BeginWrite(what, parts) PROVE CallInv'
  BY <1>7 DEF BeginWrite, Begin, CallInv
<1>8. CASE SendPart
  <2>1. call \in [what : {"write", "trigger"}, left : Nat] /\ call.left > 0 /\ call' = [call EXCEPT !.left = @ - 1]
    BY <1>8 DEF SendPart, CallInv
  <2>2. call' \in [what : {"write", "trigger"}, left : Nat]
    BY <2>1
  <2>3. pc' = "writing" /\ data' = data
    BY <1>8 DEF SendPart
  <2>. QED
    BY <1>8, <2>2, <2>3 DEF SendPart, CallInv
<1>9. CASE WriteCancelled
  <2>1. CASE Recovers
    BY <1>9, <2>1 DEF WriteCancelled, CallInv
  <2>2. CASE ~Recovers
    BY <1>1, <1>9, <2>2 DEF WriteCancelled
  <2>. QED
    BY <2>1, <2>2
<1>10. CASE BeginClear \/ AnnounceClear
  BY <1>10 DEF BeginClear, Begin, AnnounceClear, CallInv
<1>11. CASE BeginReadStb
  <2>1. pc' = "stb" /\ call' = [what |-> "stb", tag |-> next_status_tag, request |-> calls'] /\ calls' \in Nat /\ data' = data /\ pc = "idle"
    BY <1>0, <1>11 DEF BeginReadStb, Begin
  <2>2. call' \in [what : {"stb"}, tag : Nat, request : Nat]
    BY <1>0, <2>1
  <2>. QED
    BY <2>1, <2>2 DEF CallInv
<1>12. CASE InterruptIn
  BY <1>1, <1>2, <1>12 DEF InterruptIn
<1>13. CASE ClearTail \/ Flush \/ Terminate \/ Execute \/ ServiceRequest \/ UNCHANGED vars
  BY <1>2, <1>13 DEF ClearTail, Flush, Terminate, Execute, ServiceRequest, vars
<1>. QED
  BY <1>3, <1>4, <1>5, <1>6, <1>7, <1>8, <1>9, <1>10, <1>11, <1>12, <1>13 DEF Next

\* The variables keep their types.
LEMMA TypesStep ==
    ASSUME MessageTypes, CallInv, AnswerInv, [Next]_vars PROVE MessageTypes'
<1>1. FlagTypes'
  BY FlagStep DEF MessageTypes
<1>2. BufferTypes'
  BY MoveFacts, TornStep DEF BufferTypes
<1>3. NumberTypes'
  BY IdStep, CountStep, QueueStep DEF NumberTypes
<1>4. kind' \in Kinds
  BY KindStays DEF MessageTypes
<1>. QED
  BY <1>1, <1>2, <1>3, <1>4, ControlStep DEF MessageTypes


-----------------------------------------------------------------------------
(* Status bytes, clears and the parts of messages. *)

\* The calls count up to MaxCalls, and only a status request takes a tag.
LEMMA TagSteps ==
    ASSUME MessageTypes, [Next]_vars
    PROVE  BeginReadStb \/ (UNCHANGED next_status_tag /\ calls <= calls' /\ (calls < MaxCalls \/ calls' = calls)
                            /\ (pc' = "stb" => pc = "stb" /\ call' = call))
<1>0. calls \in Nat /\ MaxCalls \in Nat
  BY BoundAssumption DEF MessageTypes, NumberTypes, CountTypes
<1>a. Begin => calls <= calls' /\ (calls < MaxCalls \/ calls' = calls)
  BY <1>0 DEF Begin
<1>b. UNCHANGED calls => calls <= calls' /\ (calls < MaxCalls \/ calls' = calls)
  BY <1>0
<1>1. CASE (\E count \in Counts, tc \in BOOLEAN : BeginRead(count, tc)) \/ Receive \/ Reject \/ FinishRead
           \/ ReadError \/ ReadCancelled \/ CompleteCancelRecovery \/ CancelRecoveryFails \/ RecoverCancelledTransfer
  BY <1>a, <1>b, <1>1, ZenonT(60) DEF BeginRead, Receive, Wanting, Reject, FinishRead, ReadError, ReadCancelled, CompleteCancelRecovery,
              CancelRecoveryFails, RecoverCancelledTransfer, Return
<1>2. CASE (\E what \in {"write", "trigger"}, parts \in 1 .. 2 : BeginWrite(what, parts)) \/ SendPart \/ WriteCancelled
           \/ WriteError \/ FinishWrite
  BY <1>a, <1>b, <1>2 DEF BeginWrite, SendPart, WriteCancelled, WriteError, FinishWrite, Return
<1>3. CASE BeginClear \/ AnnounceClear \/ ClearSucceeds \/ ClearFails \/ ClearTail \/ Flush
  BY <1>a, <1>b, <1>3 DEF BeginClear, AnnounceClear, ClearSucceeds, ClearFails, ClearTail, Flush, Return
<1>4. CASE InterruptIn \/ ReadStbCancelled \/ Terminate \/ Execute \/ ServiceRequest \/ UNCHANGED vars
  BY <1>b, <1>4 DEF InterruptIn, ReadStbCancelled, Terminate, Execute, ServiceRequest, Return, vars
<1>. QED
  BY <1>1, <1>2, <1>3, <1>4 DEF Next

\* A tag is taken once: the tags do not run out before the calls do.
LEMMA StatusStep ==
    ASSUME MessageTypes, CallInv, StatusInv, StatusByteIsOwn, [Next]_vars
    PROVE  StatusInv' /\ StatusByteIsOwn'
<1>0. /\ irq \in Seq(Notice) /\ calls \in Nat /\ next_status_tag \in Nat
      /\ MaxCalls \in Nat /\ LastStatusTag \in Nat /\ MaxCalls < LastStatusTag
  BY BoundAssumption DEF MessageTypes, NumberTypes, CountTypes, QueueTypes
<1>n. \A i \in DOMAIN irq : irq[i].tag \in Nat
  <2>1. \A i \in DOMAIN irq : irq[i] \in Notice
    BY <1>0
  <2>. QED
    BY <2>1 DEF Notice
<1>1. CASE BeginReadStb
  <2>1. /\ calls < MaxCalls /\ calls' = calls + 1 /\ pc' = "stb" /\ stb' = stb
        /\ call' = [what |-> "stb", tag |-> next_status_tag, request |-> calls']
        /\ next_status_tag' = NextStatusTag
        /\ irq' = Append(irq, [tag |-> next_status_tag, request |-> calls'])
    BY <1>1 DEF BeginReadStb, Begin
  <2>2. PICK x \in Notice : x = [tag |-> next_status_tag, request |-> calls']
    <3>1. calls' \in Nat
      BY <1>0, <2>1
    <3>2. [tag |-> next_status_tag, request |-> calls'] \in Notice
      BY <1>0, <3>1 DEF Notice
    <3>. QED
      BY <3>2
  <2>3. call'.tag = next_status_tag /\ call'.request = calls' /\ x.tag = next_status_tag /\ x.request = calls'
    BY <2>1, <2>2
  <2>4. \A i \in DOMAIN irq' : (i \in DOMAIN irq /\ irq'[i] = irq[i]) \/ irq'[i] = x
    BY <1>0, <2>1, <2>2
  <2>5. \A i \in DOMAIN irq : irq[i].tag < next_status_tag
    BY <2>1 DEF StatusInv
  <2>6. \A i \in DOMAIN irq' : irq'[i].tag <= next_status_tag /\ (irq'[i].tag = next_status_tag => irq'[i].request = calls')
    BY <1>0, <1>n, <2>3, <2>4, <2>5
  <2>7. 2 <= next_status_tag' /\ (calls' < MaxCalls => next_status_tag' = next_status_tag + 1 /\ next_status_tag' <= calls' + 2)
    BY <1>0, <2>1 DEF StatusInv, NextStatusTag
  <2>8. calls' < MaxCalls => \A i \in DOMAIN irq' : irq'[i].tag < next_status_tag'
    BY <1>0, <1>n, <2>3, <2>4, <2>5, <2>7
  <2>. QED
    BY <2>1, <2>3, <2>6, <2>7, <2>8 DEF StatusInv, StatusByteIsOwn
<1>2. CASE ServiceRequest
  <2>1. UNCHANGED <<calls, next_status_tag, pc, call, stb>> /\ irq' = Append(irq, [tag |-> 1, request |-> 0])
    BY <1>2 DEF ServiceRequest
  <2>2. PICK x \in Notice : x = [tag |-> 1, request |-> 0]
    BY DEF Notice
  <2>3. \A i \in DOMAIN irq' : (i \in DOMAIN irq /\ irq'[i] = irq[i]) \/ irq'[i] = x
    BY <1>0, <2>1, <2>2
  <2>4. pc = "stb" => call.tag # 1
    BY DEF StatusInv
  <2>. QED
    BY <1>0, <2>1, <2>2, <2>3, <2>4 DEF StatusInv, StatusByteIsOwn
<1>3. CASE InterruptIn
  <2>1. /\ pc = "stb" /\ irq # <<>> /\ irq' = Tail(irq) /\ UNCHANGED <<calls, next_status_tag>>
        /\ \/ Head(irq).tag = call.tag /\ stb' = [asked |-> call.request, answered |-> Head(irq).request] /\ pc' = "idle"
           \/ UNCHANGED <<stb, pc, call>>
    BY <1>3 DEF InterruptIn, Matches, Return
  <2>2. 1 \in DOMAIN irq /\ Head(irq) = irq[1]
    BY <1>0, <2>1
  <2>3. \A i \in DOMAIN irq' : i + 1 \in DOMAIN irq /\ irq'[i] = irq[i + 1]
    BY <1>0, <2>1
  <2>4. StatusByteIsOwn'
    BY <2>1, <2>2 DEF StatusInv, StatusByteIsOwn
  <2>. QED
    BY <2>1, <2>3, <2>4 DEF StatusInv
<1>4. CASE UNCHANGED <<irq, stb>> /\ ~BeginReadStb
  <2>1. /\ UNCHANGED next_status_tag /\ calls <= calls' /\ (calls < MaxCalls \/ calls' = calls)
        /\ (pc' = "stb" => pc = "stb" /\ call' = call)
    BY <1>4, TagSteps
  <2>2. calls' \in Nat
    BY CountStep DEF CountTypes
  <2>3. calls' < MaxCalls => calls < MaxCalls
    BY <1>0, <2>1, <2>2
  <2>. QED
    BY <1>0, <1>4, <2>1, <2>2, <2>3 DEF StatusInv, StatusByteIsOwn
<1>. QED
  BY <1>1, <1>2, <1>3, <1>4, NoticeSteps

\* An acknowledgement is that of the recovery under way, unless one has failed.
LEMMA AnnounceStep ==
    ASSUME MessageTypes, AnnounceInv, [Next]_vars PROVE AnnounceInv'
<1>. SUFFICES ASSUME kind = "hislip" PROVE AnnounceInv'
  BY KindStays DEF AnnounceInv
<1>1. ASSUME UNCHANGED <<clear_acknowledged, clearing>>, lost => lost', pc # "recover" \/ pc' = pc PROVE AnnounceInv'
  BY <1>1 DEF AnnounceInv
<1>2. ASSUME lost' PROVE AnnounceInv'
  BY <1>2 DEF AnnounceInv
<1>3. ASSUME NEW received, NEW coming, RequestAsyncClear(received, coming), pc # "recover", pc' = "recover", lost' = lost
      PROVE  AnnounceInv'
  BY <1>3 DEF RequestAsyncClear, AnnounceInv
<1>4. CASE (\E count \in Counts, tc \in BOOLEAN : BeginRead(count, tc)) \/ Receive \/ Reject \/ FinishRead \/ ReadError
  BY <1>1, <1>4, ZenonT(60) DEF BeginRead, Begin, Receive, Wanting, Reject, FinishRead, ReadError
<1>5. CASE ReadCancelled
  BY <1>3, <1>5 DEF ReadCancelled, Wanting
<1>6. CASE CompleteCancelRecovery \/ CancelRecoveryFails \/ RecoverCancelledTransfer
  BY <1>2, <1>6 DEF CompleteCancelRecovery, CancelRecoveryFails, RecoverCancelledTransfer, ResetAfterClear, AnnounceInv
<1>7. CASE (\E what \in {"write", "trigger"}, parts \in 1 .. 2 : BeginWrite(what, parts)) \/ SendPart \/ WriteError \/ FinishWrite
  BY <1>1, <1>7 DEF BeginWrite, Begin, SendPart, WriteError, FinishWrite
<1>8. CASE WriteCancelled
  BY <1>3, <1>8 DEF WriteCancelled, Recovers
<1>9. CASE ClearSucceeds
  BY <1>9 DEF ClearSucceeds, ResetAfterClear, AnnounceInv
<1>10. CASE AnnounceClear
  BY <1>10 DEF AnnounceClear, AnnounceInv
<1>11. CASE ClearFails
  BY <1>2, <1>11 DEF ClearFails
<1>12. CASE BeginClear \/ ClearTail \/ Flush \/ BeginReadStb \/ InterruptIn \/ ReadStbCancelled \/ Terminate \/ Execute
            \/ ServiceRequest \/ UNCHANGED vars
  BY <1>1, <1>12 DEF BeginClear, Begin, ClearTail, Flush, BeginReadStb, InterruptIn, ReadStbCancelled, Terminate, Execute,
                     ServiceRequest, Return, vars
<1>. QED
  BY <1>4, <1>5, <1>6, <1>7, <1>8, <1>9, <1>10, <1>11, <1>12 DEF Next


\* A USBTMC session that is not usable is idle.
LEMMA UsableSteps ==
    ASSUME MixInv, [Next]_vars, kind = "usbtmc"
    PROVE  /\ ~clearing' /\ pc' # "complete"
           /\ ~usable' => pc' = "idle"
<1>0. ~clearing /\ pc # "complete" /\ (~usable => pc = "idle")
  BY DEF MixInv
<1>a. ASSUME usable, UNCHANGED <<usable, clearing>>, pc' # "complete"
      PROVE  ~clearing' /\ pc' # "complete" /\ (~usable' => pc' = "idle")
  BY <1>0, <1>a
<1>b. ASSUME UNCHANGED clearing, pc' = "idle"
      PROVE  ~clearing' /\ pc' # "complete" /\ (~usable' => pc' = "idle")
  BY <1>0, <1>b
<1>1. CASE (\E count \in Counts, tc \in BOOLEAN : BeginRead(count, tc)) \/ Receive \/ Reject \/ FinishRead \/ ReadError
  BY <1>0, <1>a, <1>b, <1>1, ZenonT(60) DEF BeginRead, Begin, Receive, Wanting, Reject, FinishRead, ReadError, Return
<1>2. CASE ReadCancelled \/ CompleteCancelRecovery \/ CancelRecoveryFails \/ RecoverCancelledTransfer
  BY <1>0, <1>2 DEF ReadCancelled, Wanting, CompleteCancelRecovery, CancelRecoveryFails, RecoverCancelledTransfer, Return
<1>3. CASE (\E what \in {"write", "trigger"}, parts \in 1 .. 2 : BeginWrite(what, parts)) \/ SendPart \/ WriteError \/ FinishWrite
  BY <1>0, <1>a, <1>b, <1>3 DEF BeginWrite, Begin, SendPart, WriteError, FinishWrite, Return
<1>4. CASE WriteCancelled
  BY <1>0, <1>4 DEF WriteCancelled, Return
<1>5. CASE BeginClear \/ AnnounceClear \/ ClearSucceeds \/ ClearTail \/ Flush
  BY <1>0, <1>5 DEF BeginClear, Begin, AnnounceClear, ClearSucceeds, ClearTail, Flush, Return
<1>6. CASE ClearFails
  BY <1>0, <1>6 DEF ClearFails, Return
<1>7. CASE BeginReadStb \/ InterruptIn \/ ReadStbCancelled \/ Terminate \/ Execute \/ ServiceRequest \/ UNCHANGED vars
  BY <1>0, <1>7 DEF BeginReadStb, Begin, InterruptIn, ReadStbCancelled, Terminate, Execute, ServiceRequest, Return, vars
<1>. QED
  BY <1>1, <1>2, <1>3, <1>4, <1>5, <1>6, <1>7 DEF Next


\* The messages in q are joined as they should be, and the last one is whole or failed.
Joined(q) == \A i \in 2 .. Len(q) : Follows(q[i - 1], q[i]) \/ q[i - 1].failed
Whole(q) == q = <<>> \/ q[Len(q)].last \/ q[Len(q)].failed

\* What MixInv and WritesDoNotMix say of a session nothing has failed in.
Unmixed ==
    /\ clearing => pc \in {"complete", "recover"}
    /\ Whole(input) \/ Unfinished
    /\ Joined(input)

\* MixInv and WritesDoNotMix in terms of Unmixed.
LEMMA MixedOrNot ==
    ASSUME kind \in {"hislip", "usbtmc"}
    PROVE  /\ MixInv /\ WritesDoNotMix => lost \/ Unmixed
           /\ MixInv => (kind = "usbtmc" => /\ ~clearing /\ pc # "complete"
                                            /\ ~usable => pc = "idle"
                                            /\ pc = "writing" => call.left <= 1)
BY DEF MixInv, WritesDoNotMix, Unmixed, Joined, Whole

\* A part of the message that is being written joins the queue.
LEMMA PartJoins ==
    ASSUME MessageTypes, CallInv, Unmixed, kind \in {"hislip", "usbtmc"}, pc = "writing", call.left > 0,
           kind = "usbtmc" => usable, NEW whole \in BOOLEAN, NEW failed \in BOOLEAN
    PROVE  /\ Joined(Received(whole, failed))
           /\ \/ Whole(Received(whole, failed))
              \/ /\ call.what = "write" /\ ~(whole /\ call.left = 1) /\ ~failed
                 /\ Received(whole, failed)[Len(Received(whole, failed))].write = writes
<1>0. input \in Seq(Part) /\ writes \in Nat /\ ~clearing /\ call \in [what : {"write", "trigger"}, left : Nat]
  BY BoundAssumption DEF MessageTypes, NumberTypes, IdTypes, QueueTypes, Unmixed, CallInv
<1>1. CASE call.what = "trigger"
  BY <1>0, <1>1 DEF Received, Unmixed, Unfinished
<1>2. CASE call.what # "trigger"
  <2>1. (whole /\ call.left = 1) \in BOOLEAN
    OBVIOUS
  <2>2. PICK x \in Part : x = [write |-> writes, last |-> whole /\ call.left = 1, failed |-> failed]
    BY <1>0, <2>1 DEF Part
  <2>3. PICK q \in Seq(Part) : q = Received(whole, failed) /\ q = Append(input, x)
    <3>1. Append(input, x) \in Seq(Part)
      BY <1>0
    <3>2. Received(whole, failed) = Append(input, x)
      BY <1>0, <1>2, <2>2, Zenon DEF Received
    <3>. QED
      BY <3>1, <3>2, Zenon
  <2>4. /\ Len(q) = Len(input) + 1 /\ Len(input) \in Nat /\ q[Len(q)] = x
        /\ \A i \in 1 .. Len(input) : q[i] = input[i]
    BY <1>0, <2>3
  <2>5. x.write = writes /\ (x.last <=> whole /\ call.left = 1) /\ (x.failed <=> failed)
    BY <2>2
  <2>6. ASSUME NEW i \in 2 .. Len(q) PROVE Follows(q[i - 1], q[i]) \/ q[i - 1].failed
    <3>1. CASE i <= Len(input)
      <4>1. q[i] = input[i] /\ q[i - 1] = input[i - 1] /\ i \in 2 .. Len(input)
        BY <2>4, <3>1
      <4>. QED
        BY <4>1 DEF Unmixed, Joined
    <3>2. CASE i = Len(input) + 1
      <4>1. q[i] = x /\ q[i - 1] = input[Len(input)] /\ input # <<>>
        BY <1>0, <2>4, <3>2
      <4>2. input[Len(input)].last \/ input[Len(input)].failed \/ input[Len(input)].write = writes
        BY <4>1 DEF Unmixed, Whole, Unfinished
      <4>. QED
        BY <2>5, <4>1, <4>2 DEF Follows
    <3>. QED
      BY <2>4, <3>1, <3>2
  <2>. QED
    BY <1>0, <1>2, <2>3, <2>4, <2>5, <2>6 DEF Joined, Whole
<1>. QED
  BY <1>1, <1>2

\* Every step preserves WritesDoNotMix: the next write starts after a whole message, or after
\* a clear that takes the unfinished one back.
LEMMA MixStep ==
    ASSUME MessageTypes, CallInv, MixInv, WritesDoNotMix, [Next]_vars
    PROVE  MixInv' /\ WritesDoNotMix'
<1>. SUFFICES ASSUME kind \in {"hislip", "usbtmc"}
              PROVE  /\ kind = "usbtmc" /\ pc' = "writing" => call'.left <= 1
                     /\ ~lost' => Unmixed'
  BY KindStays, UsableSteps DEF MixInv, WritesDoNotMix, Unmixed, Joined, Whole
<1>0. /\ lost \/ Unmixed
      /\ kind = "usbtmc" => ~clearing /\ pc # "complete" /\ (~usable => pc = "idle") /\ (pc = "writing" => call.left <= 1)
      /\ kind' = kind /\ input \in Seq(Part) /\ lost \in BOOLEAN
  BY MixedOrNot, KindStays DEF MessageTypes, NumberTypes, QueueTypes, FlagTypes
<1>e. Joined(<<>>) /\ Whole(<<>>)
  BY DEF Joined, Whole
<1>a. ASSUME Unmixed, Whole(input), pc \notin {"complete", "recover"}, input' = input, clearing' = clearing
      PROVE  Unmixed'
  BY <1>a DEF Unmixed
<1>b. ASSUME Unmixed, (pc \in {"reading", "clear", "complete", "stb"}) \/ (pc = "idle" /\ (kind = "usbtmc" => usable))
      PROVE  Whole(input)
  BY <1>0, <1>b DEF Unmixed, Unfinished
<1>1. ASSUME NEW count \in Counts, NEW tc \in BOOLEAN, BeginRead(count, tc)
      PROVE  pc' # "writing" /\ (~lost' => Unmixed')
  <2>1. pc = "idle" /\ (kind = "usbtmc" => usable) /\ input' = input /\ clearing' = clearing /\ pc' = "reading" /\ lost' = lost
    BY <1>1 DEF BeginRead, Begin
  <2>. QED
    BY <1>0, <1>a, <1>b, <2>1
<1>2. CASE BeginClear \/ BeginReadStb
  <2>1. /\ pc = "idle" /\ (kind = "usbtmc" => usable) /\ input' = input /\ clearing' = clearing /\ pc' # "writing"
        /\ lost' = lost
    BY <1>2 DEF BeginClear, BeginReadStb, Begin
  <2>. QED
    BY <1>0, <1>a, <1>b, <2>1
<1>3. ASSUME NEW what \in {"write", "trigger"}, NEW parts \in 1 .. 2, BeginWrite(what, parts)
      PROVE  (kind = "usbtmc" => call'.left <= 1) /\ (~lost' => Unmixed')
  <2>1. pc = "idle" /\ (kind = "usbtmc" => usable) /\ input' = input /\ clearing' = clearing /\ lost' = lost
    BY <1>3 DEF BeginWrite, Begin
  <2>2. kind = "usbtmc" => call'.left <= 1
    BY <1>3 DEF BeginWrite
  <2>. QED
    BY <1>0, <1>a, <1>b, <2>1, <2>2
<1>4. CASE Receive \/ Reject \/ FinishRead \/ ReadError
  <2>1. pc = "reading" /\ input' = input /\ clearing' = clearing /\ pc' # "writing" /\ (lost => lost')
    <3>1. CASE Receive
      BY <3>1 DEF Receive, Wanting
    <3>2. CASE Reject \/ FinishRead
      BY <3>2 DEF Reject, FinishRead, Wanting, Return
    <3>3. CASE ReadError
      BY <3>3 DEF ReadError, Wanting, Return
    <3>. QED
      BY <1>4, <3>1, <3>2, <3>3
  <2>. QED
    BY <1>0, <1>a, <1>b, <2>1
<1>5. CASE ReadStbCancelled \/ InterruptIn
  <2>1. pc = "stb" /\ input' = input /\ clearing' = clearing /\ pc' # "writing" /\ lost' = lost
    BY <1>5 DEF ReadStbCancelled, InterruptIn, Return
  <2>. QED
    BY <1>0, <1>a, <1>b, <2>1
<1>6. CASE ReadCancelled
  <2>1. pc = "reading" /\ pc' = "recover" /\ lost' = lost /\ (input' = input \/ input' = <<>>)
    BY <1>6 DEF ReadCancelled, Wanting, RequestAsyncClear, DeviceClear
  <2>2. ASSUME Unmixed PROVE Whole(input') /\ Joined(input')
    BY <1>b, <1>e, <2>1, <2>2 DEF Unmixed
  <2>. QED
    BY <1>0, <2>1, <2>2 DEF Unmixed
<1>7. CASE CompleteCancelRecovery \/ ClearSucceeds
  <2>1. input' = <<>> /\ clearing' = FALSE /\ pc' = "idle"
    BY <1>7 DEF CompleteCancelRecovery, ClearSucceeds, DeviceClear, Return
  <2>. QED
    BY <1>e, <2>1 DEF Unmixed
<1>8. CASE CancelRecoveryFails \/ ClearFails
  BY <1>8 DEF CancelRecoveryFails, ClearFails, Return
<1>9. CASE RecoverCancelledTransfer
  <2>1. /\ kind = "usbtmc" /\ clearing' = clearing /\ lost' = lost /\ pc' = "idle" /\ pc = "recover"
        /\ \/ AbortBulkIn \/ AbortBulkOut \/ DeviceClear
           \/ input' = input /\ ~usable'
    BY <1>9 DEF RecoverCancelledTransfer, Return
  <2>2. ASSUME Unmixed PROVE Joined(input') /\ (Whole(input') \/ Unfinished')
    <3>0. Joined(input) /\ usable
      BY <1>0, <2>1, <2>2 DEF Unmixed
    <3>1. CASE input' = <<>>
      BY <1>e, <3>1
    <3>2. CASE input' = input /\ ~usable'
      BY <1>0, <2>1, <3>0, <3>2 DEF Unfinished
    <3>3. CASE call.what # "write" /\ input' = input
      BY <2>1, <2>2, <3>0, <3>3 DEF Unmixed, Unfinished
    <3>4. ASSUME NEW n \in 0 .. Len(input), n > 0 => input[n].write # writes,
                 \A i \in (n + 1) .. Len(input) : input[i].write = writes, input' = SubSeq(input, 1, n)
          PROVE  Joined(input') /\ Whole(input')
      <4>1. /\ input' \in Seq(Part) /\ Len(input') = n /\ \A i \in 1 .. n : input'[i] = input[i]
            /\ n \in Nat /\ Len(input) \in Nat /\ n <= Len(input)
        BY <1>0, <3>4, HeadFacts
      <4>2. Joined(input')
        <5>1. ASSUME NEW i \in 2 .. n PROVE Follows(input'[i - 1], input'[i]) \/ input'[i - 1].failed
          <6>1. i \in 2 .. Len(input) /\ i \in 1 .. n /\ i - 1 \in 1 .. n
            BY <4>1
          <6>2. input'[i] = input[i] /\ input'[i - 1] = input[i - 1]
            BY <4>1, <6>1
          <6>. QED
            BY <3>0, <6>1, <6>2 DEF Joined
        <5>. QED
          BY <4>1, <5>1 DEF Joined
      <4>3. CASE n = 0
        <5>1. input' = <<>>
          BY <4>1, <4>3
        <5>. QED
          BY <1>e, <5>1
      <4>4. CASE n > 0
        <5>1. input'[Len(input')] = input[n] /\ input[n].write # writes
          BY <3>4, <4>1, <4>4
        <5>2. CASE n = Len(input)
          <6>1. ~Unfinished
            BY <2>1, <3>0, <5>1, <5>2 DEF Unfinished
          <6>2. input # <<>>
            BY <4>1, <4>4
          <6>3. input[n].last \/ input[n].failed
            BY <2>2, <5>2, <6>1, <6>2, Zenon DEF Unmixed, Whole
          <6>. QED
            BY <4>2, <5>1, <6>3, Zenon DEF Whole
        <5>3. CASE n < Len(input)
          <6>1. n + 1 \in 2 .. Len(input) /\ (n + 1) - 1 = n /\ n + 1 \in (n + 1) .. Len(input)
            BY <4>1, <4>4, <5>3
          <6>2. Follows(input[n], input[n + 1]) \/ input[n].failed
            BY <3>0, <6>1 DEF Joined
          <6>3. input[n + 1].write = writes
            BY <3>4, <6>1
          <6>. QED
            BY <4>2, <5>1, <6>2, <6>3, Zenon DEF Whole, Follows
        <5>. QED
          BY <4>1, <5>2, <5>3
      <4>. QED
        BY <4>1, <4>2, <4>3, <4>4
    <3>. QED
      BY <2>1, <3>1, <3>2, <3>3, <3>4 DEF AbortBulkIn, AbortBulkOut, DeviceClear
  <2>. QED
    BY <1>0, <2>1, <2>2 DEF Unmixed
<1>10. CASE SendPart
  <2>1. /\ pc = "writing" /\ pc' = pc /\ call.left > 0 /\ usable /\ call' = [call EXCEPT !.left = @ - 1]
        /\ input' = Received(TRUE, FALSE) /\ UNCHANGED <<clearing, writes, usable, lost>>
    BY <1>10 DEF SendPart
  <2>2. /\ call \in [what : {"write", "trigger"}, left : Nat] /\ call'.left = call.left - 1 /\ call'.what = call.what
        /\ call'.left \in Nat
    BY <2>1 DEF CallInv
  <2>3. kind = "usbtmc" => call'.left <= 1 /\ call.left = 1
    BY <1>0, <2>1, <2>2
  <2>4. ASSUME Unmixed PROVE Unmixed'
    <3>1. /\ Joined(input')
          /\ \/ Whole(input')
             \/ call.what = "write" /\ call.left # 1 /\ input'[Len(input')].write = writes
      BY <2>1, <2>4, PartJoins
    <3>2. CASE Whole(input')
      BY <2>1, <2>4, <3>1, <3>2 DEF Unmixed
    <3>3. CASE call.what = "write" /\ call.left # 1 /\ input'[Len(input')].write = writes
      <4>1. call'.left > 0 /\ kind = "hislip"
        BY <2>1, <2>2, <2>3, <3>3
      <4>2. Unfinished'
        BY <1>0, <2>1, <2>2, <3>3, <4>1 DEF Unfinished
      <4>. QED
        BY <2>1, <2>4, <3>1, <4>2 DEF Unmixed
    <3>. QED
      BY <3>1, <3>2, <3>3
  <2>. QED
    BY <1>0, <2>1, <2>3, <2>4
<1>11. CASE WriteCancelled
  <2>1. pc = "writing" /\ call.left > 0 /\ pc' = "recover" /\ UNCHANGED <<lost, call, writes>>
    BY <1>11 DEF WriteCancelled, Recovers
  <2>2. input' = input \/ input' = <<>> \/ \E whole \in BOOLEAN : input' = Received(whole, FALSE)
    <3>1. (kind \in {"hislip", "vxi11"}) \in BOOLEAN
      OBVIOUS
    <3>. QED
      BY <1>11, <3>1 DEF WriteCancelled, RequestAsyncClear, DeviceClear
  <2>3. ASSUME Unmixed PROVE Joined(input') /\ (Whole(input') \/ Unfinished')
    <3>1. CASE input' = <<>>
      BY <1>e, <3>1
    <3>2. CASE input' = input
      BY <1>0, <2>1, <2>3, <3>2 DEF Unmixed, Unfinished
    <3>3. ASSUME NEW whole \in BOOLEAN, input' = Received(whole, FALSE) PROVE Joined(input') /\ (Whole(input') \/ Unfinished')
      <4>1. /\ Joined(input')
            /\ Whole(input') \/ (call.what = "write" /\ input'[Len(input')].write = writes)
        BY <1>0, <2>1, <2>3, <3>3, PartJoins
      <4>. QED
        BY <2>1, <4>1 DEF Unfinished
    <3>. QED
      BY <2>2, <3>1, <3>2, <3>3
  <2>. QED
    BY <1>0, <2>1, <2>3 DEF Unmixed
<1>12. CASE WriteError
  <2>1. /\ pc = "writing" /\ pc' = "idle" /\ clearing' = clearing /\ (lost => lost') /\ call.left > 0
        /\ input' \in {input, Received(TRUE, TRUE), Received(FALSE, TRUE)}
    BY <1>12 DEF WriteError, Return
  <2>2. CASE kind = "hislip"
    <3>0. /\ lost' = (lost \/ ~usable')
          /\ usable' = FALSE \/ usable' = (usable /\ kind # "hislip") \/ (~usable /\ usable' = usable)
      BY <1>12, Zenon DEF WriteError
    <3>1. (usable /\ kind # "hislip") = FALSE
      BY <2>2
    <3>2. ~usable'
      BY <3>0, <3>1
    <3>. QED
      BY <2>1, <3>0, <3>2
  <2>3. CASE kind = "usbtmc"
    <3>1. ASSUME Unmixed PROVE Joined(input') /\ Whole(input')
      <4>1. usable /\ ~clearing
        BY <1>0, <2>1, <2>3
      <4>2. Joined(input) /\ Whole(input)
        BY <2>1, <2>3, <3>1, <4>1 DEF Unmixed, Unfinished
      <4>3. \A whole \in BOOLEAN : Joined(Received(whole, TRUE)) /\ Whole(Received(whole, TRUE))
        BY <2>1, <3>1, <4>1, PartJoins
      <4>. QED
        BY <2>1, <4>2, <4>3
    <3>. QED
      BY <1>0, <2>1, <2>3, <3>1 DEF Unmixed
  <2>. QED
    BY <2>1, <2>2, <2>3
<1>13. CASE FinishWrite
  <2>1. pc = "writing" /\ pc' = "idle" /\ input' = input /\ clearing' = clearing /\ lost' = lost /\ call.left = 0
    BY <1>13 DEF FinishWrite, Return
  <2>. QED
    BY <1>0, <1>a, <2>1 DEF Unmixed, Unfinished
<1>14. CASE AnnounceClear
  <2>1. input' = <<>> /\ pc' = "complete"
    BY <1>14 DEF AnnounceClear, DeviceClear
  <2>. QED
    BY <1>e, <2>1 DEF Unmixed
<1>15. CASE ClearTail \/ Flush \/ Terminate \/ ServiceRequest \/ UNCHANGED vars
  <2>1. UNCHANGED <<pc, call, usable, writes, input, clearing, lost>>
    BY <1>15 DEF ClearTail, Flush, Terminate, ServiceRequest, vars
  <2>. QED
    BY <1>0, <2>1 DEF Unmixed, Unfinished
<1>16. CASE Execute
  <2>1. UNCHANGED <<pc, call, usable, writes, clearing, lost>>
    BY <1>16 DEF Execute
  <2>2. PICK n \in 1 .. Len(input) : input' = SubSeq(input, n + 1, Len(input))
    BY <1>16 DEF Execute
  <2>3. /\ input' \in Seq(Part) /\ Len(input') = Len(input) - n /\ Len(input) \in Nat
        /\ \A i \in 1 .. Len(input) - n : input'[i] = input[n + i]
    <3>1. n \in Nat /\ n <= Len(input)
      BY <1>0
    <3>. QED
      BY <1>0, <2>2, <3>1, CutFacts
  <2>4. input' # <<>> => input'[Len(input')] = input[Len(input)]
    <3>1. input' # <<>> => Len(input) - n \in 1 .. Len(input) - n
      BY <2>3
    <3>. QED
      BY <2>3, <3>1
  <2>5. ASSUME Unmixed PROVE Joined(input')
    <3>1. ASSUME NEW i \in 2 .. Len(input') PROVE Follows(input'[i - 1], input'[i]) \/ input'[i - 1].failed
      <4>1. n + i \in 2 .. Len(input) /\ input'[i] = input[n + i] /\ input'[i - 1] = input[n + (i - 1)] /\ n + (i - 1) = (n + i) - 1
        <5>1. n \in Nat /\ n >= 1 /\ i \in Nat /\ i >= 2 /\ i <= Len(input) - n
          BY <2>3
        <5>2. i \in 1 .. Len(input) - n /\ i - 1 \in 1 .. Len(input) - n
          BY <2>3, <5>1
        <5>3. input'[i] = input[n + i] /\ input'[i - 1] = input[n + (i - 1)]
          BY <2>3, <5>2, Zenon
        <5>. QED
          BY <2>3, <5>1, <5>3
      <4>. QED
        BY <2>5, <4>1 DEF Unmixed, Joined
    <3>. QED
      BY <3>1 DEF Joined
  <2>6. ASSUME Unmixed PROVE Whole(input') \/ Unfinished'
    <3>1. CASE input' = <<>>
      BY <3>1 DEF Whole
    <3>2. CASE input' # <<>>
      <4>1. input # <<>> /\ input'[Len(input')] = input[Len(input)]
        BY <2>3, <2>4, <3>2
      <4>2. input[Len(input)].last \/ input[Len(input)].failed \/ Unfinished
        BY <2>6, <4>1 DEF Unmixed, Whole
      <4>. QED
        BY <1>0, <2>1, <4>1, <4>2 DEF Whole, Unfinished
    <3>. QED
      BY <3>1, <3>2
  <2>. QED
    BY <1>0, <2>1, <2>5, <2>6 DEF Unmixed
<1>. QED
  BY <1>1, <1>2, <1>3, <1>4, <1>5, <1>6, <1>7, <1>8, <1>9, <1>10, <1>11, <1>12, <1>13, <1>14, <1>15, <1>16 DEF Next


-----------------------------------------------------------------------------
(* Answers come once. *)

\* A part of a message has still to be sent.
Writing == pc = "writing" /\ call.what = "write" /\ call.left > 0

\* How the write under way goes on, and how one begins.
LEMMA WritingSteps ==
    ASSUME MessageTypes, CallInv, [Next]_vars
    PROVE  \/ writes' = writes /\ (Writing' => Writing /\ (UNCHANGED <<call, pc>> \/ (SendPart /\ call.left # 1)))
           \/ writes' = writes + 1 /\ input' = input /\ pc = "idle" /\ pc' = "writing" /\ UNCHANGED idVars /\ ids' = ids
              /\ (kind = "hislip" => read_ahead' = <<>> /\ data' = data) /\ UNCHANGED <<output, got>>
<1>1. CASE SendPart
  <2>1. /\ pc = "writing" /\ call.left > 0 /\ call' = [call EXCEPT !.left = @ - 1] /\ writes' = writes
        /\ call \in [what : {"write", "trigger"}, left : Nat]
    BY <1>1 DEF SendPart, CallInv
  <2>2. call'.left = call.left - 1 /\ call'.what = call.what
    BY <2>1
  <2>. QED
    BY <1>1, <2>1, <2>2 DEF Writing
<1>2. ASSUME NEW what \in {"write", "trigger"}, NEW parts \in 1 .. 2, BeginWrite(what, parts)
      PROVE  \/ writes' = writes /\ ~Writing'
             \/ writes' = writes + 1 /\ input' = input /\ pc = "idle" /\ pc' = "writing" /\ UNCHANGED idVars /\ ids' = ids
                /\ (kind = "hislip" => read_ahead' = <<>> /\ data' = data) /\ UNCHANGED <<output, got>>
  <2>1. CASE what = "write"
    BY <1>2, <2>1 DEF BeginWrite, Begin, EmptiesReadAhead, EmptyReadAhead
  <2>2. CASE what = "trigger"
    BY <1>2, <2>2 DEF BeginWrite, Writing
  <2>. QED
    BY <2>1, <2>2
<1>3. CASE WriteCancelled \/ WriteError \/ FinishWrite \/ ClearSucceeds \/ ClearFails \/ AnnounceClear \/ BeginClear
  BY <1>3 DEF WriteCancelled, WriteError, FinishWrite, ClearSucceeds, ClearFails, AnnounceClear, BeginClear, Return, Writing
<1>4. CASE (\E count \in Counts, tc \in BOOLEAN : BeginRead(count, tc)) \/ Receive \/ Reject \/ FinishRead \/ ReadError
  BY <1>4, ZenonT(60) DEF BeginRead, Receive, Wanting, Reject, FinishRead, ReadError, Return, Writing
<1>5. CASE ReadCancelled \/ CompleteCancelRecovery \/ CancelRecoveryFails \/ RecoverCancelledTransfer
  BY <1>5 DEF ReadCancelled, CompleteCancelRecovery, CancelRecoveryFails, RecoverCancelledTransfer, Return, Writing
<1>6. CASE ClearTail \/ Flush \/ Terminate \/ Execute \/ ServiceRequest \/ UNCHANGED vars
  BY <1>6 DEF ClearTail, Flush, Terminate, Execute, ServiceRequest, vars, Writing
<1>7. CASE BeginReadStb \/ InterruptIn \/ ReadStbCancelled
  BY <1>7 DEF BeginReadStb, InterruptIn, ReadStbCancelled, Return, Writing
<1>. QED
  BY <1>1, <1>2, <1>3, <1>4, <1>5, <1>6, <1>7 DEF Next

\* The part that is sent.
LEMMA SentPart ==
    ASSUME MessageTypes, CallInv, pc = "writing", NEW whole \in BOOLEAN, NEW failed \in BOOLEAN
    PROVE  \/ Received(whole, failed) = input
           \/ /\ call.what = "write"
              /\ \E x \in Part : /\ Received(whole, failed) = Append(input, x)
                                 /\ x.write = writes /\ (x.last <=> whole /\ call.left = 1)
<1>0. input \in Seq(Part) /\ writes \in Nat /\ call \in [what : {"write", "trigger"}, left : Nat]
  BY BoundAssumption DEF MessageTypes, NumberTypes, IdTypes, QueueTypes, CallInv
<1>1. (whole /\ call.left = 1) \in BOOLEAN
  OBVIOUS
<1>2. PICK x \in Part : x = [write |-> writes, last |-> whole /\ call.left = 1, failed |-> failed]
  BY <1>0, <1>1 DEF Part
<1>3. x.write = writes /\ (x.last <=> whole /\ call.left = 1)
  BY <1>2
<1>4. CASE call.what = "trigger" \/ clearing
  BY <1>4, Zenon DEF Received
<1>5. CASE ~(call.what = "trigger" \/ clearing)
  <2>1. Received(whole, failed) = Append(input, x)
    BY <1>2, <1>5, Zenon DEF Received
  <2>. QED
    BY <1>0, <1>3, <1>5, <2>1
<1>. QED
  BY <1>4, <1>5

\* What is known are bytes.
LEMMA KnownFacts ==
    ASSUME MessageTypes
    PROVE  /\ Known \subseteq Byte
           /\ ToSet(data) \subseteq Byte /\ ToSet(read_ahead) \subseteq Byte /\ Bytes(output) \subseteq Byte
           /\ delivered \subseteq Byte /\ dropped \subseteq Byte
<1>1. /\ data \in Seq(Byte) /\ read_ahead \in Seq(Byte) /\ output \in Seq(Nat)
      /\ delivered \subseteq Byte /\ dropped \subseteq Byte
  BY DEF MessageTypes, BufferTypes
<1>2. ToSet(data) \subseteq Byte
  BY <1>1, SetOf, Zenon
<1>3. ToSet(read_ahead) \subseteq Byte
  BY <1>1, SetOf, Zenon
<1>4. Bytes(output) \subseteq Byte
  BY <1>1, BytesOf, Zenon
<1>. QED
  BY <1>1, <1>2, <1>3, <1>4, Zenon DEF Known

\* Every step preserves AnswerInv.
LEMMA AnswerStep ==
    ASSUME MessageTypes, CallInv, AnswerInv, [Next]_vars
    PROVE  AnswerInv'
<1>0. /\ input \in Seq(Part) /\ writes \in Nat /\ 1 <= writes /\ Known \subseteq Nat /\ Length \in Nat
      /\ \A i \in DOMAIN input : input[i].write \in Nat /\ 1 <= input[i].write /\ input[i].write <= writes
  <2>1. input \in Seq(Part) /\ writes \in Nat /\ 1 <= writes
    BY BoundAssumption DEF MessageTypes, NumberTypes, IdTypes, QueueTypes
  <2>2. Known \subseteq Nat
    BY KnownFacts DEF Byte
  <2>. QED
    BY <2>1, <2>2, LengthAssumption DEF AnswerInv
<1>a. AnswerInv <=>
         /\ \A b \in Known : b <= Floor(writes + 1)
         /\ \A i \in DOMAIN input : input[i].write \in 1 .. writes
         /\ Writing => /\ \A b \in Known : b <= Floor(writes)
                       /\ \A i \in DOMAIN input : input[i].last => input[i].write < writes
         /\ \A i \in DOMAIN input : input[i].last => \A b \in Known : b <= Floor(input[i].write)
         /\ \A i, j \in DOMAIN input : i < j /\ input[i].last /\ input[j].last => input[i].write < input[j].write
  BY Zenon DEF AnswerInv, Writing
<1>1. ASSUME Known' = Known, input' = input, writes' = writes, Writing' => Writing PROVE AnswerInv'
  BY <1>1 DEF AnswerInv, Writing
<1>2. ASSUME Known' = Known, input' = <<>>, writes' = writes, Writing' => Writing PROVE AnswerInv'
  BY <1>2 DEF AnswerInv, Writing
<1>3. ASSUME Known' = Known, input' = input, writes' = writes + 1 PROVE AnswerInv'
  <2>1. writes + 1 \in Nat /\ 1 <= writes + 1
    BY <1>0
  <2>2. Floor(writes + 1) \in Nat /\ Floor((writes + 1) + 1) = Floor(writes + 1) + Length
    BY <2>1, FloorFacts
  <2>3. Floor(writes') = Floor(writes + 1) /\ Floor(writes' + 1) = Floor((writes + 1) + 1)
    BY <1>3
  <2>4. \A b \in Known' : b <= Floor(writes') /\ b <= Floor(writes' + 1)
    BY <1>0, <1>3, <1>a, <2>2, <2>3
  <2>5. \A i \in DOMAIN input' : input'[i].write \in 1 .. writes' /\ input'[i].write < writes'
    BY <1>0, <1>3
  <2>6. \A i \in DOMAIN input' : input'[i].last => \A b \in Known' : b <= Floor(input'[i].write)
    BY <1>3, <1>a, Zenon
  <2>7. \A i, j \in DOMAIN input' : i < j /\ input'[i].last /\ input'[j].last => input'[i].write < input'[j].write
    BY <1>3, <1>a, Zenon
  <2>. QED
    BY <2>4, <2>5, <2>6, <2>7, Zenon DEF AnswerInv
<1>4. ASSUME Known' = Known, NEW whole \in BOOLEAN, NEW failed \in BOOLEAN, Sends(failed), input' = Received(whole, failed)
      PROVE  AnswerInv'
  <2>1. pc = "writing" /\ call.left > 0
    BY <1>4 DEF Sends, SendPart, WriteCancelled, WriteError
  <2>2. writes' = writes /\ (Writing' => Writing /\ SendPart /\ call.left # 1)
    <3>1. SendPart => call' # call
      BY <2>1 DEF SendPart, CallInv
    <3>2. WriteCancelled \/ WriteError => pc' # pc
      BY <2>1 DEF WriteCancelled, WriteError, Return
    <3>3. SendPart \/ WriteCancelled \/ WriteError
      BY <1>4 DEF Sends
    <3>. QED
      BY <2>1, <3>1, <3>2, <3>3, WritingSteps
  <2>3. CASE Received(whole, failed) = input
    BY <1>1, <1>4, <2>2, <2>3
  <2>4. ASSUME call.what = "write", NEW x \in Part, input' = Append(input, x), x.write = writes, x.last <=> whole /\ call.left = 1
        PROVE  AnswerInv'
    <3>1. Writing
      BY <2>1, <2>4 DEF Writing
    <3>2. \A i \in DOMAIN input' : (i \in DOMAIN input /\ input'[i] = input[i]) \/ (i = Len(input) + 1 /\ input'[i] = x)
      BY <1>0, <2>4
    <3>3. \A i \in DOMAIN input : i < Len(input) + 1
      BY <1>0
    <3>4. \A i \in DOMAIN input' : input'[i].write \in 1 .. writes
      BY <1>0, <2>4, <3>2
    <3>5. Writing' => \A i \in DOMAIN input' : input'[i].last => input'[i].write < writes
      BY <1>a, <2>2, <2>4, <3>1, <3>2
    <3>6. \A i \in DOMAIN input' : input'[i].last => \A b \in Known : b <= Floor(input'[i].write)
      BY <1>a, <2>4, <3>1, <3>2
    <3>7. \A i, j \in DOMAIN input' : i < j /\ input'[i].last /\ input'[j].last => input'[i].write < input'[j].write
      <4>. SUFFICES ASSUME NEW i \in DOMAIN input', NEW j \in DOMAIN input', i < j, input'[i].last, input'[j].last
                    PROVE  input'[i].write < input'[j].write
        OBVIOUS
      <4>1. i \in DOMAIN input /\ input'[i] = input[i]
        <5>1. i \in Nat /\ j \in Nat /\ Len(input) \in Nat /\ j <= Len(input) + 1
          BY <1>0, <2>4
        <5>. QED
          BY <3>2, <5>1
      <4>2. CASE j \in DOMAIN input /\ input'[j] = input[j]
        BY <4>1, <4>2 DEF AnswerInv
      <4>3. CASE input'[j] = x
        BY <1>a, <2>4, <3>1, <4>1, <4>3
      <4>. QED
        BY <3>2, <4>2, <4>3
    <3>. QED
      BY <1>4, <1>a, <2>2, <3>1, <3>4, <3>5, <3>6, <3>7 DEF AnswerInv, Writing
  <2>. QED
    BY <1>4, <2>1, <2>3, <2>4, SentPart
<1>5. CASE Execute
  <2>1. PICK i \in 1 .. Len(input), w \in 1 .. writes, a \in Seq(Nat) :
          /\ i \in DOMAIN input /\ w = input[i].write /\ input[i].last
          /\ input' = SubSeq(input, i + 1, Len(input))
          /\ a = Answer(w)
          /\ \/ Bytes(output') = Bytes(output) \cup ToSet(a) /\ dropped' = dropped
             \/ Bytes(output') = ToSet(a) /\ dropped' = dropped \cup Bytes(output)
          /\ UNCHANGED <<data, read_ahead, delivered>>
    BY <1>5, ExecuteFacts, ZenonT(60)
  <2>2. Known' = Known \cup ToSet(a)
    BY <2>1 DEF Known
  <2>3. UNCHANGED <<pc, call, writes>>
    BY <1>5 DEF Execute
  <2>4. w \in Nat /\ 1 <= w /\ w <= writes /\ i \in Nat /\ i <= Len(input)
    BY <1>0
  <2>5. /\ \A b \in ToSet(a) : Floor(w) < b /\ b <= Floor(w + 1)
        /\ \A b \in ToSet(a) : b \in Nat
    BY <2>1, <2>4, AnswerFacts, SetOf
  <2>a. Floor(w) \in Nat /\ Floor(w + 1) = Floor(w) + Length
        /\ \A v \in Nat : w < v => Floor(w) + Length <= Floor(v)
    BY <2>4, FloorFacts, Zenon
  <2>6. ASSUME NEW v \in Nat, w < v PROVE Floor(w + 1) <= Floor(v) /\ Floor(v) \in Nat
    <3>1. 1 <= v
      BY <2>4, <2>6
    <3>2. Floor(v) \in Nat
      BY <3>1, FloorFacts
    <3>. QED
      BY <2>6, <2>a, <3>2
  <2>7. /\ input' \in Seq(Part) /\ Len(input') = Len(input) - i
        /\ \A j \in 1 .. Len(input) - i : input'[j] = input[i + j]
    BY <1>0, <2>1, <2>4, CutFacts, SMTT(60)
  <2>8. \A j \in DOMAIN input' : i + j \in DOMAIN input /\ input'[j] = input[i + j] /\ i < i + j
    BY <1>0, <2>4, <2>7
  <2>9. \A b \in Known' : b <= Floor(writes' + 1)
    <3>1. writes + 1 \in Nat /\ w < writes + 1
      BY <1>0, <2>4
    <3>2. \A b \in ToSet(a) : b <= Floor(writes + 1)
      <4>1. Floor(w + 1) <= Floor(writes + 1) /\ Floor(writes + 1) \in Nat /\ Floor(w + 1) \in Nat
        BY <1>0, <2>6, <2>a, <3>1
      <4>. QED
        BY <2>5, <4>1
    <3>. QED
      BY <1>a, <2>2, <2>3, <3>2
  <2>10. \A j \in DOMAIN input' : input'[j].write \in 1 .. writes
    BY <2>8 DEF AnswerInv
  <2>11. ASSUME NEW v \in Nat, w < v PROVE \A b \in ToSet(a) : b <= Floor(v)
    <3>1. Floor(w + 1) <= Floor(v) /\ Floor(v) \in Nat /\ Floor(w + 1) \in Nat
      BY <1>0, <2>6, <2>a, <2>11
    <3>. QED
      BY <2>5, <3>1
  <2>12. Writing' => /\ \A b \in Known' : b <= Floor(writes)
                     /\ \A j \in DOMAIN input' : input'[j].last => input'[j].write < writes
    <3>1. Writing' => Writing
      BY <2>3 DEF Writing
    <3>2. Writing => w < writes
      BY <1>a, <2>1
    <3>. QED
      BY <1>0, <1>a, <2>2, <2>8, <2>11, <3>1, <3>2
  <2>13. \A j \in DOMAIN input' : input'[j].last => \A b \in Known' : b <= Floor(input'[j].write)
    <3>. SUFFICES ASSUME NEW j \in DOMAIN input', input'[j].last PROVE \A b \in Known' : b <= Floor(input'[j].write)
      OBVIOUS
    <3>1. w < input'[j].write /\ input'[j].write \in Nat
      BY <1>0, <2>1, <2>8 DEF AnswerInv
    <3>2. \A b \in Known : b <= Floor(input'[j].write)
      BY <2>8 DEF AnswerInv
    <3>. QED
      BY <2>2, <2>11, <3>1, <3>2
  <2>14. \A j, k \in DOMAIN input' : j < k /\ input'[j].last /\ input'[k].last => input'[j].write < input'[k].write
    <3>. SUFFICES ASSUME NEW j \in DOMAIN input', NEW k \in DOMAIN input', j < k, input'[j].last, input'[k].last
                  PROVE  input'[j].write < input'[k].write
      OBVIOUS
    <3>1. i + j < i + k
      BY <2>4, <2>7
    <3>. QED
      BY <2>8, <3>1 DEF AnswerInv
  <2>. QED
    BY <2>3, <2>9, <2>10, <2>12, <2>13, <2>14 DEF AnswerInv, Writing
<1>6. Known' = Known \/ Execute
  BY MoveFacts
<1>7. (writes' = writes /\ (Writing' => Writing)) \/ (writes' = writes + 1 /\ input' = input)
  BY WritingSteps
<1>8. ASSUME Known' = Known, writes' = writes, Writing' => Writing, NEW n \in 0 .. Len(input), input' = SubSeq(input, 1, n)
      PROVE  AnswerInv'
  <2>1. input' \in Seq(Part) /\ Len(input') = n /\ \A i \in 1 .. n : input'[i] = input[i]
    BY <1>0, <1>8, HeadFacts
  <2>2. \A i \in DOMAIN input' : i \in DOMAIN input /\ input'[i] = input[i]
    BY <1>0, <2>1
  <2>3. /\ \A i \in DOMAIN input' : input'[i].write \in 1 .. writes
        /\ Writing => /\ \A b \in Known : b <= Floor(writes)
                      /\ \A i \in DOMAIN input' : input'[i].last => input'[i].write < writes
        /\ \A i \in DOMAIN input' : input'[i].last => \A b \in Known : b <= Floor(input'[i].write)
        /\ \A i, j \in DOMAIN input' : i < j /\ input'[i].last /\ input'[j].last => input'[i].write < input'[j].write
    BY <1>a, <2>2, Zenon
  <2>. QED
    BY <1>8, <1>a, <2>3 DEF AnswerInv, Writing
<1>9. RecoverCancelledTransfer => writes' = writes
  BY DEF RecoverCancelledTransfer
<1>. QED
  BY <1>0, <1>1, <1>2, <1>3, <1>4, <1>5, <1>6, <1>7, <1>8, <1>9, InputSteps

-----------------------------------------------------------------------------
(* Nothing is forgotten. *)

\* Of an answer all bytes are in K, or none.
Complete(K) == \A b \in K : ToSet(Answer(AnswerOf(b))) \subseteq K

\* NothingForgotten says that of the bytes known.
LEMMA ForgottenOrNot ==
    ASSUME data \in Seq(Byte), read_ahead \in Seq(Byte)
    PROVE  NothingForgotten <=> Complete(Known)
<1>1. ToSet(data \o read_ahead) = ToSet(data) \cup ToSet(read_ahead)
  BY JoinSet, ZenonT(60)
<1>2. delivered \cup dropped \cup ToSet(Held) \cup Bytes(output) = Known
  BY <1>1 DEF Held, Known
<1>. QED
  BY <1>2, Zenon DEF NothingForgotten, Complete

\* The same in the next state.
LEMMA ForgottenOrNotPrimed ==
    ASSUME data' \in Seq(Byte), read_ahead' \in Seq(Byte)
    PROVE  NothingForgotten' <=> Complete(Known')
<1>1. ToSet(data' \o read_ahead') = ToSet(data') \cup ToSet(read_ahead')
  BY JoinSet, ZenonT(60)
<1>2. delivered' \cup dropped' \cup ToSet(Held') \cup Bytes(output') = Known'
  BY <1>1 DEF Held, Known, Bytes
<1>. QED
  BY <1>2, Zenon DEF NothingForgotten, Complete

\* No step forgets a byte.
LEMMA ForgottenStep ==
    ASSUME MessageTypes, CallInv, AnswerInv, NothingForgotten, [Next]_vars
    PROVE  NothingForgotten'
<1>1. data' \in Seq(Byte) /\ read_ahead' \in Seq(Byte) /\ data \in Seq(Byte) /\ read_ahead \in Seq(Byte) /\ writes \in Nat
  BY MoveFacts, BoundAssumption DEF MessageTypes, BufferTypes, NumberTypes, IdTypes
<1>2. Complete(Known)
  BY <1>1, ForgottenOrNot
<1>3. Complete(Known')
  <2>1. CASE Known' = Known
    BY <1>2, <2>1
  <2>2. ASSUME NEW w \in 1 .. writes, Known' = Known \cup ToSet(Answer(w)) PROVE Complete(Known')
    <3>1. w \in Nat /\ 1 <= w
      BY <1>1
    <3>2. \A b \in ToSet(Answer(w)) : AnswerOf(b) = w
      BY <3>1, AnswerFacts, Zenon
    <3>. QED
      BY <1>2, <2>2, <3>2, Zenon DEF Complete
  <2>. QED
    BY <2>1, <2>2, MoveFacts
<1>. QED
  BY <1>1, <1>3, ForgottenOrNotPrimed

-----------------------------------------------------------------------------
(* The answers on their way. *)

\* OutputInv for the sequence s.
Messages(s) ==
    /\ \A i \in 2 .. Len(s) : s[i] # Interrupted
    /\ s # <<>> => s[Len(s)] # Interrupted /\ EndsMessage(s[Len(s)])
    /\ \A i, j \in 1 .. Len(s) :
          i < j /\ s[i] # Interrupted /\ AnswerOf(s[i]) # AnswerOf(s[j]) => \E m \in i .. (j - 1) : EndsMessage(s[m])

\* What is left of the answers when the first n bytes are gone.
LEMMA MessagesCut ==
    ASSUME NEW s \in Seq(Nat), NEW n \in Nat, n <= Len(s), Messages(s)
    PROVE  Messages(SubSeq(s, n + 1, Len(s)))
<1>. DEFINE t == SubSeq(s, n + 1, Len(s))
<1>0. Len(s) \in Nat
  OBVIOUS
<1>1. t \in Seq(Nat) /\ Len(t) = Len(s) - n /\ \A i \in 1 .. Len(s) - n : t[i] = s[n + i]
  BY CutFacts, Zenon
<1>. HIDE DEF t
<1>2. ASSUME NEW i \in 2 .. Len(t) PROVE t[i] # Interrupted
  <2>1. n + i \in 2 .. Len(s) /\ i \in 1 .. Len(s) - n
    BY <1>0, <1>1
  <2>. QED
    BY <1>1, <2>1 DEF Messages
<1>3. ASSUME t # <<>> PROVE t[Len(t)] # Interrupted /\ EndsMessage(t[Len(t)])
  <2>1. Len(t) \in 1 .. Len(s) - n /\ n + Len(t) = Len(s) /\ s # <<>>
    BY <1>0, <1>1, <1>3
  <2>2. t[Len(t)] = s[Len(s)]
    BY <1>1, <2>1
  <2>. QED
    BY <2>1, <2>2 DEF Messages
<1>4. ASSUME NEW i \in 1 .. Len(t), NEW j \in 1 .. Len(t), i < j, t[i] # Interrupted, AnswerOf(t[i]) # AnswerOf(t[j])
      PROVE  \E m \in i .. (j - 1) : EndsMessage(t[m])
  <2>1. n + i \in 1 .. Len(s) /\ n + j \in 1 .. Len(s) /\ n + i < n + j /\ i \in 1 .. Len(s) - n /\ j \in 1 .. Len(s) - n
    BY <1>0, <1>1, <1>4, SMTT(60)
  <2>2. t[i] = s[n + i] /\ t[j] = s[n + j]
    BY <1>1, <2>1
  <2>3. PICK m \in (n + i) .. ((n + j) - 1) : EndsMessage(s[m])
    BY <1>4, <2>1, <2>2 DEF Messages
  <2>4. m - n \in i .. (j - 1) /\ m - n \in 1 .. Len(s) - n /\ n + (m - n) = m
    <3>1. i \in Nat /\ j \in Nat /\ 1 <= i /\ j <= Len(s) - n
      BY <1>0, <2>1
    <3>2. m \in Int /\ n + i <= m /\ m <= (n + j) - 1
      BY <2>3, <3>1
    <3>. QED
      BY <1>0, <3>1, <3>2
  <2>5. EndsMessage(t[m - n])
    BY <1>1, <2>3, <2>4
  <2>. QED
    BY <2>4, <2>5
<1>5. Messages(t)
  BY <1>2, <1>3, <1>4 DEF Messages
<1>. QED
  BY <1>5 DEF t

\* An answer joins those on their way, or comes after the message Interrupted.
LEMMA MessagesJoin ==
    ASSUME NEW s \in Seq(Nat), Messages(s) \/ s = <<Interrupted>>, NEW w \in Nat, 1 <= w
    PROVE  Messages(s \o Answer(w))
<1>. DEFINE a == Answer(w)
            c == s \o Answer(w)
<1>0. Len(s) \in Nat /\ Length \in Nat /\ 1 <= Length
  BY LengthAssumption
<1>1. /\ a \in Seq(Byte) /\ Len(a) = Length /\ EndsMessage(a[Length])
      /\ \A i \in 1 .. Length : AnswerOf(a[i]) = w
  BY AnswerFacts, Zenon
<1>2. a \in Seq(Nat) /\ \A i \in 1 .. Length : a[i] \in Nat /\ a[i] # Interrupted
  <2>. HIDE DEF a
  <2>. QED
    BY <1>1 DEF Byte, Interrupted
<1>3. /\ c \in Seq(Nat) /\ Len(c) = Len(s) + Length
      /\ \A i \in 1 .. Len(s) : c[i] = s[i]
      /\ \A i \in 1 .. Length : c[Len(s) + i] = a[i]
  <2>1. c = s \o a
    OBVIOUS
  <2>. HIDE DEF a, c
  <2>a. a \in Seq(Nat)
    BY <1>2
  <2>2. /\ s \o a \in Seq(Nat) /\ Len(s \o a) = Len(s) + Len(a)
        /\ \A i \in 1 .. Len(s) : (s \o a)[i] = s[i]
        /\ \A i \in 1 .. Len(a) : (s \o a)[Len(s) + i] = a[i]
    BY <2>a
  <2>. QED
    BY <1>1, <2>1, <2>2, Zenon
<1>. HIDE DEF a, c
<1>4. \A i \in 1 .. Len(c) : i <= Len(s) \/ (i - Len(s) \in 1 .. Length /\ c[i] = a[i - Len(s)])
  <2>. SUFFICES ASSUME NEW i \in 1 .. Len(c), ~(i <= Len(s)) PROVE i - Len(s) \in 1 .. Length /\ c[i] = a[i - Len(s)]
    OBVIOUS
  <2>1. i - Len(s) \in 1 .. Length /\ Len(s) + (i - Len(s)) = i
    BY <1>0, <1>3
  <2>. QED
    BY <1>3, <2>1
<1>5. ASSUME NEW i \in 2 .. Len(c) PROVE c[i] # Interrupted
  <2>1. CASE i <= Len(s)
    <3>1. i \in 1 .. Len(s) /\ i \in 2 .. Len(s) /\ s # <<Interrupted>>
      BY <1>0, <1>3, <2>1, SMTT(60)
    <3>. QED
      BY <1>3, <3>1 DEF Messages
  <2>2. CASE i > Len(s)
    <3>1. i \in 1 .. Len(c) /\ ~(i <= Len(s))
      BY <1>0, <1>3, <2>2
    <3>. QED
      BY <1>2, <1>4, <3>1
  <2>. QED
    BY <1>0, <1>3, <2>1, <2>2
<1>6. c[Len(c)] # Interrupted /\ EndsMessage(c[Len(c)])
  <2>1. c[Len(c)] = a[Length] /\ Length \in 1 .. Length
    BY <1>0, <1>3
  <2>. QED
    BY <1>1, <1>2, <2>1
<1>7. ASSUME NEW i \in 1 .. Len(c), NEW j \in 1 .. Len(c), i < j, c[i] # Interrupted, AnswerOf(c[i]) # AnswerOf(c[j])
      PROVE  \E m \in i .. (j - 1) : EndsMessage(c[m])
  <2>1. CASE i > Len(s)
    <3>1. ~(i <= Len(s)) /\ ~(j <= Len(s))
      BY <1>0, <1>3, <1>7, <2>1
    <3>. QED
      BY <1>1, <1>4, <1>7, <3>1
  <2>2. CASE i <= Len(s)
    <3>1. i \in 1 .. Len(s) /\ c[i] = s[i] /\ s # <<>>
      BY <1>0, <1>3, <2>2
    <3>2. s # <<Interrupted>>
      <4>1. ASSUME s = <<Interrupted>> PROVE FALSE
        <5>1. i = 1 /\ s[1] = Interrupted
          BY <3>1, <4>1
        <5>. QED
          BY <1>7, <3>1, <5>1
      <4>. QED
        BY <4>1
    <3>3. CASE j <= Len(s)
      <4>1. j \in 1 .. Len(s) /\ c[j] = s[j]
        BY <1>0, <1>3, <3>3
      <4>2. PICK m \in i .. (j - 1) : EndsMessage(s[m])
        BY <1>7, <3>1, <3>2, <4>1 DEF Messages
      <4>3. m \in 1 .. Len(s)
        BY <1>0, <3>1, <4>1
      <4>. QED
        BY <1>3, <4>2, <4>3
    <3>4. CASE j > Len(s)
      <4>1. Len(s) \in i .. (j - 1) /\ Len(s) \in 1 .. Len(s)
        BY <1>0, <1>3, <3>1, <3>4
      <4>2. EndsMessage(c[Len(s)])
        BY <1>3, <3>1, <3>2, <4>1 DEF Messages
      <4>. QED
        BY <4>1, <4>2
    <3>. QED
      BY <1>0, <1>3, <3>3, <3>4
  <2>. QED
    BY <1>0, <1>3, <2>1, <2>2
<1>8. Messages(c)
  BY <1>5, <1>6, <1>7 DEF Messages
<1>. QED
  BY <1>8 DEF c

\* What is on its way goes from the front, but for what the instrument does.
LEMMA OutputMoves ==
    ASSUME MessageTypes, CallInv, [Next]_vars
    PROVE  Execute \/ \E n \in Nat : n <= Len(output) /\ output' = SubSeq(output, n + 1, Len(output))
<1>0. output \in Seq(Nat) /\ Len(output) \in Nat /\ output \in Suffixes(output)
  BY SuffixSelf DEF MessageTypes, BufferTypes
<1>1. \A t \in Suffixes(output) : \E n \in Nat : n <= Len(output) /\ t = SubSeq(output, n + 1, Len(output))
  BY <1>0, SuffixFacts
<1>2. CASE Stays \/ TakesUp \/ GivesBack \/ GivesUp
  <2>1. output' \in Suffixes(output)
    BY <1>0, <1>2 DEF Stays, TakesUp, GivesBack, GivesUp
  <2>. QED
    BY <1>1, <2>1
<1>3. ASSUME NEW k \in 1 .. Len(output), NEW n \in 0 .. k, Arrive(k, n)
      PROVE  \E m \in Nat : m <= Len(output) /\ output' = SubSeq(output, m + 1, Len(output))
  BY <1>0, <1>3 DEF Arrive
<1>4. ASSUME NEW n \in 0 .. Len(data), Delivers(n)
      PROVE  \E m \in Nat : m <= Len(output) /\ output' = SubSeq(output, m + 1, Len(output))
  BY <1>0, <1>1, <1>4 DEF Delivers
<1>. QED
  BY <1>2, <1>3, <1>4, Moves

\* Every step preserves OutputInv.
LEMMA OutputStep ==
    ASSUME MessageTypes, CallInv, AnswerInv, OutputInv, [Next]_vars
    PROVE  OutputInv'
<1>0. output \in Seq(Nat) /\ Messages(output) /\ writes \in Nat
  BY BoundAssumption DEF MessageTypes, BufferTypes, NumberTypes, IdTypes, OutputInv, Messages
<1>1. CASE Execute
  <2>1. PICK w \in 1 .. writes, pre \in Seq(Nat) :
          /\ output' = pre \o Answer(w)
          /\ pre = output \/ pre \in {<<>>, <<Interrupted>>}
    BY <1>1, ExecuteFacts
  <2>2. Messages(<<>>)
    BY DEF Messages
  <2>3. w \in Nat /\ 1 <= w /\ (Messages(pre) \/ pre = <<Interrupted>>)
    BY <1>0, <2>1, <2>2
  <2>4. Messages(pre \o Answer(w))
    BY <2>3, MessagesJoin, Zenon
  <2>. QED
    BY <2>1, <2>4 DEF OutputInv, Messages
<1>2. ASSUME NEW n \in Nat, n <= Len(output), output' = SubSeq(output, n + 1, Len(output)) PROVE OutputInv'
  <2>1. Messages(output')
    BY <1>0, <1>2, MessagesCut
  <2>. QED
    BY <2>1 DEF OutputInv, Messages
<1>. QED
  BY <1>1, <1>2, OutputMoves

-----------------------------------------------------------------------------
(* Message ids. *)

\* A part is sent, with or without an error.
Sending == SendPart \/ WriteCancelled \/ WriteError

\* How ids are taken and start again.
LEMMA IdMoves ==
    ASSUME MessageTypes, CallInv, [Next]_vars
    PROVE  \/ UNCHANGED <<idVars, ids, writes>> /\ (Writing => Writing') /\ ~Sending
           \/ TakeId /\ writes' = writes /\ pc = "writing" /\ ~Execute
           \/ output' = <<>> /\ input' = <<>>
           \/ writes' = writes + 1 /\ Writing' /\ UNCHANGED <<idVars, ids, input, output>>
<1>0. next_message_id + 2 # next_message_id
  BY DEF MessageTypes, NumberTypes, IdTypes
<1>a. Sending => TakeId
  BY DEF Sending, SendPart, WriteCancelled, WriteError
<1>b. UNCHANGED idVars => ~Sending
  BY <1>0, <1>a DEF TakeId
<1>1. CASE (\E count \in Counts, tc \in BOOLEAN : BeginRead(count, tc)) \/ Receive \/ Reject \/ FinishRead
           \/ ReadError \/ ReadCancelled \/ CancelRecoveryFails \/ RecoverCancelledTransfer
  <2>1. ~Writing
    BY <1>1 DEF BeginRead, Begin, Receive, Wanting, Reject, FinishRead, ReadError, ReadCancelled, CancelRecoveryFails,
                RecoverCancelledTransfer, Writing
  <2>2. UNCHANGED <<idVars, ids, writes>>
    BY <1>1 DEF BeginRead, Receive, Reject, FinishRead, ReadError, ReadCancelled, CancelRecoveryFails,
                RecoverCancelledTransfer
  <2>. QED
    BY <1>b, <2>1, <2>2
<1>2. CASE CompleteCancelRecovery \/ (ClearSucceeds /\ kind = "hislip")
  BY <1>2 DEF CompleteCancelRecovery, ClearSucceeds, DeviceClear
<1>3. CASE ClearSucceeds /\ kind # "hislip"
  BY <1>b, <1>3 DEF ClearSucceeds, Writing
<1>4. ASSUME NEW what \in {"write", "trigger"}, NEW parts \in 1 .. 2, BeginWrite(what, parts)
      PROVE  \/ UNCHANGED <<idVars, ids, writes>> /\ ~Writing
             \/ writes' = writes + 1 /\ Writing' /\ UNCHANGED <<idVars, ids, input, output>>
  <2>1. CASE what = "write"
    <3>1. call' = [what |-> what, left |-> parts] /\ pc' = "writing" /\ parts > 0
      BY <1>4 DEF BeginWrite
    <3>2. Writing'
      BY <2>1, <3>1 DEF Writing
    <3>. QED
      BY <1>4, <2>1, <3>2 DEF BeginWrite
  <2>2. CASE what = "trigger"
    BY <1>4, <2>2 DEF BeginWrite, Begin, Writing
  <2>. QED
    BY <2>1, <2>2
<1>5. CASE SendPart \/ WriteCancelled \/ WriteError
  <2>1. TakeId /\ writes' = writes /\ pc = "writing"
    BY <1>5 DEF SendPart, WriteCancelled, WriteError
  <2>2. Execute => next_message_id' = next_message_id
    BY DEF Execute
  <2>. QED
    BY <1>0, <2>1, <2>2 DEF TakeId
<1>6. CASE FinishWrite
  <2>1. UNCHANGED <<idVars, ids, writes>> /\ call.left = 0
    BY <1>6 DEF FinishWrite
  <2>. QED
    BY <1>b, <2>1 DEF Writing
<1>7. CASE BeginClear \/ AnnounceClear \/ ClearFails \/ BeginReadStb \/ InterruptIn \/ ReadStbCancelled
  <2>1. ~Writing
    BY <1>7 DEF BeginClear, Begin, AnnounceClear, ClearFails, BeginReadStb, InterruptIn, ReadStbCancelled, Writing
  <2>2. UNCHANGED <<idVars, ids, writes>>
    BY <1>7 DEF BeginClear, AnnounceClear, ClearFails, BeginReadStb, InterruptIn, ReadStbCancelled
  <2>. QED
    BY <1>b, <2>1, <2>2
<1>8. CASE ClearTail \/ Flush \/ Terminate \/ Execute \/ ServiceRequest \/ UNCHANGED vars
  <2>1. UNCHANGED <<idVars, ids, writes, pc, call>>
    BY <1>8 DEF ClearTail, Flush, Terminate, Execute, ServiceRequest, vars
  <2>. QED
    BY <1>b, <2>1 DEF Writing
<1>. QED
  BY <1>1, <1>2, <1>3, <1>4, <1>5, <1>6, <1>7, <1>8, <1>b DEF Next

\* Only a write that is sent is awaited from now on.
LEMMA AwaitedMoves ==
    ASSUME MessageTypes, CallInv, AnswerInv, [Next]_vars
    PROVE  \A w \in Awaited' : w \in Awaited \/ (w = writes /\ Sending /\ call.what = "write")
<1>0. input \in Seq(Part) /\ output \in Seq(Nat) /\ writes \in Nat
  BY BoundAssumption DEF MessageTypes, BufferTypes, NumberTypes, IdTypes, QueueTypes
<1>. DEFINE Sent(w) == w = writes /\ Sending /\ call.what = "write"
<1>1. Awaited' = {AnswerOf(b) : b \in Bytes(output')} \cup {input'[i].write : i \in DOMAIN input'}
  BY Zenon DEF Awaited, Bytes
<1>2. ASSUME NEW i \in DOMAIN input'
      PROVE  input'[i].write \in Awaited \/ Sent(input'[i].write)
  <2>1. CASE input' = input
    BY <2>1 DEF Awaited
  <2>2. CASE input' = <<>>
    BY <2>2
  <2>3. ASSUME NEW whole \in BOOLEAN, NEW failed \in BOOLEAN, Sends(failed), input' = Received(whole, failed)
        PROVE  input'[i].write \in Awaited \/ Sent(input'[i].write)
    <3>1. pc = "writing" /\ Sending
      BY <2>3 DEF Sends, Sending, SendPart, WriteCancelled, WriteError
    <3>2. ASSUME call.what = "write", NEW x \in Part, input' = Append(input, x), x.write = writes
          PROVE  input'[i].write \in Awaited \/ Sent(input'[i].write)
      <4>1. (i \in DOMAIN input /\ input'[i] = input[i]) \/ input'[i] = x
        BY <1>0, <3>2
      <4>. QED
        BY <3>1, <3>2, <4>1 DEF Awaited
    <3>. QED
      BY <2>1, <2>3, <3>1, <3>2, SentPart
  <2>4. CASE Execute
    <3>1. PICK k \in 1 .. Len(input) : input' = SubSeq(input, k + 1, Len(input))
      BY <2>4 DEF Execute
    <3>2. k \in Nat /\ k <= Len(input)
      BY <1>0
    <3>3. /\ input' \in Seq(Part) /\ Len(input') = Len(input) - k
          /\ \A j \in 1 .. Len(input) - k : input'[j] = input[k + j]
      BY <1>0, <3>1, <3>2, CutFacts
    <3>4. k + i \in DOMAIN input /\ input'[i] = input[k + i]
      <4>1. DOMAIN input' = 1 .. Len(input) - k /\ DOMAIN input = 1 .. Len(input) /\ Len(input) \in Nat
        BY <1>0, <3>3
      <4>2. i \in 1 .. Len(input) - k
        BY <4>1
      <4>3. k + i \in 1 .. Len(input)
        BY <3>2, <4>1, <4>2
      <4>. QED
        BY <3>3, <4>1, <4>2, <4>3, Zenon
    <3>. QED
      BY <3>4 DEF Awaited
  <2>5. ASSUME NEW n \in 0 .. Len(input), input' = SubSeq(input, 1, n) PROVE input'[i].write \in Awaited
    <3>1. i \in DOMAIN input /\ input'[i] = input[i]
      BY <1>0, <2>5, HeadFacts
    <3>. QED
      BY <3>1 DEF Awaited
  <2>. QED
    BY <2>1, <2>2, <2>3, <2>4, <2>5, InputSteps
<1>3. ASSUME NEW b \in Bytes(output') PROVE AnswerOf(b) \in Awaited
  <2>1. CASE Execute
    <3>1. PICK i \in DOMAIN input, w \in 1 .. writes, pre \in Seq(Nat) :
            /\ w = input[i].write
            /\ Bytes(output') = Bytes(pre) \cup ToSet(Answer(w))
            /\ pre = output \/ Bytes(pre) = {}
      BY <2>1, ExecuteFacts
    <3>2. w \in Nat /\ 1 <= w
      BY <1>0
    <3>3. \A y \in ToSet(Answer(w)) : AnswerOf(y) = w
      BY <3>2, AnswerFacts, Zenon
    <3>. QED
      BY <3>1, <3>3 DEF Awaited
  <2>2. ASSUME NEW n \in Nat, n <= Len(output), output' = SubSeq(output, n + 1, Len(output)) PROVE AnswerOf(b) \in Awaited
    <3>1. ToSet(output) = ToSet(SubSeq(output, 1, n)) \cup ToSet(SubSeq(output, n + 1, Len(output)))
      BY <1>0, <2>2, CutSetOf, Zenon
    <3>2. b \in Bytes(output)
      BY <2>2, <3>1, Zenon DEF Bytes
    <3>. QED
      BY <3>2, Zenon DEF Awaited
  <2>. QED
    BY <2>1, <2>2, OutputMoves
<1>. QED
  BY <1>1, <1>2, <1>3

\* Every step preserves IdInv.
LEMMA IdInvStep ==
    ASSUME MessageTypes, CallInv, AnswerInv, IdInv, [Next]_vars
    PROVE  IdInv'
<1>0. /\ next_message_id \in Nat /\ last_sent_message_id \in Nat /\ last_sent_message_id < next_message_id
      /\ writes \in 1 .. MaxWrites /\ MaxWrites \in Nat /\ writes \in Nat
      /\ ids \in [1 .. MaxWrites -> Nat]
  BY BoundAssumption DEF MessageTypes, NumberTypes, IdTypes
<1>1. \A w \in Awaited : /\ w \in 1 .. writes /\ ids[w] <= last_sent_message_id
                         /\ ids[w] = last_sent_message_id => w = writes \/ Writing
  BY Zenon DEF IdInv, Writing
<1>2. SUFFICES ASSUME NEW w \in Awaited'
               PROVE  /\ w \in 1 .. writes' /\ ids'[w] <= last_sent_message_id'
                      /\ ids'[w] = last_sent_message_id' => w = writes' \/ Writing'
  BY Zenon DEF IdInv, Writing
<1>3. w \in Awaited \/ (w = writes /\ Sending /\ call.what = "write")
  BY AwaitedMoves
<1>4. CASE UNCHANGED <<idVars, ids, writes>> /\ (Writing => Writing') /\ ~Sending
  BY <1>1, <1>3, <1>4
<1>5. CASE TakeId /\ writes' = writes /\ pc = "writing"
  <2>1. w \in 1 .. writes /\ w \in 1 .. MaxWrites
    BY <1>0, <1>1, <1>3
  <2>2. CASE call.what = "write"
    <3>1. /\ last_sent_message_id' = next_message_id
          /\ ids' = [ids EXCEPT ![writes] = next_message_id]
      BY <1>5, <2>2 DEF TakeId
    <3>2. CASE w = writes
      BY <1>0, <1>5, <2>1, <3>1, <3>2
    <3>3. CASE w # writes
      <4>1. ids'[w] = ids[w] /\ ids[w] <= last_sent_message_id /\ ids[w] \in Nat
        BY <1>0, <1>1, <1>3, <2>1, <3>1, <3>3
      <4>. QED
        BY <1>0, <1>5, <2>1, <3>1, <4>1
    <3>. QED
      BY <3>2, <3>3
  <2>3. CASE call.what # "write"
    <3>1. last_sent_message_id' = next_message_id /\ ids' = ids
      BY <1>5, <2>3 DEF TakeId
    <3>2. ids[w] <= last_sent_message_id /\ ids[w] \in Nat
      BY <1>0, <1>1, <1>3, <2>1, <2>3
    <3>. QED
      BY <1>0, <1>5, <2>1, <3>1, <3>2
  <2>. QED
    BY <2>2, <2>3
<1>6. CASE output' = <<>> /\ input' = <<>>
  <2>1. Bytes(output') = {} /\ DOMAIN input' = {}
    BY <1>6, SetOfEmpty DEF Bytes
  <2>2. Awaited' = {}
    BY <2>1 DEF Awaited, Bytes
  <2>. QED
    BY <2>2
<1>7. CASE writes' = writes + 1 /\ Writing' /\ UNCHANGED <<idVars, ids, input, output>>
  <2>1. Awaited' = Awaited
    BY <1>7 DEF Awaited, Bytes
  <2>. QED
    BY <1>0, <1>1, <1>7, <2>1
<1>. QED
  BY <1>4, <1>5, <1>6, <1>7, IdMoves

-----------------------------------------------------------------------------
(* A transfer that brings bytes. *)

\* What Receive does with the chunk c: it takes p, and reads r ahead.
Taken(k, n, c, p, r) ==
    /\ Arrive(k, n) /\ Chunk(k, n, c, p, r)
    /\ \A i \in 1 .. (k - 1) : ~EndsMessage(c[i])
    /\ kind = "hislip" => ~Stale(c[1])
    /\ MarkEnd(EndsMessage(c[k]), r)
    /\ kind # "raw" =>
          /\ termchar' = (call.termchar /\ n > 0 /\ IsTermchar(c[n]))
          /\ n < k => n = call.count - Len(data) \/ (call.termchar /\ n > 0 /\ IsTermchar(c[n]))

\* Receive takes a chunk that ends where the read does.
LEMMA ReceiveFacts ==
    ASSUME MessageTypes, CallInv, Receive
    PROVE  \E k \in 1 .. Len(output) : \E n \in 0 .. k : \E c, p, r \in Seq(Byte) : Taken(k, n, c, p, r)
<1>0. data \in Seq(Byte) /\ output \in Seq(Nat) /\ Len(data) \in Nat /\ Len(output) \in Nat
  BY DEF MessageTypes, BufferTypes
<1>1. PICK k \in 1 .. Len(output) :
        LET chunk == SubSeq(output, 1, k)
            room == call.count - Len(data)
            n == IF kind = "raw" THEN k ELSE Prefix(chunk, room, call.termchar)
            rest == SubSeq(chunk, n + 1, k)
        IN  /\ Interrupted \notin ToSet(chunk)
            /\ \A i \in 1 .. (k - 1) : ~EndsMessage(chunk[i])
            /\ kind = "hislip" => ~Stale(chunk[1])
            /\ data' = data \o SubSeq(chunk, 1, n)
            /\ termchar' = (kind # "raw" /\ call.termchar /\ n > 0 /\ IsTermchar(chunk[n]))
            /\ read_ahead' = read_ahead \o rest
            /\ MarkEnd(EndsMessage(chunk[k]), rest)
            /\ output' = SubSeq(output, k + 1, Len(output))
  BY DEF Receive
<1>. DEFINE chunk == SubSeq(output, 1, k)
            n == IF kind = "raw" THEN k ELSE Prefix(chunk, call.count - Len(data), call.termchar)
<1>2. /\ Interrupted \notin ToSet(chunk)
      /\ \A i \in 1 .. (k - 1) : ~EndsMessage(chunk[i])
      /\ kind = "hislip" => ~Stale(chunk[1])
      /\ data' = data \o SubSeq(chunk, 1, n)
      /\ termchar' = (kind # "raw" /\ call.termchar /\ n > 0 /\ IsTermchar(chunk[n]))
      /\ read_ahead' = read_ahead \o SubSeq(chunk, n + 1, k)
      /\ MarkEnd(EndsMessage(chunk[k]), SubSeq(chunk, n + 1, k))
      /\ output' = SubSeq(output, k + 1, Len(output))
  BY <1>1
<1>3. Wanting /\ UNCHANGED <<got, delivered, dropped>>
  BY DEF Receive
<1>4. k \in Nat /\ k <= Len(output) /\ 1 <= k
  BY <1>0
<1>5. chunk \in Seq(Nat) /\ Len(chunk) = k
  BY <1>0, <1>4, CutFacts, ZenonT(60)
<1>6. chunk \in Seq(Byte)
  <2>1. Interrupted \notin ToSet(chunk)
    BY <1>2
  <2>. HIDE DEF chunk
  <2>2. ToSet(chunk) = {chunk[j] : j \in 1 .. Len(chunk)}
    BY <1>5, SetOf
  <2>3. \A i \in 1 .. Len(chunk) : chunk[i] \in Byte
    BY <1>5, <2>1, <2>2 DEF Byte, Interrupted
  <2>. QED
    BY <1>5, <2>3
<1>7. CASE kind = "raw"
  <2>1. n = k
    BY <1>7
  <2>. HIDE DEF chunk, n
  <2>2. k \in 0 .. k /\ Arrive(k, n)
    BY <1>2, <1>3, <1>4, <2>1 DEF Arrive, chunk
  <2>3. PICK c, p, r \in Seq(Byte) : Chunk(k, n, c, p, r)
    BY <2>1, <2>2, ArriveFacts
  <2>4. c = chunk /\ r = SubSeq(chunk, n + 1, k)
    BY <2>3 DEF Chunk, chunk
  <2>5. Taken(k, n, c, p, r)
    BY <1>2, <1>7, <2>2, <2>3, <2>4, Zenon DEF Taken
  <2>. QED
    BY <2>1, <2>2, <2>5, Zenon
<1>8. CASE kind # "raw"
  <2>1. call.count - Len(data) \in Nat /\ call.termchar \in BOOLEAN
    BY <1>0, <1>3, <1>8 DEF Wanting, CallInv, Byte
  <2>2. n = Prefix(chunk, call.count - Len(data), call.termchar)
    BY <1>8
  <2>. HIDE DEF chunk, n
  <2>3. /\ n \in 0 .. k
        /\ n < k => n = call.count - Len(data) \/ (n > 0 /\ call.termchar /\ IsTermchar(chunk[n]))
    <3>1. /\ n \in 0 .. Len(chunk)
          /\ n < Len(chunk) => n = call.count - Len(data) \/ (n > 0 /\ call.termchar /\ IsTermchar(chunk[n]))
      BY <1>6, <2>1, <2>2, PrefixFacts, SMTT(60)
    <3>. QED
      BY <1>5, <3>1
  <2>4. Arrive(k, n)
    BY <1>2, <1>3 DEF Arrive, chunk
  <2>5. PICK c, p, r \in Seq(Byte) : Chunk(k, n, c, p, r)
    BY <2>3, <2>4, ArriveFacts
  <2>6. c = chunk /\ r = SubSeq(chunk, n + 1, k)
    BY <2>5 DEF Chunk, chunk
  <2>7. Taken(k, n, c, p, r)
    BY <1>2, <1>8, <2>3, <2>4, <2>5, <2>6, Zenon DEF Taken
  <2>. QED
    BY <2>3, <2>7, Zenon
<1>. QED
  BY <1>7, <1>8

-----------------------------------------------------------------------------
(* A HiSLIP read returns the answer to the last write. *)

\* The bytes of a chunk that is not stale answer the last write.
LEMMA ChunkIsOwn ==
    ASSUME MessageTypes, CallInv, OutputInv, IdInv, kind = "hislip",
           NEW k \in 1 .. Len(output), NEW n \in 0 .. k, NEW c \in Seq(Byte), NEW p \in Seq(Byte), NEW r \in Seq(Byte),
           Taken(k, n, c, p, r)
    PROVE  \A b \in ToSet(c) : AnswerOf(b) = writes
<1>0. output \in Seq(Nat) /\ Len(output) \in Nat /\ k \in Nat /\ 1 <= k /\ k <= Len(output)
  <2>1. output \in Seq(Nat)
    BY DEF MessageTypes, BufferTypes
  <2>. QED
    BY <2>1
<1>1. /\ Len(c) = k /\ \A i \in 1 .. k : c[i] = output[i]
      /\ \A i \in 1 .. (k - 1) : ~EndsMessage(c[i])
      /\ ~Stale(c[1])
  BY DEF Taken, Chunk
<1>2. \A i \in 1 .. k : c[i] # Interrupted
  BY <1>1, SMTT(60) DEF Byte, Interrupted
<1>3. AnswerOf(c[1]) = writes
  <2>1. 1 \in 1 .. k /\ 1 \in DOMAIN output
    BY <1>0
  <2>2. c[1] \in Bytes(output)
    BY <1>1, <1>2, <2>1 DEF Bytes, ToSet
  <2>3. AnswerOf(c[1]) \in Awaited
    BY <2>2, Zenon DEF Awaited
  <2>4. ids[AnswerOf(c[1])] = last_sent_message_id
    BY <1>1 DEF Stale
  <2>5. pc = "reading"
    BY DEF Taken, Arrive, Wanting
  <2>. QED
    BY <2>3, <2>4, <2>5 DEF IdInv
<1>4. ASSUME NEW i \in 1 .. k PROVE AnswerOf(c[i]) = AnswerOf(c[1])
  <2>1. CASE i = 1
    BY <2>1
  <2>2. CASE i # 1
    <3>1. 1 \in 1 .. Len(output) /\ i \in 1 .. Len(output) /\ 1 < i /\ 1 \in 1 .. k
      BY <1>0, <2>2
    <3>2. ~ \E m \in 1 .. (i - 1) : EndsMessage(output[m])
      <4>. SUFFICES ASSUME NEW m \in 1 .. (i - 1), EndsMessage(output[m]) PROVE FALSE
        OBVIOUS
      <4>1. m \in 1 .. (k - 1) /\ m \in 1 .. k
        BY <1>0
      <4>. QED
        BY <1>1, <4>1
    <3>3. c[1] = output[1] /\ c[i] = output[i] /\ output[1] # Interrupted
      BY <1>1, <1>2, <3>1
    <3>. QED
      BY <3>1, <3>2, <3>3 DEF OutputInv
  <2>. QED
    BY <2>1, <2>2
<1>5. ToSet(c) = {c[i] : i \in 1 .. k}
  BY <1>1, SetOf
<1>. QED
  BY <1>3, <1>4, <1>5

\* But for a transfer, the bytes held are bytes that were held.
LEMMA HeldMoves ==
    ASSUME MessageTypes, CallInv, [Next]_vars, ~Receive
    PROVE  ToSet(data') \cup ToSet(read_ahead') \subseteq ToSet(data) \cup ToSet(read_ahead)
<1>0. data \in Seq(Byte) /\ read_ahead \in Seq(Byte) /\ Len(data) \in Nat /\ Len(read_ahead) \in Nat /\ ToSet(<<>>) = {}
  BY SetOfEmpty DEF MessageTypes, BufferTypes
<1>1. CASE Stays \/ Execute
  BY <1>1 DEF Stays, Execute
<1>2. CASE TakesUp
  <2>1. PICK n \in 0 .. Len(read_ahead) :
          /\ data' = SubSeq(read_ahead, 1, n)
          /\ read_ahead' = SubSeq(read_ahead, n + 1, Len(read_ahead))
    BY <1>2 DEF TakesUp
  <2>2. n \in Nat /\ n <= Len(read_ahead)
    BY <1>0
  <2>3. ToSet(read_ahead) = ToSet(SubSeq(read_ahead, 1, n)) \cup ToSet(SubSeq(read_ahead, n + 1, Len(read_ahead)))
    BY <1>0, <2>2, CutSetOf, Zenon
  <2>. QED
    BY <2>1, <2>3, Zenon
<1>3. ASSUME NEW n \in 0 .. Len(data), Delivers(n)
      PROVE  ToSet(data') \cup ToSet(read_ahead') \subseteq ToSet(data) \cup ToSet(read_ahead)
  <2>1. n \in Nat /\ n <= Len(data)
    BY <1>0
  <2>2. ToSet(data) = ToSet(SubSeq(data, 1, n)) \cup ToSet(SubSeq(data, n + 1, Len(data)))
    BY <1>0, <2>1, CutSetOf, Zenon
  <2>3. PICK r \in Seq(Byte) : r = SubSeq(data, n + 1, Len(data))
    BY <1>0, <2>1, CutFacts
  <2>4. ToSet(read_ahead \o r) = ToSet(read_ahead) \cup ToSet(r)
    BY <1>0, JoinSet
  <2>5. data' = <<>> /\ read_ahead' = read_ahead \o r
    BY <1>3, <2>3 DEF Delivers
  <2>. QED
    BY <1>0, <2>2, <2>3, <2>4, <2>5, Zenon
<1>4. CASE GivesBack
  <2>1. ToSet(data \o read_ahead) = ToSet(data) \cup ToSet(read_ahead)
    BY <1>0, JoinSet
  <2>2. data' = <<>> /\ read_ahead' = data \o read_ahead
    BY <1>4 DEF GivesBack
  <2>. QED
    BY <1>0, <2>1, <2>2, Zenon
<1>5. CASE GivesUp
  BY <1>0, <1>5 DEF GivesUp
<1>. QED
  BY <1>1, <1>2, <1>3, <1>4, <1>5, Moves

\* What a read has returned is what it had collected.
LEMMA GotMoves ==
    ASSUME MessageTypes, CallInv, [Next]_vars
    PROVE  \/ got' = got
           \/ /\ got' = [bytes |-> got'.bytes, write |-> writes] /\ pc = "reading"
              /\ \E n \in 0 .. Len(data) : got'.bytes = SubSeq(data, 1, n) /\ Delivers(n)
<1>1. CASE Stays \/ Execute \/ TakesUp \/ GivesBack \/ GivesUp \/ Receive
  BY <1>1 DEF Stays, Execute, TakesUp, GivesBack, GivesUp, Receive
<1>2. ASSUME NEW n \in 0 .. Len(data), FinishRead, Delivers(n)
      PROVE  /\ got' = [bytes |-> got'.bytes, write |-> writes] /\ pc = "reading"
             /\ got'.bytes = SubSeq(data, 1, n)
  <2>1. got' = [bytes |-> SubSeq(data, 1, n), write |-> writes] /\ pc = "reading"
    BY <1>2 DEF Delivers, FinishRead
  <2>. QED
    BY <2>1
<1>. QED
  BY <1>1, <1>2, Moves

\* Every step preserves OwnAnswer: the check of ids rejects other answers.
LEMMA OwnStep ==
    ASSUME MessageTypes, CallInv, OutputInv, IdInv, OwnInv, OwnAnswer, [Next]_vars
    PROVE  OwnInv' /\ OwnAnswer'
<1>0. /\ data \in Seq(Byte) /\ read_ahead \in Seq(Byte) /\ Len(data) \in Nat
      /\ kind' = kind /\ ToSet(<<>>) = {} /\ writes \in Nat
  BY KindStays, SetOfEmpty, BoundAssumption DEF MessageTypes, BufferTypes, NumberTypes, IdTypes
<1>1. SUFFICES ASSUME kind = "hislip" PROVE OwnInv' /\ OwnAnswer'
  BY <1>0 DEF OwnInv, OwnAnswer
<1>2. OwnAnswer'
  <2>1. CASE got' = got
    BY <1>1, <2>1 DEF OwnAnswer
  <2>2. ASSUME NEW n \in 0 .. Len(data), got'.bytes = SubSeq(data, 1, n), got' = [bytes |-> got'.bytes, write |-> writes]
        PROVE  OwnAnswer'
    <3>1. n \in Nat /\ n <= Len(data) /\ got'.write = writes
      BY <1>0, <2>2
    <3>2. ToSet(data) = ToSet(SubSeq(data, 1, n)) \cup ToSet(SubSeq(data, n + 1, Len(data)))
      BY <1>0, <3>1, CutSetOf, Zenon
    <3>3. \A b \in ToSet(got'.bytes) : AnswerOf(b) = got'.write
      BY <1>1, <2>2, <3>1, <3>2 DEF OwnInv
    <3>. QED
      BY <3>3 DEF OwnAnswer
  <2>. QED
    BY <2>1, <2>2, GotMoves
<1>3. OwnInv'
  <2>1. CASE writes' = writes + 1
    <3>1. pc = "idle" /\ read_ahead' = <<>> /\ data' = data
      BY <1>0, <1>1, <2>1, WritingSteps
    <3>2. data = <<>>
      BY <3>1 DEF CallInv
    <3>. QED
      BY <1>0, <3>1, <3>2 DEF OwnInv
  <2>2. CASE writes' = writes /\ ~Receive
    BY <1>1, <2>2, HeldMoves DEF OwnInv
  <2>3. CASE writes' = writes /\ Receive
    <3>a. PICK k \in 1 .. Len(output) : \E n \in 0 .. k : \E c, p, r \in Seq(Byte) : Taken(k, n, c, p, r)
      BY <2>3, ReceiveFacts, Zenon
    <3>b. PICK n \in 0 .. k : \E c, p, r \in Seq(Byte) : Taken(k, n, c, p, r)
      BY <3>a, Zenon
    <3>1. PICK c, p, r \in Seq(Byte) : Taken(k, n, c, p, r)
      BY <3>b, Zenon
    <3>2. \A b \in ToSet(c) : AnswerOf(b) = writes
      BY <1>1, <3>1, ChunkIsOwn
    <3>3. /\ ToSet(data') = ToSet(data) \cup ToSet(p)
          /\ ToSet(read_ahead') = ToSet(read_ahead) \cup ToSet(r)
          /\ ToSet(c) = ToSet(p) \cup ToSet(r)
      BY <3>1 DEF Taken, Chunk
    <3>. QED
      BY <1>1, <2>3, <3>2, <3>3 DEF OwnInv
  <2>. QED
    BY <2>1, <2>2, <2>3, WritingSteps
<1>. QED
  BY <1>2, <1>3

-----------------------------------------------------------------------------
(* A read that asks for more has taken all that was read ahead. *)

\* The steps after which a read is under way.
LEMMA ReadingSteps ==
    ASSUME MessageTypes, CallInv, [Next]_vars, pc' = "reading"
    PROVE  \/ \E count \in Counts, tc \in BOOLEAN : BeginRead(count, tc)
           \/ Receive
           \/ /\ UNCHANGED <<pc, call, data, end, termchar, torn>>
              /\ UNCHANGED <<read_ahead, read_ahead_end>> \/ (read_ahead' = <<>> /\ read_ahead_end' = FALSE)
<1>1. CASE Reject \/ FinishRead \/ ReadError \/ ReadCancelled
  BY <1>1 DEF Reject, FinishRead, ReadError, ReadCancelled, Return
<1>2. CASE CompleteCancelRecovery \/ CancelRecoveryFails \/ RecoverCancelledTransfer
  BY <1>2 DEF CompleteCancelRecovery, CancelRecoveryFails, RecoverCancelledTransfer, Return
<1>3. CASE (\E what \in {"write", "trigger"}, parts \in 1 .. 2 : BeginWrite(what, parts)) \/ WriteError \/ FinishWrite
  BY <1>3 DEF BeginWrite, WriteError, FinishWrite, Return
<1>4. CASE SendPart \/ WriteCancelled
  BY <1>4 DEF SendPart, WriteCancelled, Return
<1>5. CASE BeginClear \/ AnnounceClear \/ ClearSucceeds \/ ClearFails
  BY <1>5 DEF BeginClear, AnnounceClear, ClearSucceeds, ClearFails, Return
<1>6. CASE ClearTail \/ Flush \/ Terminate \/ Execute \/ ServiceRequest \/ UNCHANGED vars
  BY <1>6 DEF ClearTail, Flush, Terminate, Execute, ServiceRequest, vars, EmptyReadAhead
<1>7. CASE BeginReadStb \/ InterruptIn \/ ReadStbCancelled
  BY <1>7 DEF BeginReadStb, InterruptIn, ReadStbCancelled, Return
<1>. QED
  BY <1>1, <1>2, <1>3, <1>4, <1>5, <1>6, <1>7 DEF Next

\* What a read finds, unless it is raw: n bytes, and it does not stop without a reason.
Finds(n) ==
    /\ data = <<>>
    /\ data' = SubSeq(read_ahead, 1, n)
    /\ read_ahead' = SubSeq(read_ahead, n + 1, Len(read_ahead))
    /\ end' = (read_ahead' = <<>> /\ read_ahead_end)
    /\ read_ahead_end' = (read_ahead_end /\ ~end')
    /\ n < Len(read_ahead) => n = call'.count \/ termchar'
    /\ torn' = torn /\ got' = got

\* A read begins with what read_ahead_ has for it.
LEMMA BeginReadFacts ==
    ASSUME MessageTypes, CallInv, kind # "raw", NEW count \in Counts, NEW tc \in BOOLEAN, BeginRead(count, tc)
    PROVE  \E n \in 0 .. Len(read_ahead) : Finds(n)
<1>0. read_ahead \in Seq(Byte) /\ count \in Nat /\ data = <<>>
  BY CountsAssumption DEF MessageTypes, BufferTypes, BeginRead, Begin, CallInv
<1>. DEFINE n == Prefix(read_ahead, count, tc)
<1>1. /\ call' = [what |-> "read", count |-> count, termchar |-> tc]
      /\ data' = SubSeq(read_ahead, 1, n)
      /\ read_ahead' = SubSeq(read_ahead, n + 1, Len(read_ahead))
      /\ end' = (read_ahead' = <<>> /\ read_ahead_end)
      /\ read_ahead_end' = (read_ahead_end /\ ~end')
      /\ termchar' = (kind # "raw" /\ tc /\ n > 0 /\ IsTermchar(read_ahead[n]))
      /\ torn' = torn /\ got' = got
  BY DEF BeginRead
<1>2. /\ n \in 0 .. Len(read_ahead)
      /\ n < Len(read_ahead) => n = count \/ (n > 0 /\ tc /\ IsTermchar(read_ahead[n]))
  <2>1. n = Prefix(read_ahead, count, tc)
    OBVIOUS
  <2>. HIDE DEF n
  <2>. QED
    BY <1>0, <2>1, PrefixFacts
<1>. HIDE DEF n
<1>3. call'.count = count
  BY <1>1
<1>4. Finds(n)
  BY <1>0, <1>1, <1>2, <1>3, Zenon DEF Finds
<1>. QED
  BY <1>2, <1>4, Zenon

\* A read that asks the device for more has used up read_ahead_.
LEMMA WantingStep ==
    ASSUME MessageTypes, CallInv, kind # "raw", Wanting => read_ahead = <<>>, [Next]_vars, Wanting'
    PROVE  read_ahead' = <<>>
<1>0. /\ pc' = "reading" /\ ~end' /\ ~termchar' /\ Len(data') < call'.count /\ kind' = kind
      /\ data \in Seq(Byte) /\ read_ahead \in Seq(Byte) /\ Len(data) \in Nat /\ Len(read_ahead) \in Nat
  BY KindStays DEF Wanting, MessageTypes, BufferTypes
<1>1. CASE \E count \in Counts, tc \in BOOLEAN : BeginRead(count, tc)
  <2>1. PICK n \in 0 .. Len(read_ahead) : Finds(n)
    BY <1>1, BeginReadFacts
  <2>2. n \in Nat /\ n <= Len(read_ahead)
    BY <1>0
  <2>3. Len(data') = n /\ read_ahead' \in Seq(Byte) /\ Len(read_ahead') = Len(read_ahead) - n
    BY <1>0, <2>1, <2>2, CutFacts DEF Finds
  <2>4. ~(n < Len(read_ahead))
    BY <1>0, <2>1, <2>3 DEF Finds
  <2>5. Len(read_ahead') = 0
    BY <1>0, <2>2, <2>3, <2>4
  <2>. QED
    BY <2>3, <2>5
<1>2. CASE Receive
  <2>a. PICK k \in 1 .. Len(output) : \E n \in 0 .. k : \E c, p, r \in Seq(Byte) : Taken(k, n, c, p, r)
    BY <1>2, ReceiveFacts, Zenon
  <2>b. PICK n \in 0 .. k : \E c, p, r \in Seq(Byte) : Taken(k, n, c, p, r)
    BY <2>a, Zenon
  <2>1. PICK c, p, r \in Seq(Byte) : Taken(k, n, c, p, r)
    BY <2>b, Zenon
  <2>2. read_ahead = <<>>
    BY <2>1 DEF Taken, Arrive
  <2>3. read_ahead' = read_ahead \o r /\ data' = data \o p /\ Len(p) = n /\ Len(r) = k - n /\ call' = call
    BY <1>2, <2>1 DEF Taken, Chunk, Receive
  <2>4. k \in Nat /\ n \in Nat /\ n <= k
    OBVIOUS
  <2>5. Len(data') = Len(data) + n
    BY <1>0, <2>3, JoinFacts
  <2>6. n < k => n = call.count - Len(data)
    BY <1>0, <2>1 DEF Taken
  <2>7. call.count \in Nat
    BY <2>1 DEF Taken, Arrive, Wanting, CallInv, Byte
  <2>8. ~(n < k)
    BY <1>0, <2>3, <2>4, <2>5, <2>6, <2>7
  <2>9. Len(r) = 0
    BY <2>3, <2>4, <2>8
  <2>10. r = <<>>
    BY <2>9
  <2>. QED
    BY <2>2, <2>3, <2>10
<1>3. CASE /\ UNCHANGED <<pc, call, data, end, termchar, torn>>
           /\ UNCHANGED <<read_ahead, read_ahead_end>> \/ (read_ahead' = <<>> /\ read_ahead_end' = FALSE)
  BY <1>0, <1>3 DEF Wanting
<1>. QED
  BY <1>0, <1>1, <1>2, <1>3, ReadingSteps

-----------------------------------------------------------------------------
(* Bytes in order. *)

\* The order of the bytes of a read (D), read ahead (R), on their way (O), returned (L)
\* and given up (X).
Ranked(D, R, O, L, X) ==
    /\ Below(D, R) /\ Below(D \cup R, O) /\ Below(L, D \cup R \cup O)
    /\ X \cap (L \cup D \cup R \cup O) = {}

\* It is kept by each move.
LEMMA RankedMoves ==
    ASSUME NEW D, NEW R, NEW O, NEW L, NEW X, D \subseteq Nat, R \subseteq Nat, O \subseteq Nat, L \subseteq Nat,
           Ranked(D, R, O, L, X)
    PROVE  /\ \A P, Q : D = {} /\ R = P \cup Q /\ Below(P, Q) => Ranked(P, Q, O, L, X)
           /\ \A P, Q, T : R = {} /\ O = P \cup Q \cup T /\ Below(P, Q) /\ Below(P \cup Q, T) =>
                 Ranked(D \cup P, Q, T, L, X)
           /\ Ranked({}, R, O, L \cup D, X)
           /\ \A T : T \subseteq O => Ranked({}, D \cup R, T, L, X \cup (O \ T))
           /\ \A P, Q, T : P \subseteq D /\ Q \subseteq R /\ T \subseteq O =>
                 Ranked(P, Q, T, L, X \cup (D \ P) \cup (R \ Q) \cup (O \ T))
           /\ \A A : A \subseteq Nat /\ Below(X \cup L \cup D \cup R \cup O, A) /\ X \subseteq Nat =>
                 Ranked(D, R, O \cup A, L, X) /\ Ranked(D, R, A, L, X \cup O)
<1>. USE DEF Ranked, Below
<1>a. L \cap D = {} /\ L \cap R = {} /\ L \cap O = {} /\ D \cap R = {} /\ D \cap O = {} /\ R \cap O = {}
  OBVIOUS
<1>1. ASSUME NEW P, NEW Q, D = {}, R = P \cup Q, Below(P, Q) PROVE Ranked(P, Q, O, L, X)
  BY <1>1
<1>2. ASSUME NEW P, NEW Q, NEW T, R = {}, O = P \cup Q \cup T, Below(P, Q), Below(P \cup Q, T)
      PROVE  Ranked(D \cup P, Q, T, L, X)
  BY <1>2
<1>3. Ranked({}, R, O, L \cup D, X)
  OBVIOUS
<1>4. ASSUME NEW T, T \subseteq O PROVE Ranked({}, D \cup R, T, L, X \cup (O \ T))
  <2>1. (O \ T) \cap (L \cup D \cup R \cup T) = {}
    BY <1>a
  <2>2. Below({}, D \cup R) /\ Below(D \cup R, T) /\ Below(L, D \cup R \cup T)
    BY <1>4
  <2>. QED
    BY <1>4, <2>1, <2>2
<1>5. ASSUME NEW P, NEW Q, NEW T, P \subseteq D, Q \subseteq R, T \subseteq O
      PROVE  Ranked(P, Q, T, L, X \cup (D \ P) \cup (R \ Q) \cup (O \ T))
  <2>1. (D \ P) \cap (L \cup P \cup Q \cup T) = {} /\ (R \ Q) \cap (L \cup P \cup Q \cup T) = {}
        /\ (O \ T) \cap (L \cup P \cup Q \cup T) = {}
    BY <1>5, <1>a
  <2>2. Below(P, Q) /\ Below(P \cup Q, T) /\ Below(L, P \cup Q \cup T)
    BY <1>5
  <2>. QED
    BY <1>5, <2>1, <2>2
<1>6. ASSUME NEW A, A \subseteq Nat, Below(X \cup L \cup D \cup R \cup O, A), X \subseteq Nat
      PROVE  Ranked(D, R, O \cup A, L, X) /\ Ranked(D, R, A, L, X \cup O)
  BY <1>6
<1>. HIDE DEF Ranked, Below
<1>. QED
  BY <1>1, <1>2, <1>3, <1>4, <1>5, <1>6

\* OrderInv for the bytes, wherever they are.
Ordered ==
    /\ Increasing(got.bytes) /\ Increasing(data) /\ Increasing(read_ahead) /\ Increasing(output)
    /\ Ranked(ToSet(data), ToSet(read_ahead), Bytes(output), delivered, dropped)

\* What is left of a sequence of bytes when its front is gone.
LEMMA SuffixOrder ==
    ASSUME NEW s \in Seq(Nat), Increasing(s), NEW t \in Suffixes(s)
    PROVE  Increasing(t) /\ Bytes(t) \subseteq Bytes(s)
<1>1. PICK n \in Nat : n <= Len(s) /\ t = SubSeq(s, n + 1, Len(s))
  BY SuffixFacts
<1>2. Increasing(SubSeq(s, n + 1, Len(s)))
  BY <1>1, CutIncreasing
<1>3. ToSet(s) = ToSet(SubSeq(s, 1, n)) \cup ToSet(SubSeq(s, n + 1, Len(s)))
  BY <1>1, CutSetOf, Zenon
<1>. QED
  BY <1>1, <1>2, <1>3 DEF Bytes

\* Moving bytes from one place to the next keeps the order.
LEMMA OrderedMoves ==
    ASSUME MessageTypes, CallInv, AnswerInv, kind # "raw", Wanting => read_ahead = <<>>, Ordered, [Next]_vars
    PROVE  Ordered'
<1>0. /\ data \in Seq(Byte) /\ read_ahead \in Seq(Byte) /\ output \in Seq(Nat) /\ data \in Seq(Nat) /\ read_ahead \in Seq(Nat)
      /\ Len(data) \in Nat /\ Len(read_ahead) \in Nat /\ Len(output) \in Nat
  BY SMTT(60) DEF MessageTypes, BufferTypes, Byte
<1>. DEFINE D == ToSet(data)
            R == ToSet(read_ahead)
            O == Bytes(output)
<1>1. /\ D \subseteq Nat /\ R \subseteq Nat /\ O \subseteq Nat /\ delivered \subseteq Nat /\ dropped \subseteq Nat
      /\ ToSet(<<>>) = {} /\ Increasing(<<>>)
  <2>1. Increasing(<<>>)
    BY DEF Increasing
  <2>. QED
    BY <2>1, KnownFacts, SetOfEmpty DEF Byte
<1>2. Ranked(D, R, O, delivered, dropped)
  BY DEF Ordered
<1>3. Increasing(got.bytes) /\ Increasing(data) /\ Increasing(read_ahead) /\ Increasing(output)
  BY DEF Ordered
<1>4. ASSUME Increasing(got'.bytes), Increasing(data'), Increasing(read_ahead'), Increasing(output'),
             Ranked(ToSet(data'), ToSet(read_ahead'), Bytes(output'), delivered', dropped')
      PROVE  Ordered'
  BY <1>4, Zenon DEF Ordered, Bytes
<1>. HIDE DEF D, R, O
<1>5. /\ \A P, Q : D = {} /\ R = P \cup Q /\ Below(P, Q) => Ranked(P, Q, O, delivered, dropped)
      /\ \A P, Q, T : R = {} /\ O = P \cup Q \cup T /\ Below(P, Q) /\ Below(P \cup Q, T) =>
            Ranked(D \cup P, Q, T, delivered, dropped)
      /\ Ranked({}, R, O, delivered \cup D, dropped)
      /\ \A T : T \subseteq O => Ranked({}, D \cup R, T, delivered, dropped \cup (O \ T))
      /\ \A P, Q, T : P \subseteq D /\ Q \subseteq R /\ T \subseteq O =>
            Ranked(P, Q, T, delivered, dropped \cup (D \ P) \cup (R \ Q) \cup (O \ T))
      /\ \A A : A \subseteq Nat /\ Below(dropped \cup delivered \cup D \cup R \cup O, A) /\ dropped \subseteq Nat =>
            Ranked(D, R, O \cup A, delivered, dropped) /\ Ranked(D, R, A, delivered, dropped \cup O)
  BY <1>1, <1>2, RankedMoves, Zenon
<1>6. CASE Stays
  BY <1>2, <1>3, <1>4, <1>6 DEF Stays, D, R, O
<1>7. CASE TakesUp
  <2>1. PICK n \in 0 .. Len(read_ahead) :
          /\ data' = SubSeq(read_ahead, 1, n)
          /\ read_ahead' = SubSeq(read_ahead, n + 1, Len(read_ahead))
    BY <1>7 DEF TakesUp
  <2>2. data = <<>> /\ UNCHANGED <<output, got, delivered, dropped>>
    BY <1>7 DEF TakesUp
  <2>3. n \in Nat /\ n <= Len(read_ahead)
    BY <1>0
  <2>4. ToSet(read_ahead) = ToSet(SubSeq(read_ahead, 1, n)) \cup ToSet(SubSeq(read_ahead, n + 1, Len(read_ahead)))
    BY <1>0, <2>3, CutSetOf, Zenon
  <2>5. /\ Increasing(SubSeq(read_ahead, 1, n)) /\ Increasing(SubSeq(read_ahead, n + 1, Len(read_ahead)))
        /\ Below(ToSet(SubSeq(read_ahead, 1, n)), ToSet(SubSeq(read_ahead, n + 1, Len(read_ahead))))
    BY <1>0, <1>3, <2>3, CutIncreasing
  <2>6. /\ R = ToSet(data') \cup ToSet(read_ahead') /\ Below(ToSet(data'), ToSet(read_ahead')) /\ D = {}
        /\ Increasing(data') /\ Increasing(read_ahead')
    BY <1>1, <2>1, <2>2, <2>4, <2>5, Zenon DEF R, D
  <2>7. Ranked(ToSet(data'), ToSet(read_ahead'), O, delivered, dropped)
    BY <1>5, <2>6, Zenon
  <2>. QED
    BY <1>3, <1>4, <2>2, <2>6, <2>7, Zenon DEF O
<1>8. ASSUME NEW k \in 1 .. Len(output), NEW n \in 0 .. k, Arrive(k, n) PROVE Ordered'
  <2>1. PICK c, p, r \in Seq(Byte) : Chunk(k, n, c, p, r)
    BY <1>8, ArriveFacts
  <2>2. read_ahead = <<>> /\ UNCHANGED <<got, delivered, dropped>> /\ output' = SubSeq(output, k + 1, Len(output))
    BY <1>8 DEF Arrive
  <2>3. /\ c = SubSeq(output, 1, k) /\ Len(c) = k /\ p = SubSeq(c, 1, n) /\ r = SubSeq(c, n + 1, k)
        /\ data' = data \o p /\ read_ahead' = read_ahead \o r
        /\ ToSet(data') = ToSet(data) \cup ToSet(p) /\ ToSet(read_ahead') = ToSet(read_ahead) \cup ToSet(r)
        /\ ToSet(c) = ToSet(p) \cup ToSet(r)
        /\ O = ToSet(p) \cup ToSet(r) \cup Bytes(output')
    BY <2>1 DEF Chunk, O
  <2>4. k \in Nat /\ k <= Len(output) /\ n \in Nat /\ n <= k /\ n <= Len(c)
    BY <1>0, <2>3
  <2>5. c \in Seq(Nat) /\ p \in Seq(Nat) /\ r \in Seq(Nat)
    BY DEF Byte
  <2>6. Increasing(c) /\ Increasing(output') /\ Below(ToSet(c), ToSet(output'))
    <3>1. /\ Increasing(SubSeq(output, 1, k)) /\ Increasing(SubSeq(output, k + 1, Len(output)))
          /\ Below(ToSet(SubSeq(output, 1, k)), ToSet(SubSeq(output, k + 1, Len(output))))
      BY <1>0, <1>3, <2>4, CutIncreasing
    <3>. QED
      BY <2>2, <2>3, <3>1, Zenon
  <2>7. Increasing(p) /\ Increasing(r) /\ Below(ToSet(p), ToSet(r))
    <3>1. /\ Increasing(SubSeq(c, 1, n)) /\ Increasing(SubSeq(c, n + 1, Len(c)))
          /\ Below(ToSet(SubSeq(c, 1, n)), ToSet(SubSeq(c, n + 1, Len(c))))
      BY <2>4, <2>5, <2>6, CutIncreasing
    <3>. QED
      BY <2>3, <3>1, Zenon
  <2>8. Below(ToSet(p) \cup ToSet(r), Bytes(output'))
    BY <2>3, <2>6, Zenon DEF Below, Bytes
  <2>9. R = {}
    BY <1>1, <2>2, Zenon DEF R
  <2>10. Ranked(D \cup ToSet(p), ToSet(r), Bytes(output'), delivered, dropped)
    BY <1>5, <2>3, <2>7, <2>8, <2>9, Zenon
  <2>11. Below(ToSet(data), ToSet(p))
    BY <1>2, <2>3, Zenon DEF Ranked, Below, D
  <2>12. Increasing(data')
    <3>1. Increasing(data \o p)
      BY <1>0, <1>3, <2>5, <2>7, <2>11, JoinIncreasing
    <3>. QED
      BY <2>3, <3>1
  <2>13. Increasing(read_ahead') /\ ToSet(read_ahead') = ToSet(r)
    <3>1. <<>> \o r = r
      BY <2>5
    <3>. QED
      BY <2>2, <2>3, <2>7, <3>1, Zenon
  <2>. QED
    BY <1>3, <1>4, <2>2, <2>3, <2>6, <2>10, <2>12, <2>13, Zenon DEF D
<1>9. ASSUME NEW n \in 0 .. Len(data), Delivers(n) PROVE Ordered'
  <2>1. /\ n = Len(data) /\ got' = [bytes |-> SubSeq(data, 1, n), write |-> writes]
        /\ delivered' = delivered \cup ToSet(SubSeq(data, 1, n))
        /\ read_ahead' = read_ahead \o SubSeq(data, n + 1, Len(data))
        /\ data' = <<>> /\ UNCHANGED <<output, dropped>>
    BY <1>9 DEF Delivers
  <2>2. SubSeq(data, 1, Len(data)) = data /\ SubSeq(data, Len(data) + 1, Len(data)) = <<>> /\ read_ahead \o <<>> = read_ahead
    BY <1>0
  <2>3. got'.bytes = data /\ delivered' = delivered \cup D /\ read_ahead' = read_ahead
    BY <2>1, <2>2 DEF D
  <2>. QED
    BY <1>1, <1>3, <1>4, <1>5, <2>1, <2>3 DEF R, O
<1>10. CASE GivesBack
  <2>1. /\ data' = <<>> /\ read_ahead' = data \o read_ahead /\ output' \in Suffixes(output)
        /\ dropped' = dropped \cup (O \ Bytes(output')) /\ UNCHANGED <<got, delivered>>
    BY <1>10 DEF GivesBack, O
  <2>2. Increasing(output') /\ Bytes(output') \subseteq O
    BY <1>0, <1>3, <2>1, SuffixOrder DEF O
  <2>3. Increasing(data \o read_ahead)
    <3>1. Below(ToSet(data), ToSet(read_ahead))
      BY <1>2 DEF Ranked, D, R
    <3>. QED
      BY <1>0, <1>3, <3>1, JoinIncreasing
  <2>4. ToSet(data \o read_ahead) = D \cup R
    BY <1>0, JoinSet DEF D, R
  <2>5. Ranked({}, D \cup R, Bytes(output'), delivered, dropped \cup (O \ Bytes(output')))
    BY <1>5, <2>2, Zenon
  <2>. QED
    BY <1>1, <1>3, <1>4, <2>1, <2>2, <2>3, <2>4, <2>5, Zenon
<1>11. CASE GivesUp
  <2>1. /\ data' \in {data, <<>>} /\ read_ahead' \in {read_ahead, <<>>} /\ output' \in Suffixes(output)
        /\ dropped' = dropped \cup (D \ ToSet(data')) \cup (R \ ToSet(read_ahead')) \cup (O \ Bytes(output'))
        /\ UNCHANGED <<got, delivered>>
    BY <1>11 DEF GivesUp, D, R, O
  <2>2. Increasing(output') /\ Bytes(output') \subseteq O
    BY <1>0, <1>3, <2>1, SuffixOrder DEF O
  <2>3. ToSet(data') \subseteq D /\ Increasing(data') /\ ToSet(read_ahead') \subseteq R /\ Increasing(read_ahead')
    BY <1>1, <1>3, <2>1 DEF D, R
  <2>4. Ranked(ToSet(data'), ToSet(read_ahead'), Bytes(output'), delivered,
               dropped \cup (D \ ToSet(data')) \cup (R \ ToSet(read_ahead')) \cup (O \ Bytes(output')))
    BY <1>5, <2>2, <2>3, Zenon
  <2>. QED
    BY <1>3, <1>4, <2>1, <2>2, <2>3, <2>4, Zenon
<1>12. CASE Execute
  <2>1. PICK i \in DOMAIN input, w \in 1 .. writes, pre \in Seq(Nat), a \in Seq(Nat) :
          /\ w = input[i].write /\ input[i].last
          /\ a = Answer(w) /\ output' = pre \o a
          /\ Bytes(output') = Bytes(pre) \cup ToSet(a)
          /\ \/ pre = output /\ dropped' = dropped
             \/ pre \in {<<>>, <<Interrupted>>} /\ Bytes(pre) = {} /\ dropped' = dropped \cup Bytes(output)
          /\ UNCHANGED <<data, read_ahead, got, delivered>>
    BY <1>12, ExecuteFacts
  <2>2. w \in Nat /\ 1 <= w
    BY BoundAssumption DEF MessageTypes, NumberTypes, IdTypes
  <2>3. Increasing(a) /\ (\A b \in ToSet(a) : Floor(w) < b) /\ ToSet(a) \subseteq Nat /\ Floor(w) \in Nat
    BY <2>1, <2>2, AnswerFacts, FloorFacts, SetOf
  <2>4. \A b \in Known : b <= Floor(w)
    BY <2>1 DEF AnswerInv
  <2>5. Below(dropped \cup delivered \cup D \cup R \cup O, ToSet(a))
    <3>1. dropped \cup delivered \cup D \cup R \cup O = Known
      BY DEF Known, D, R, O
    <3>2. Known \subseteq Nat
      BY KnownFacts DEF Byte
    <3>3. \A x \in Known, y \in ToSet(a) : x < y
      BY <2>3, <2>4, <3>2
    <3>. QED
      BY <3>1, <3>3, Zenon DEF Below
  <2>6. Ranked(D, R, O \cup ToSet(a), delivered, dropped) /\ Ranked(D, R, ToSet(a), delivered, dropped \cup O)
    BY <1>1, <1>5, <2>3, <2>5, Zenon
  <2>7. \A b \in ToSet(a) : 0 < b
    BY <2>3
  <2>8. CASE pre = output /\ dropped' = dropped
    <3>1. Below(ToSet(output), ToSet(a))
      <4>1. ASSUME NEW x \in ToSet(output), NEW y \in ToSet(a) PROVE x < y
        <5>1. x = 0 \/ x \in O
          BY DEF O, Bytes, Interrupted
        <5>. QED
          BY <2>5, <2>7, <5>1 DEF Below
      <4>. QED
        BY <4>1 DEF Below
    <3>2. Increasing(output')
      BY <1>0, <1>3, <2>1, <2>3, <2>8, <3>1, JoinIncreasing
    <3>. QED
      BY <1>3, <1>4, <2>1, <2>6, <2>8, <3>2 DEF D, R, O
  <2>9. CASE pre \in {<<>>, <<Interrupted>>} /\ Bytes(pre) = {} /\ dropped' = dropped \cup Bytes(output)
    <3>1. Increasing(pre) /\ Below(ToSet(pre), ToSet(a))
      <4>1. CASE pre = <<>>
        BY <1>1, <4>1 DEF Below
      <4>2. CASE pre = <<Interrupted>>
        <5>1. Increasing(pre) /\ ToSet(pre) = {0}
          BY <4>2 DEF Increasing, ToSet, Interrupted
        <5>. QED
          BY <2>7, <5>1 DEF Below
      <4>. QED
        BY <2>9, <4>1, <4>2
    <3>2. Increasing(output')
      BY <2>1, <2>3, <3>1, JoinIncreasing
    <3>3. Bytes(output') = ToSet(a) /\ dropped' = dropped \cup O
      BY <2>1, <2>9 DEF O
    <3>. QED
      BY <1>3, <1>4, <2>1, <2>6, <3>2, <3>3 DEF D, R
  <2>. QED
    BY <2>1, <2>8, <2>9
<1>. QED
  BY <1>6, <1>7, <1>8, <1>9, <1>10, <1>11, <1>12, Moves

\* Every step preserves OrderInv.
LEMMA OrderStep ==
    ASSUME MessageTypes, CallInv, AnswerInv, OrderInv, [Next]_vars
    PROVE  OrderInv'
<1>1. kind' = kind
  BY KindStays
<1>2. SUFFICES ASSUME kind # "raw" PROVE OrderInv'
  BY <1>1 DEF OrderInv
<1>3. (Wanting => read_ahead = <<>>) /\ Ordered
  BY <1>2, Zenon DEF OrderInv, Ordered, Ranked
<1>4. Wanting' => read_ahead' = <<>>
  BY <1>2, <1>3, WantingStep
<1>5. Ordered'
  BY <1>2, <1>3, OrderedMoves
<1>. QED
  BY <1>4, <1>5, Zenon DEF OrderInv, Ordered, Ranked

-----------------------------------------------------------------------------
(* Messages are kept apart. *)

\* In s a message ends at bytes of T only, or with the last byte, if it is marked.
Marked(s, mark, T) == \A i \in 1 .. Len(s) : EndsMessage(s[i]) => s[i] \in T \/ (mark /\ i = Len(s))

\* More marks, more torn messages, and a message torn at its end.
LEMMA MarkedFacts ==
    ASSUME NEW s \in Seq(Byte), NEW mark \in BOOLEAN, NEW T, Marked(s, mark, T)
    PROVE  /\ \A more \in BOOLEAN : (mark => more) => Marked(s, more, T)
           /\ \A U : T \subseteq U => Marked(s, mark, U)
           /\ s # <<>> => Marked(s, FALSE, T \cup {Last(s)})
<1>0. Len(s) \in Nat
  OBVIOUS
<1>1. Last(s) = s[Len(s)]
  BY DEF Last
<1>. QED
  BY <1>0, <1>1 DEF Marked

\* Joining what is marked.
LEMMA MarkedJoin ==
    ASSUME NEW s \in Seq(Byte), NEW t \in Seq(Byte), NEW mark \in BOOLEAN, NEW T, Marked(s, FALSE, T), Marked(t, mark, T)
    PROVE  Marked(s \o t, mark, T)
<1>. DEFINE c == s \o t
<1>1. /\ c \in Seq(Byte) /\ Len(c) = Len(s) + Len(t)
      /\ \A i \in 1 .. Len(s) : c[i] = s[i]
      /\ \A i \in 1 .. Len(t) : c[Len(s) + i] = t[i]
  BY JoinFacts
<1>2. Len(s) \in Nat /\ Len(t) \in Nat
  OBVIOUS
<1>. HIDE DEF c
<1>3. ASSUME NEW i \in 1 .. Len(c), EndsMessage(c[i]) PROVE c[i] \in T \/ (mark /\ i = Len(c))
  <2>1. CASE i <= Len(s)
    <3>1. i \in 1 .. Len(s) /\ c[i] = s[i]
      BY <1>1, <1>2, <2>1
    <3>. QED
      BY <1>3, <3>1 DEF Marked
  <2>2. CASE i > Len(s)
    <3>1. i - Len(s) \in 1 .. Len(t) /\ i = Len(s) + (i - Len(s))
      BY <1>1, <1>2, <2>2
    <3>2. c[i] = t[i - Len(s)]
      BY <1>1, <3>1
    <3>3. t[i - Len(s)] \in T \/ (mark /\ i - Len(s) = Len(t))
      BY <1>3, <3>1, <3>2 DEF Marked
    <3>. QED
      BY <1>1, <1>2, <3>1, <3>2, <3>3
  <2>. QED
    BY <1>1, <1>2, <2>1, <2>2
<1>4. Marked(c, mark, T)
  BY <1>3 DEF Marked
<1>. QED
  BY <1>4 DEF c

\* Cutting what is marked: the mark stays with the second part.
LEMMA MarkedCut ==
    ASSUME NEW s \in Seq(Byte), NEW mark \in BOOLEAN, NEW T, Marked(s, mark, T), NEW n \in Nat, n <= Len(s)
    PROVE  /\ Marked(SubSeq(s, 1, n), mark /\ n = Len(s), T)
           /\ Marked(SubSeq(s, n + 1, Len(s)), mark, T)
<1>. DEFINE p == SubSeq(s, 1, n)
            r == SubSeq(s, n + 1, Len(s))
<1>1. /\ p \in Seq(Byte) /\ Len(p) = n /\ \A i \in 1 .. n : p[i] = s[i]
      /\ r \in Seq(Byte) /\ Len(r) = Len(s) - n /\ \A i \in 1 .. Len(s) - n : r[i] = s[n + i]
  BY CutFacts
<1>2. Len(s) \in Nat
  OBVIOUS
<1>. HIDE DEF p, r
<1>3. ASSUME NEW i \in 1 .. Len(p), EndsMessage(p[i]) PROVE p[i] \in T \/ (mark /\ n = Len(s) /\ i = Len(p))
  <2>1. i \in 1 .. Len(s) /\ i \in 1 .. n /\ i <= n
    BY <1>1, <1>2
  <2>2. s[i] \in T \/ (mark /\ i = Len(s))
    BY <1>1, <1>3, <2>1 DEF Marked
  <2>. QED
    BY <1>1, <1>2, <2>1, <2>2
<1>4. ASSUME NEW i \in 1 .. Len(r), EndsMessage(r[i]) PROVE r[i] \in T \/ (mark /\ i = Len(r))
  <2>1. n + i \in 1 .. Len(s) /\ i \in 1 .. Len(s) - n
    BY <1>1, <1>2
  <2>2. s[n + i] \in T \/ (mark /\ n + i = Len(s))
    BY <1>1, <1>4, <2>1 DEF Marked
  <2>. QED
    BY <1>1, <1>2, <2>1, <2>2
<1>5. Marked(p, mark /\ n = Len(s), T) /\ Marked(r, mark, T)
  BY <1>3, <1>4 DEF Marked
<1>. QED
  BY <1>5 DEF p, r

\* Which sessions keep END marks.
Keeps == kind \in {"gpib", "hislip", "usbtmc"}

\* What a step does to the bytes held and to their marks.
Rests ==
    /\ UNCHANGED <<torn, got>>
    /\ (UNCHANGED <<data, end>>) \/ (data' = <<>> /\ end' = FALSE)
    /\ (UNCHANGED <<read_ahead, read_ahead_end>>) \/ (read_ahead' = <<>> /\ read_ahead_end' = FALSE)

\* How bytes and marks of ends move.
LEMMA MarkMoves ==
    ASSUME MessageTypes, CallInv, Keeps, [Next]_vars
    PROVE  \/ \E n \in 0 .. Len(read_ahead) : Finds(n)
           \/ Receive
           \/ Rests
           \/ Restore /\ data' = <<>> /\ end' = FALSE /\ got' = got
           \/ \E n \in 0 .. Len(data) : Delivers(n) /\ end' = FALSE /\ UNCHANGED <<read_ahead_end, torn>>
<1>0. kind # "raw"
  BY DEF Keeps
<1>1. CASE \E count \in Counts, tc \in BOOLEAN : BeginRead(count, tc)
  BY <1>0, <1>1, BeginReadFacts
<1>2. CASE Reject
  BY <1>2 DEF Reject, Return, Rests, MessageTypes, FlagTypes
<1>3. CASE FinishRead
  <2>1. CASE op = "aborted"
    BY <1>3, <2>1 DEF FinishRead, Return
  <2>2. CASE op # "aborted"
    <3>1. end' = FALSE /\ UNCHANGED <<read_ahead_end, torn>>
      BY <1>3, <2>2 DEF FinishRead, Return
    <3>2. Len(data) \in 0 .. Len(data)
      <4>1. data \in Seq(Byte)
        BY DEF MessageTypes, BufferTypes
      <4>. QED
        BY <4>1
    <3>3. Delivers(Len(data))
      BY <1>0, <1>3, <2>2 DEF FinishRead, Return, Delivers
    <3>. QED
      BY <3>1, <3>2, <3>3
  <2>. QED
    BY <2>1, <2>2
<1>4. CASE ReadError
  BY <1>4 DEF ReadError, Return, Rests
<1>5. CASE ReadCancelled
  BY <1>5 DEF ReadCancelled, Return, Rests
<1>6. CASE CompleteCancelRecovery \/ CancelRecoveryFails \/ RecoverCancelledTransfer
  BY <1>6 DEF CompleteCancelRecovery, CancelRecoveryFails, RecoverCancelledTransfer, EmptyReadAhead, Return, Rests
<1>7. CASE \E what \in {"write", "trigger"}, parts \in 1 .. 2 : BeginWrite(what, parts)
  BY <1>7 DEF BeginWrite, EmptyReadAhead, Rests
<1>8. CASE SendPart \/ WriteError \/ FinishWrite
  BY <1>8 DEF SendPart, WriteError, FinishWrite, Return, Rests
<1>9. CASE WriteCancelled
  BY <1>9 DEF WriteCancelled, Return, Rests
<1>10. CASE BeginClear \/ AnnounceClear \/ ClearSucceeds \/ ClearFails
  BY <1>10 DEF BeginClear, AnnounceClear, ClearSucceeds, ClearFails, EmptyReadAhead, Return, Rests
<1>11. CASE ClearTail \/ Flush \/ Terminate \/ Execute \/ ServiceRequest \/ UNCHANGED vars
  BY <1>11 DEF ClearTail, Flush, Terminate, Execute, ServiceRequest, vars, EmptyReadAhead, Rests
<1>12. CASE BeginReadStb \/ InterruptIn \/ ReadStbCancelled
  BY <1>12 DEF BeginReadStb, InterruptIn, ReadStbCancelled, Return, Rests
<1>. QED
  BY <1>1, <1>2, <1>3, <1>4, <1>5, <1>6, <1>7, <1>8, <1>9, <1>10, <1>11, <1>12 DEF Next

\* Every step preserves MessagesSeparate.
LEMMA SeparateStep ==
    ASSUME MessageTypes, CallInv, OrderInv, SeparateInv, MessagesSeparate, [Next]_vars
    PROVE  SeparateInv' /\ MessagesSeparate'
<1>0. /\ data \in Seq(Byte) /\ read_ahead \in Seq(Byte) /\ end \in BOOLEAN /\ read_ahead_end \in BOOLEAN
      /\ Len(data) \in Nat /\ Len(read_ahead) \in Nat /\ kind' = kind
  BY KindStays DEF MessageTypes, BufferTypes, FlagTypes
<1>1. SUFFICES ASSUME Keeps PROVE SeparateInv' /\ MessagesSeparate'
  BY <1>0 DEF SeparateInv, MessagesSeparate, Keeps
<1>2. /\ Marked(data, end, torn) /\ Marked(read_ahead, read_ahead_end, torn) /\ (end => read_ahead = <<>>)
      /\ \A i \in 1 .. (Len(got.bytes) - 1) : EndsMessage(got.bytes[i]) => got.bytes[i] \in torn
      /\ kind = "gpib" => torn = {}
  BY <1>1, Zenon DEF SeparateInv, MessagesSeparate, Keeps, Marked
<1>3. ASSUME Marked(data', end', torn'), Marked(read_ahead', read_ahead_end', torn'), end' => read_ahead' = <<>>
      PROVE  SeparateInv'
  BY <1>3, Zenon DEF SeparateInv, Marked
<1>4. ASSUME UNCHANGED got, torn \subseteq torn', kind = "gpib" => torn' = torn
      PROVE  MessagesSeparate'
  BY <1>0, <1>1, <1>2, <1>4, Zenon DEF MessagesSeparate
<1>a. \A mark, T : Marked(<<>>, mark, T)
  BY DEF Marked
<1>5. ASSUME NEW n \in 0 .. Len(read_ahead), Finds(n) PROVE SeparateInv' /\ MessagesSeparate'
  <2>1. n \in Nat /\ n <= Len(read_ahead)
    BY <1>0
  <2>2. /\ data' = SubSeq(read_ahead, 1, n) /\ read_ahead' = SubSeq(read_ahead, n + 1, Len(read_ahead))
        /\ end' = (read_ahead' = <<>> /\ read_ahead_end) /\ read_ahead_end' = (read_ahead_end /\ ~end')
        /\ torn' = torn /\ got' = got
    BY <1>5 DEF Finds
  <2>3. Marked(data', read_ahead_end /\ n = Len(read_ahead), torn) /\ Marked(read_ahead', read_ahead_end, torn)
    BY <1>0, <1>2, <2>1, <2>2, MarkedCut
  <2>4. (n = Len(read_ahead)) => read_ahead' = <<>>
    BY <1>0, <2>2
  <2>5. Marked(data', end', torn')
    BY <2>2, <2>3, <2>4 DEF Marked
  <2>6. Marked(read_ahead', read_ahead_end', torn')
    BY <1>a, <2>2, <2>3 DEF Marked
  <2>. QED
    BY <1>3, <1>4, <2>2, <2>5, <2>6
<1>6. CASE Receive
  <2>a. PICK k \in 1 .. Len(output) : \E n \in 0 .. k : \E c, p, r \in Seq(Byte) : Taken(k, n, c, p, r)
    BY <1>6, ReceiveFacts, Zenon
  <2>b. PICK n \in 0 .. k : \E c, p, r \in Seq(Byte) : Taken(k, n, c, p, r)
    BY <2>a, Zenon
  <2>1. PICK c, p, r \in Seq(Byte) : Taken(k, n, c, p, r)
    BY <2>b, Zenon
  <2>2. /\ Len(c) = k /\ p = SubSeq(c, 1, n) /\ r = SubSeq(c, n + 1, Len(c)) /\ Len(r) = k - n
        /\ data' = data \o p /\ read_ahead' = read_ahead \o r
        /\ \A i \in 1 .. (k - 1) : ~EndsMessage(c[i])
        /\ MarkEnd(EndsMessage(c[k]), r)
    BY <2>1 DEF Taken, Chunk
  <2>3. k \in Nat /\ n \in Nat /\ 1 <= k /\ n <= k
    OBVIOUS
  <2>4. ~end /\ read_ahead = <<>>
    BY <1>1, <2>1 DEF Taken, Arrive, Wanting, OrderInv, Keeps
  <2>5. torn' = torn /\ got' = got
    BY <1>6 DEF Receive
  <2>6. EndsMessage(c[k]) \in BOOLEAN
    BY DEF EndsMessage
  <2>7. Marked(c, EndsMessage(c[k]), torn)
    <3>1. \A i \in 1 .. Len(c) : i \in 1 .. (k - 1) \/ i = k
      BY <2>2, <2>3
    <3>. QED
      BY <2>2, <3>1 DEF Marked
  <2>8. Marked(p, EndsMessage(c[k]) /\ n = Len(c), torn) /\ Marked(r, EndsMessage(c[k]), torn)
    <3>1. n <= Len(c)
      BY <2>2, <2>3
    <3>2. /\ Marked(SubSeq(c, 1, n), EndsMessage(c[k]) /\ n = Len(c), torn)
          /\ Marked(SubSeq(c, n + 1, Len(c)), EndsMessage(c[k]), torn)
      BY <2>3, <2>6, <2>7, <3>1, MarkedCut
    <3>. QED
      BY <2>2, <3>2, Zenon
  <2>9. <<>> \o r = r
    OBVIOUS
  <2>10. read_ahead' = r
    BY <2>2, <2>4, <2>9
  <2>11. Marked(data, FALSE, torn)
    BY <1>2, <2>4 DEF Marked
  <2>12. CASE r # <<>>
    <3>1. read_ahead_end' = (read_ahead_end \/ EndsMessage(c[k])) /\ end' = FALSE
      BY <1>1, <2>2, <2>12 DEF MarkEnd, Keeps
    <3>2. n # Len(c)
      <4>1. Len(r) # 0
        BY <2>12
      <4>. QED
        BY <2>2, <2>3, <4>1
    <3>3. Marked(p, FALSE, torn)
      BY <2>8, <3>2 DEF Marked
    <3>4. Marked(data \o p, FALSE, torn)
      BY <1>0, <2>11, <3>3, MarkedJoin
    <3>5. Marked(data', end', torn')
      BY <2>2, <2>5, <3>1, <3>4
    <3>6. Marked(read_ahead', read_ahead_end', torn')
      BY <2>5, <2>8, <2>10, <3>1 DEF Marked
    <3>. QED
      BY <1>3, <1>4, <2>5, <3>1, <3>5, <3>6
  <2>13. CASE r = <<>>
    <3>1. end' = EndsMessage(c[k])
      BY <2>2, <2>13 DEF MarkEnd
    <3>2. Marked(p, EndsMessage(c[k]), torn)
      BY <2>8 DEF Marked
    <3>3. Marked(data \o p, EndsMessage(c[k]), torn)
      BY <1>0, <2>6, <2>11, <3>2, MarkedJoin
    <3>4. Marked(data', end', torn')
      BY <2>2, <2>5, <3>1, <3>3
    <3>5. Marked(read_ahead', read_ahead_end', torn')
      BY <1>a, <2>10, <2>13
    <3>. QED
      BY <1>3, <1>4, <2>5, <2>10, <2>13, <3>4, <3>5
  <2>. QED
    BY <2>12, <2>13
<1>7. CASE Rests
  BY <1>2, <1>3, <1>4, <1>7, <1>a DEF Rests
<1>8. CASE Restore /\ data' = <<>> /\ end' = FALSE /\ got' = got
  <2>1. /\ read_ahead' = data \o read_ahead /\ read_ahead_end' = (read_ahead_end \/ RestoresEnd)
        /\ torn' = IF end /\ ~RestoresEnd /\ data # <<>> THEN torn \cup {Last(data)} ELSE torn
    BY <1>8 DEF Restore, PushFront
  <2>2. torn \subseteq torn' /\ (kind = "gpib" => torn' = torn)
    BY <2>1 DEF RestoresEnd
  <2>3. Marked(read_ahead', read_ahead_end', torn')
    <3>1. CASE RestoresEnd
      <4>1. end /\ torn' = torn /\ read_ahead_end' = TRUE
        BY <2>1, <3>1 DEF RestoresEnd
      <4>2. read_ahead' = data
        BY <1>0, <1>2, <2>1, <4>1
      <4>. QED
        BY <1>2, <4>1, <4>2 DEF Marked
    <3>2. CASE ~RestoresEnd
      <4>1. Marked(data, FALSE, torn')
        <5>1. CASE end /\ data # <<>>
          <6>1. torn' = torn \cup {Last(data)}
            BY <2>1, <3>2, <5>1
          <6>2. Marked(data, FALSE, torn \cup {Last(data)})
            BY <1>0, <1>2, <5>1, MarkedFacts
          <6>. QED
            BY <6>1, <6>2
        <5>2. CASE end /\ data = <<>>
          BY <1>a, <5>2
        <5>3. CASE ~end
          BY <1>2, <2>2, <5>3 DEF Marked
        <5>. QED
          BY <5>1, <5>2, <5>3
      <4>2. Marked(read_ahead, read_ahead_end, torn')
        BY <1>2, <2>2 DEF Marked
      <4>3. Marked(data \o read_ahead, read_ahead_end, torn')
        BY <1>0, <4>1, <4>2, MarkedJoin
      <4>. QED
        BY <1>0, <2>1, <3>2, <4>3
    <3>. QED
      BY <3>1, <3>2
  <2>. QED
    BY <1>3, <1>4, <1>8, <1>a, <2>2, <2>3
<1>9. ASSUME NEW n \in 0 .. Len(data), Delivers(n), end' = FALSE, UNCHANGED <<read_ahead_end, torn>>
      PROVE  SeparateInv' /\ MessagesSeparate'
  <2>1. /\ n = Len(data) /\ got' = [bytes |-> SubSeq(data, 1, n), write |-> writes]
        /\ read_ahead' = read_ahead \o SubSeq(data, n + 1, Len(data)) /\ data' = <<>>
    BY <1>1, <1>9 DEF Delivers, Keeps
  <2>2. SubSeq(data, 1, Len(data)) = data /\ SubSeq(data, Len(data) + 1, Len(data)) = <<>> /\ read_ahead \o <<>> = read_ahead
    BY <1>0
  <2>3. got'.bytes = data /\ read_ahead' = read_ahead
    BY <2>1, <2>2
  <2>4. \A i \in 1 .. (Len(data) - 1) : EndsMessage(data[i]) => data[i] \in torn
    BY <1>0, <1>2 DEF Marked
  <2>5. MessagesSeparate'
    BY <1>0, <1>2, <1>9, <2>3, <2>4 DEF MessagesSeparate
  <2>. QED
    BY <1>2, <1>3, <1>9, <1>a, <2>1, <2>3, <2>5
<1>. QED
  BY <1>1, <1>5, <1>6, <1>7, <1>8, <1>9, MarkMoves

-----------------------------------------------------------------------------
(* The invariant. *)

\* It holds at first, when the answer to the first write is on its way.
LEMMA MessageInit == Init => MessageInv
<1>. SUFFICES ASSUME Init PROVE MessageInv
  OBVIOUS
<1>. USE DEF Init
<1>0. 1 \in Nat /\ 1 \in 1 .. MaxWrites /\ MaxWrites \in Nat /\ Length \in Nat
  BY BoundAssumption, LengthAssumption
<1>1. PICK a : a = Answer(1)
  OBVIOUS
<1>2. /\ a \in Seq(Byte) /\ Increasing(a) /\ Floor(2) = Length
      /\ \A b \in ToSet(a) : b <= Floor(2) /\ AnswerOf(b) = 1
  <2>1. /\ a \in Seq(Byte) /\ Increasing(a)
        /\ \A b \in ToSet(a) : b <= Floor(1 + 1) /\ AnswerOf(b) = 1
    BY <1>0, <1>1, AnswerFacts
  <2>. QED
    BY <1>0, <2>1 DEF Floor
<1>3. /\ output = a /\ ToSet(data) = {} /\ ToSet(read_ahead) = {} /\ Bytes(output) = ToSet(a) /\ ToSet(a) \subseteq Byte
      /\ Increasing(<<>>)
  <2>1. ToSet(a) \subseteq Byte
    BY <1>2, SetOf
  <2>2. Bytes(a) = ToSet(a)
    BY <2>1 DEF Bytes, Byte, Interrupted
  <2>3. Increasing(<<>>)
    BY DEF Increasing
  <2>. QED
    BY <1>1, <2>1, <2>2, <2>3, SetOfEmpty
<1>4. Known = ToSet(a)
  BY <1>3 DEF Known
<1>5. MessageTypes
  <2>1. FlagTypes
    BY DEF FlagTypes
  <2>2. BufferTypes
    <3>1. a \in Seq(Nat)
      BY <1>2 DEF Byte
    <3>. QED
      BY <1>3, <3>1 DEF BufferTypes
  <2>3. IdTypes
    BY <1>0 DEF IdTypes, FirstId
  <2>4. CountTypes /\ QueueTypes
    BY DEF CountTypes, QueueTypes
  <2>. QED
    BY <2>1, <2>2, <2>3, <2>4 DEF MessageTypes, NumberTypes
<1>6. CallInv /\ AnnounceInv /\ MixInv /\ WritesDoNotMix
  BY DEF CallInv, AnnounceInv, MixInv, WritesDoNotMix
<1>7. StatusInv /\ StatusByteIsOwn
  BY DEF StatusInv, StatusByteIsOwn
<1>8. SeparateInv /\ MessagesSeparate
  BY DEF SeparateInv, MessagesSeparate
<1>9. OutputInv
  <2>1. <<>> \in Seq(Nat) /\ Messages(<<>>)
    BY DEF Messages
  <2>2. Messages(<<>> \o Answer(1))
    <3>1. 1 \in Nat /\ 1 <= 1
      OBVIOUS
    <3>2. \A s \in Seq(Nat) : Messages(s) => Messages(s \o Answer(1))
      BY <3>1, MessagesJoin, Zenon
    <3>. QED
      BY <2>1, <3>2, Zenon
  <2>3. <<>> \o Answer(1) = output
    BY <1>1, <1>2, <1>3
  <2>. QED
    BY <2>2, <2>3 DEF OutputInv, Messages
<1>10. IdInv
  <2>1. \A w \in Awaited : w = 1
    BY <1>2, <1>3 DEF Awaited
  <2>2. ids[1] = FirstId
    BY <1>0
  <2>. QED
    BY <2>1, <2>2 DEF IdInv, FirstId
<1>11. OwnInv /\ OwnAnswer
  BY <1>3, SetOfEmpty DEF OwnInv, OwnAnswer
<1>12. NothingForgotten
  <2>1. Complete(Known)
    BY <1>1, <1>2, <1>4 DEF Complete
  <2>. QED
    BY <1>5, <2>1, ForgottenOrNot DEF MessageTypes, BufferTypes
<1>13. OrderInv
  BY <1>2, <1>3 DEF OrderInv, Below
<1>14. AnswerInv
  BY <1>2, <1>4 DEF AnswerInv
<1>. QED
  BY <1>5, <1>6, <1>7, <1>8, <1>9, <1>10, <1>11, <1>12, <1>13, <1>14 DEF MessageInv

\* Every step keeps it.
LEMMA MessageStep == MessageInv /\ [Next]_vars => MessageInv'
<1>. SUFFICES ASSUME MessageInv, [Next]_vars PROVE MessageInv'
  OBVIOUS
<1>0. /\ MessageTypes /\ CallInv /\ StatusInv /\ StatusByteIsOwn /\ AnnounceInv /\ MixInv /\ WritesDoNotMix
      /\ SeparateInv /\ MessagesSeparate /\ OutputInv /\ IdInv /\ OwnInv /\ OwnAnswer
      /\ NothingForgotten /\ OrderInv /\ AnswerInv
  BY DEF MessageInv
<1>1. MessageTypes' /\ CallInv'
  BY <1>0, TypesStep, CallStep
<1>2. StatusInv' /\ StatusByteIsOwn'
  BY <1>0, StatusStep
<1>3. AnnounceInv'
  BY <1>0, AnnounceStep
<1>4. MixInv' /\ WritesDoNotMix'
  BY <1>0, MixStep
<1>5. SeparateInv' /\ MessagesSeparate'
  BY <1>0, SeparateStep
<1>6. OutputInv' /\ IdInv'
  BY <1>0, OutputStep, IdInvStep
<1>7. OwnInv' /\ OwnAnswer'
  BY <1>0, OwnStep
<1>8. NothingForgotten' /\ OrderInv' /\ AnswerInv'
  BY <1>0, ForgottenStep, OrderStep, AnswerStep
<1>. QED
  BY <1>1, <1>2, <1>3, <1>4, <1>5, <1>6, <1>7, <1>8 DEF MessageInv

\* MessageInv holds in every state of the five kinds of session, whatever the length of an
\* answer, where its termination characters are, the counts and the number of calls.
THEOREM MessageCorrect == Spec => []MessageInv
<1>. QED
  BY MessageInit, MessageStep, PTL DEF Spec

\* A HiSLIP, VXI-11, USBTMC or GPIB session returns every byte once and in order, or gives
\* it up for good, whatever failed and cancelled reads, clears and concurrent flushes do to
\* read_ahead_; the raw session forgets none.
THEOREM BytesInOrderAlways == Spec => []BytesInOrder
<1>1. ASSUME MessageInv PROVE BytesInOrder
  <2>1. /\ data \in Seq(Byte) /\ read_ahead \in Seq(Byte) /\ data \in Seq(Nat) /\ read_ahead \in Seq(Nat)
    BY <1>1 DEF MessageInv, MessageTypes, BufferTypes, Byte
  <2>2. delivered \subseteq Nat /\ dropped \subseteq Nat /\ ToSet(data) \subseteq Nat /\ ToSet(read_ahead) \subseteq Nat
    BY <1>1, KnownFacts DEF MessageInv, Byte
  <2>3. ASSUME kind # "raw" PROVE InOrder
    <3>1. OrderInv
      BY <1>1 DEF MessageInv
    <3>2. Increasing(Held)
      BY <2>1, <2>3, <3>1, JoinIncreasing DEF OrderInv, Held
    <3>3. ToSet(Held) = ToSet(data) \cup ToSet(read_ahead)
      BY <2>1, JoinSet DEF Held
    <3>4. \A b \in ToSet(Held) : b \notin dropped /\ \A d \in delivered : d < b
      BY <2>3, <3>1, <3>3, Zenon DEF OrderInv, Below
    <3>5. delivered \cap dropped = {} /\ Increasing(got.bytes)
      BY <2>3, <3>1, Zenon DEF OrderInv
    <3>. QED
      BY <3>2, <3>4, <3>5, Zenon DEF InOrder
  <2>. QED
    BY <1>1, <2>3 DEF BytesInOrder, MessageInv
<1>. QED
  BY <1>1, MessageCorrect, PTL

\* A read of a session that keeps END marks returns bytes of one message, but for marks
\* that a read cancelled after its last byte has lost; the GPIB session loses none.
THEOREM MessagesSeparateAlways == Spec => []MessagesSeparate
<1>1. MessageInv => MessagesSeparate
  BY DEF MessageInv
<1>. QED
  BY <1>1, MessageCorrect, PTL

\* A HiSLIP read returns bytes of the answer to the last write only.
THEOREM OwnAnswerAlways == Spec => []OwnAnswer
<1>1. MessageInv => OwnAnswer
  BY DEF MessageInv
<1>. QED
  BY <1>1, MessageCorrect, PTL

\* complete_cancel_recovery completes a clear that the instrument has acknowledged, unless
\* a recovery or a viClear of the session has failed before.
THEOREM ClearIsAnnouncedAlways == Spec => []ClearIsAnnounced
<1>1. MessageInv => ClearIsAnnounced
  BY DEF MessageInv, AnnounceInv, ClearIsAnnounced, MayComplete
<1>. QED
  BY <1>1, MessageCorrect, PTL

\* The instrument never joins parts of two messages of a HiSLIP or USBTMC session, as long
\* as no recovery and no viClear of the session has failed, except behind what a write
\* that failed without being cancelled has left there.
THEOREM WritesDoNotMixAlways == Spec => []WritesDoNotMix
<1>1. MessageInv => WritesDoNotMix
  BY DEF MessageInv
<1>. QED
  BY <1>1, MessageCorrect, PTL

\* viReadSTB of a USBTMC session returns the status byte it asked for, as long as the tags
\* have not gone round.
THEOREM StatusByteIsOwnAlways == Spec => []StatusByteIsOwn
<1>1. MessageInv => StatusByteIsOwn
  BY DEF MessageInv
<1>. QED
  BY <1>1, MessageCorrect, PTL
=============================================================================
