---------------------------- MODULE LibusbProofs ----------------------------
(***************************************************************************)
(* Proofs about the libusb provider of Libusb.tla, for any number of       *)
(* sessions and devices and any bounds: while a handle is open an event    *)
(* thread runs, a session opened while its device leaves is disconnected,  *)
(* the claim a transport relies on is not released under it, and two       *)
(* sessions do not transfer to one device at a time.                       *)
(***************************************************************************)
EXTENDS Libusb, FiniteSetTheorems, TLAPS

\* Where a session is: in open_impl, with a transport, or ending.
InMutex == {"peek", "handle", "claim", "register"}
Opening == {"new", "lookup"} \cup InMutex
Using == {"open", "gate", "dozing", "asleep", "submit", "wait"}
Ending == {"expired", "release", "close", "join", "gone"}

\* Where an open_impl is that looks at a connection, or destroys what it looked at.
Peeking == {"peek", "expired", "release", "close", "join"}

\* Where an event thread is.
Serving == {"loop", "callback", "mark", "drop", "expired", "release", "close", "join"}

\* All places.
Places == Opening \cup Using \cup Ending \cup Serving \cup {"none", "exited"}

\* Types of the actors' places.
PlaceTypes ==
    /\ at \in [Actors -> Places]
    /\ \A s \in Sessions : at[s] \in Opening \cup Using \cup Ending
    /\ \A t \in Threads : at[t] \in Serving \cup {"none", "exited"}

\* Types of the connections, of what refers to them and of what they refer to.
ConnectionTypes ==
    /\ target \in [Sessions -> Devices \cup {None}]
    /\ uses \in [Sessions -> Sessions \cup {None}]
    /\ made \in [Sessions -> {"no", "live", "expired", "ending", "dead"}]
    /\ connected \in [Sessions -> BOOLEAN]
    /\ lease \in [Sessions -> Sessions \cup {None}]
    /\ claimed \in [Devices -> Sessions \cup {None}]
    /\ dropping \in [Actors -> Sessions \cup {None}]
    /\ held \in [Actors -> SUBSET Sessions]
    /\ registered \subseteq Sessions
    /\ connections \in [Devices -> Sessions \cup {None}]

\* Types of the device, the mutexes and the transfers.
DeviceTypes ==
    /\ plugged \in Devices \cup {None}
    /\ hotplug \in Seq({"left", "arrived"} \X Devices)
    /\ departed_devices \subseteq Devices
    /\ open_mutex \in Sessions \cup {None}
    /\ mutex \in Sessions \cup {None}
    /\ gate \in [Sessions -> Sessions \cup {None}]
    /\ transfer \in [Sessions -> {"none", "active", "cancelled", "done", "lost"}]

\* The sessions that will not start an event thread any more.
Past == {s \in Sessions : at[s] \notin {"new", "lookup", "peek", "handle"} /\ mutex # s}

\* The event threads are started in order, each by a session of its own.
ThreadsStarted ==
    \E n \in Nat :
        /\ n <= Cardinality(Past)
        /\ \A t \in Threads : at[t] # "none" <=> t <= n

\* An open handle has a running event thread.
Served ==
    /\ open_handles \in Int
    /\ open_handles > 0 => /\ events_running = TRUE
                           /\ events_thread \in Threads
                           /\ at[events_thread] \notin {"none", "exited"}

\* Where a session has a device, a connection, open_mutex_.
PlaceInv ==
    \A s \in Sessions :
        /\ at[s] \notin {"new", "gone"} => target[s] # None
        /\ at[s] \in Using <=> uses[s] # None
        /\ at[s] \in InMutex => open_mutex = s
        /\ at[s] \in Opening \ {"register"} => made[s] = "no"
        /\ at[s] = "register" => made[s] = "live"
        /\ transfer[s] # "none" => at[s] = "wait"

\* Who has mutex_ over several steps has open_mutex_ too, and no connection yet; it
\* refers to the connection that is known.
MutexInv ==
    \A s \in Sessions :
        /\ at[s] = "peek" => mutex = s /\ held[s] = {connections[target[s]]}
        /\ at[s] # "peek" => held[s] = {}
        /\ mutex = s => open_mutex = s /\ at[s] \in Peeking /\ made[s] = "no"

\* A connection that is referred to is alive and has left open_impl.
ReferredInv ==
    \A c \in Sessions :
        /\ made[c] # "no" => target[c] # None
        /\ connected[c] => made[c] = "live"
        /\ \A s \in Sessions : uses[s] = c => made[c] = "live" /\ at[c] # "register"
        /\ \A a \in Actors : c \in held[a] => made[c] = "live" /\ at[c] # "register"
        /\ c \in registered => made[c] # "no" /\ at[c] # "register"
        /\ \A d \in Devices : connections[d] = c =>
              made[c] # "no" /\ at[c] # "register" /\ target[c] = d

\* Who runs the destructor of a connection, and how far it is.
DyingInv ==
    /\ \A a \in Actors : at[a] \in {"expired", "release"} <=> dropping[a] # None
    /\ \A a \in Actors : at[a] = "expired" => made[dropping[a]] = "expired"
    /\ \A a \in Actors : at[a] = "release" => made[dropping[a]] = "ending"
    /\ \A a, b \in Actors : dropping[a] # None /\ dropping[a] = dropping[b] => a = b

\* Event thread t is about to mark connection c.
ToBeMarked(c) == \E t \in Threads : c \in held[t] /\ at[t] = "mark"

\* A connected connection is known to device_left, or already taken by it.
LeftInv ==
    \A c \in Sessions :
        connected[c] /\ at[c] # "register" =>
            \/ c \in registered /\ target[c] \notin departed_devices
            \/ ToBeMarked(c)

\* The departure of a device that is there is not told.
ToldInv == \A i \in DOMAIN hotplug : hotplug[i][1] = "left" => plugged # hotplug[i][2]

\* What is known to be gone is gone, until nobody refers to it.
GoneInv ==
    /\ \A c \in Sessions : made[c] = "live" /\ ~connected[c] => plugged # target[c]
    /\ \A c \in Sessions, t \in Threads : c \in held[t] /\ at[t] = "mark" => plugged # target[c]
    /\ \A s \in Sessions : transfer[s] = "lost" => plugged # target[uses[s]]

\* At most one connection of a device is connected, and it is the one open_impl
\* finds; while a session opens the device there is no other.
SharedInv ==
    /\ \A c \in Sessions :
          connected[c] /\ at[c] # "register" => connections[target[c]] = c
    /\ \A s, c \in Sessions :
          at[s] \in InMutex \ {"peek"} /\ c # s /\ connected[c] => target[c] # target[s]

\* A connection that has not come to the end of its lease has one, whose owner was made.
LeaseInv ==
    \A c \in Sessions :
        /\ Leased(c) => lease[c] # None
        /\ lease[c] # None => made[lease[c]] # "no"

\* A lease that is being released is nobody else's.
ReleaseInv ==
    \A c, x \in Sessions :
        made[c] = "ending" /\ lease[c] # None /\ Leased(x) => lease[x] # lease[c]

\* The claim of a device belongs to the lease of its connections.
ClaimInv == \A c \in Sessions : Leased(c) => claimed[target[c]] = lease[c]

\* Who submits or waits is in the gate of its connection.
GateInv == \A s \in Sessions : at[s] \in {"submit", "wait"} => gate[uses[s]] = s

\* The inductive invariant.
LibusbInv ==
    /\ PlaceTypes /\ ConnectionTypes /\ DeviceTypes
    /\ ThreadsStarted /\ Served
    /\ PlaceInv /\ MutexInv /\ ReferredInv /\ DyingInv
    /\ LeftInv /\ ToldInv /\ GoneInv /\ SharedInv
    /\ LeaseInv /\ ReleaseInv /\ ClaimInv /\ GateInv /\ OneTransfer

-----------------------------------------------------------------------------
\* The kinds of steps.  A step of a transfer: sessions move between the places of a
\* transport, and a connection may find out that its device is gone.
TransferStep ==
    /\ UNCHANGED <<deviceVars, providerVars, runtimeVars, target, uses, made, lease, claimed,
                   dropping, held>>
    /\ at' \in [Actors -> Places]
    /\ \A s \in Sessions : at'[s] = at[s] \/ (at[s] \in Using /\ at'[s] \in Using)
    /\ \A t \in Threads : at'[t] = at[t]
    /\ gate' \in [Sessions -> Sessions \cup {None}]
    /\ transfer' \in [Sessions -> {"none", "active", "cancelled", "done", "lost"}]
    /\ \A s \in Sessions : transfer'[s] # "none" => at'[s] = "wait"
    /\ \A s \in Sessions : transfer'[s] = "lost" => plugged # target[uses[s]]
    /\ connected' \in [Sessions -> BOOLEAN]
    /\ \A c \in Sessions : connected'[c] # connected[c] => ~connected'[c] /\ plugged # target[c]

\* A step that only moves actors: handles are opened and closed, threads joined.
WalkStep ==
    /\ UNCHANGED <<plugged, hotplug, departed_devices, connections, registered, target, uses,
                   made, connected, lease, claimed, dropping, held, gate, transfer>>
    /\ at' \in [Actors -> Places]
    /\ \A s \in Sessions :
          \/ at'[s] = at[s]
          \/ at[s] = "handle" /\ at'[s] \in {"claim", "gone"}
          \/ at[s] \in {"close", "join"} /\ at'[s] \in {"close", "join", "gone"}
          \/ /\ at[s] = "close" /\ at'[s] = "handle"
             /\ open_mutex = s /\ mutex = s /\ connections[target[s]] = None
    /\ \A t \in Threads :
          \/ at'[t] = at[t]
          \/ /\ at[t] \in {"none", "loop", "close", "join"}
             /\ at'[t] \in {"loop", "callback", "drop", "close", "join", "exited"}
    /\ \A s \in Sessions : at'[s] \in InMutex => open_mutex' = s
    /\ \A s \in Sessions : mutex' = s =>
          mutex = s /\ open_mutex' = open_mutex /\ at'[s] \in {at[s], "close", "join"}
    /\ open_mutex' \in {open_mutex, None}
    /\ mutex' = mutex \/ (mutex' = None /\ \A s \in Sessions : mutex = s => at[s] = "close")

\* Actor a gives up references of its own.
GivesUp(a) ==
    /\ uses' \in [Sessions -> Sessions \cup {None}]
    /\ held' \in [Actors -> SUBSET Sessions]
    /\ \A x \in Sessions : uses'[x] = IF x = a THEN None ELSE uses[x]
    /\ \A x \in Actors : held'[x] \subseteq held[x] /\ (x # a => held'[x] = held[x])
    /\ a \in Sessions => held'[a] = {}

\* It gives up the last one to c, whose destructor begins.
DieStep(a, c) ==
    /\ GivesUp(a)
    /\ at[a] \in {"peek", "open", "drop", "register"}
    /\ at[a] = "register" \/ at[c] = "register" => a = c
    /\ at[a] = "drop" <=> a \in Threads
    /\ dropping[a] = None /\ made[c] = "live"
    /\ \A x \in Sessions : uses'[x] # c
    /\ \A x \in Actors : c \notin held'[x]
    /\ Destroy(a, c)
    /\ \/ connections' = connections
       \/ /\ at[a] = "peek" /\ connections' = [connections EXCEPT ![target[a]] = None]
          /\ ~connected[connections[target[a]]]
    /\ UNCHANGED <<runtimeVars, plugged, hotplug, departed_devices, registered, open_mutex, mutex, target, lease,
                   claimed, gate, transfer>>

\* It gives up another one than the last one, and goes on.
KeepStep(a) ==
    /\ GivesUp(a)
    /\ UNCHANGED <<runtimeVars, plugged, hotplug, departed_devices, registered, target, made, connected, lease,
                   claimed, dropping, gate, transfer>>
    /\ \/ /\ at[a] = "open" /\ a \in Sessions /\ Go(a, "gone")
          /\ UNCHANGED <<connections, open_mutex, mutex>>
       \/ /\ at[a] = "drop" /\ a \in Threads /\ (UNCHANGED at \/ Go(a, "loop"))
          /\ UNCHANGED <<connections, open_mutex, mutex>>
       \/ /\ at[a] = "peek" /\ a \in Sessions /\ Go(a, "gone")
          /\ open_mutex' = None /\ mutex' = None /\ UNCHANGED connections
       \/ /\ at[a] = "peek" /\ a \in Sessions /\ Go(a, "handle")
          /\ mutex' = None /\ UNCHANGED open_mutex
          /\ connections' = [connections EXCEPT ![target[a]] = None]
          /\ ~connected[connections[target[a]]]

\* open_impl shares the connection it looked at.
ShareStep(s) ==
    /\ at[s] = "peek" /\ Go(s, "open")
    /\ uses' = [uses EXCEPT ![s] = connections[target[s]]]
    /\ held' = [held EXCEPT ![s] = {}]
    /\ open_mutex' = None /\ mutex' = None
    /\ UNCHANGED <<runtimeVars, plugged, hotplug, departed_devices, connections, registered, target, made,
                   connected, lease, claimed, dropping, gate, transfer>>

\* open_impl makes its connection known.
EnterStep(s) ==
    /\ at[s] = "register" /\ Go(s, "open")
    /\ target[s] \notin departed_devices
    /\ connections' = [connections EXCEPT ![target[s]] = s]
    /\ registered' = registered \cup {s}
    /\ uses' = [uses EXCEPT ![s] = s]
    /\ open_mutex' = None
    /\ UNCHANGED <<runtimeVars, plugged, hotplug, departed_devices, mutex, held, target, made, connected, lease,
                   claimed, dropping, gate, transfer>>

\* Session names are not thread names.
LEMMA ActorFacts ==
    /\ \A s \in Sessions : s \in Actors /\ s \notin Threads /\ s # None
    /\ \A t \in Threads : t \in Actors /\ t \notin Sessions /\ t \in Nat /\ t > 0
    /\ \A a \in Actors : a \in Sessions \/ a \in Threads
    /\ None \notin Devices
<1>1. Cardinality(Sessions) \in Nat
  BY NameAssumption, FS_CardinalityType
<1> QED
  BY <1>1, NameAssumption, ThreadAssumption DEF Actors

\* Giving back the gate wakes at most sleepers.
LEMMA ReleaseMoves ==
    ASSUME NEW s \in Sessions, NEW where, ReleaseGate(s, where), DOMAIN where = Actors,
           where \in [Actors -> Places]
    PROVE  /\ at' \in [Actors -> Places]
           /\ \A a \in Sessions : at'[a] = where[a] \/ (where[a] = "asleep" /\ at'[a] = "gate")
           /\ \A t \in Threads : at'[t] = where[t]
<1> DEFINE asleep == {a \in Sessions : where[a] = "asleep" /\ uses[a] = uses[s]}
<1>1. CASE asleep = {}
  BY <1>1, ActorFacts DEF ReleaseGate
<1>2. CASE asleep # {}
  <2>1. PICK a \in asleep : at' = [where EXCEPT ![a] = "gate"]
    BY <1>2 DEF ReleaseGate
  <2> QED
    BY <2>1, ActorFacts DEF Places, Using
<1> QED
  BY <1>1, <1>2

\* So it does when the call returns, whether or not the others are woken as well.
LEMMA ReturnMoves ==
    ASSUME NEW s \in Sessions, NEW where, at \in [Actors -> Places],
           at[s] \in Using, where = [at EXCEPT ![s] = "open"],
           ReleaseGate(s, where) \/ ReleaseGate(s, Notified(uses[s], where))
    PROVE  /\ at' \in [Actors -> Places]
           /\ \A a \in Sessions : at'[a] = at[a] \/ (at[a] \in Using /\ at'[a] \in Using)
           /\ \A a \in Sessions : at[a] = "wait" /\ a # s => at'[a] = "wait"
           /\ at'[s] = "open"
           /\ \A a \in Sessions : a # s => at'[a] = at[a] \/ at'[a] = "gate"
           /\ \A t \in Threads : at'[t] = at[t]
           /\ gate' = [gate EXCEPT ![uses[s]] = None]
<1>0. where \in [Actors -> Places] /\ DOMAIN where = Actors
  BY ActorFacts DEF Places, Using
<1>1. /\ \A a \in Actors : a # s => where[a] = at[a]
      /\ where[s] = "open"
  BY ActorFacts
<1>2. at' \in [Actors -> Places]
      /\ (\A a \in Sessions : at'[a] = where[a] \/ (where[a] = "asleep" /\ at'[a] = "gate"))
      /\ (\A t \in Threads : at'[t] = where[t])
  <2>1. CASE ReleaseGate(s, where)
    BY <1>0, <2>1, ReleaseMoves
  <2>2. CASE ReleaseGate(s, Notified(uses[s], where))
    <3> DEFINE noted == Notified(uses[s], where)
    <3>1. noted \in [Actors -> Places] /\ DOMAIN noted = Actors
      BY <1>0 DEF Notified, Places, Using
    <3>2. \A a \in Actors : \/ noted[a] = where[a]
                            \/ a \in Sessions /\ where[a] = "asleep" /\ noted[a] = "gate"
      BY <1>0 DEF Notified
    <3>3. ReleaseGate(s, noted)
      BY <2>2
    <3>4. /\ at' \in [Actors -> Places]
          /\ \A a \in Sessions : at'[a] = noted[a] \/ (noted[a] = "asleep" /\ at'[a] = "gate")
          /\ \A t \in Threads : at'[t] = noted[t]
      <4> HIDE DEF noted
      <4> QED
        BY <3>1, <3>3, ReleaseMoves
    <3> HIDE DEF noted
    <3> QED
      BY <3>2, <3>4, ActorFacts
  <2> QED
    BY <2>1, <2>2
<1>3. gate' = [gate EXCEPT ![uses[s]] = None]
  BY DEF ReleaseGate
<1> QED
  BY <1>1, <1>2, <1>3, ActorFacts DEF Using

\* The actions of a transfer are steps of a transfer, and keep the gates.
LEMMA TransferActions ==
    ASSUME PlaceTypes, ConnectionTypes, DeviceTypes, PlaceInv, ReferredInv, GoneInv, SharedInv,
           GateInv, OneTransfer, NEW s \in Sessions,
           \/ Begin(s) \/ Acquire(s) \/ FallAsleep(s) \/ WakeByItself(s) \/ Submit(s)
           \/ Finish(s) \/ Terminate(s) \/ Cancel(s) \/ \E t \in Threads : Complete(t, s)
    PROVE  TransferStep /\ GateInv' /\ OneTransfer'
<1> USE ActorFacts
<1>0. /\ at \in [Actors -> Places]
      /\ gate \in [Sessions -> Sessions \cup {None}]
      /\ transfer \in [Sessions -> {"none", "active", "cancelled", "done", "lost"}]
      /\ connected \in [Sessions -> BOOLEAN]
      /\ uses \in [Sessions -> Sessions \cup {None}]
      /\ \A x \in Sessions : transfer[x] # "none" => at[x] = "wait"
      /\ \A x \in Sessions : transfer[x] = "lost" => plugged # target[uses[x]]
      /\ \A x \in Sessions : at[x] \in Using <=> uses[x] # None
      /\ \A x \in Sessions : at[x] \in {"submit", "wait"} => gate[uses[x]] = x
  BY DEF PlaceTypes, ConnectionTypes, DeviceTypes, PlaceInv, GoneInv, GateInv
\* No transfer begins.
<1>a. ASSUME UNCHANGED <<target, uses>>, \A x \in Sessions : transfer'[x] # "none" => transfer[x] # "none"
      PROVE  OneTransfer'
  BY <1>a DEF OneTransfer
\* Nobody enters a gate, and nobody but s leaves one.
<1>b. ASSUME UNCHANGED uses, gate' = gate \/ (gate' = [gate EXCEPT ![uses[s]] = None] /\ gate[uses[s]] = s),
             \A x \in Sessions : at'[x] \in {"submit", "wait"} => at[x] \in {"submit", "wait"},
             gate' # gate => at'[s] \notin {"submit", "wait"}
      PROVE  GateInv'
  <2> SUFFICES ASSUME NEW x \in Sessions, at'[x] \in {"submit", "wait"} PROVE gate'[uses[x]] = x
    BY <1>b DEF GateInv
  <2>1. gate[uses[x]] = x /\ uses[x] \in Sessions
    BY <1>0, <1>b DEF Using
  <2>2. CASE gate' = gate
    BY <2>1, <2>2
  <2>3. CASE gate' # gate
    <3>1. x # s /\ uses[x] # uses[s]
      BY <1>b, <2>1, <2>3
    <3> QED
      BY <1>0, <1>b, <2>1, <2>3, <3>1
  <2> QED
    BY <2>2, <2>3
<1>1. CASE Begin(s)
  <2>1. TransferStep
    BY <1>0, <1>1 DEF Begin, TransferStep, Go, Places, Using, connectionVars, dtorVars
  <2>2. GateInv' /\ OneTransfer'
    BY <1>0, <1>1, <1>a, <1>b DEF Begin, Go
  <2> QED
    BY <2>1, <2>2
<1>2. CASE Acquire(s)
  <2>0. /\ at[s] = "gate" /\ uses[s] \in Sessions /\ UNCHANGED <<transfer, uses, target>>
        /\ UNCHANGED <<deviceVars, providerVars, runtimeVars, made, connected, lease, claimed,
                       dropping, held>>
    BY <1>0, <1>2 DEF Acquire, Using, connectionVars, dtorVars
  <2>1. CASE gate' = gate /\ (Go(s, "open") \/ Go(s, "dozing"))
    <3>1. TransferStep
      BY <1>0, <2>0, <2>1 DEF TransferStep, Go, Places, Using
    <3>2. GateInv' /\ OneTransfer'
      BY <1>0, <2>0, <2>1, <1>a, <1>b DEF Go
    <3> QED
      BY <3>1, <3>2
  <2>2. CASE gate[uses[s]] = None /\ gate' = [gate EXCEPT ![uses[s]] = s] /\ Go(s, "submit")
    <3>1. TransferStep
      BY <1>0, <2>0, <2>2 DEF TransferStep, Go, Places, Using
    <3>2. GateInv'
      <4> SUFFICES ASSUME NEW x \in Sessions, at'[x] \in {"submit", "wait"} PROVE gate'[uses[x]] = x
        BY <2>0 DEF GateInv
      <4>1. CASE x = s
        BY <1>0, <2>0, <2>2, <4>1
      <4>2. CASE x # s
        <5>1. gate[uses[x]] = x /\ uses[x] # uses[s]
          BY <1>0, <2>2, <4>2 DEF Go
        <5> QED
          BY <1>0, <2>2, <5>1
      <4> QED
        BY <4>1, <4>2
    <3>3. OneTransfer'
      BY <2>0, <1>a
    <3> QED
      BY <3>1, <3>2, <3>3
  <2> QED
    BY <1>2, <2>1, <2>2 DEF Acquire
<1>3. CASE FallAsleep(s)
  <2>1. TransferStep
    BY <1>0, <1>3 DEF FallAsleep, TransferStep, Go, Places, Using, connectionVars, dtorVars, ioVars
  <2>2. GateInv' /\ OneTransfer'
    BY <1>0, <1>3, <1>a, <1>b DEF FallAsleep, Go, ioVars
  <2> QED
    BY <2>1, <2>2
<1>4. CASE WakeByItself(s)
  <2>1. TransferStep
    BY <1>0, <1>4 DEF WakeByItself, TransferStep, Go, Places, Using, connectionVars, dtorVars
  <2>2. GateInv' /\ OneTransfer'
    BY <1>0, <1>4, <1>a, <1>b DEF WakeByItself, Go
  <2> QED
    BY <2>1, <2>2
\* The call of s returns.
<1>c. ASSUME at[s] \in {"submit", "wait"},
             \/ ReleaseGate(s, [at EXCEPT ![s] = "open"])
             \/ ReleaseGate(s, Notified(uses[s], [at EXCEPT ![s] = "open"])),
             transfer' = [transfer EXCEPT ![s] = "none"],
             \/ connected' = connected
             \/ connected' = [connected EXCEPT ![uses[s]] = FALSE] /\ plugged # target[uses[s]],
             UNCHANGED <<deviceVars, providerVars, runtimeVars, target, uses, made, lease, claimed,
                         dropping, held>>
      PROVE  TransferStep /\ GateInv' /\ OneTransfer'
  <2>0. at[s] \in Using /\ uses[s] \in Sessions /\ gate[uses[s]] = s
    BY <1>0, <1>c DEF Using
  <2>1. /\ at' \in [Actors -> Places]
        /\ \A a \in Sessions : at'[a] = at[a] \/ (at[a] \in Using /\ at'[a] \in Using)
        /\ \A a \in Sessions : at[a] = "wait" /\ a # s => at'[a] = "wait"
        /\ at'[s] = "open"
        /\ \A a \in Sessions : a # s => at'[a] = at[a] \/ at'[a] = "gate"
        /\ \A t \in Threads : at'[t] = at[t]
        /\ gate' = [gate EXCEPT ![uses[s]] = None]
    BY <1>0, <1>c, <2>0, ReturnMoves
  <2>2. /\ connected' \in [Sessions -> BOOLEAN]
        /\ \A x \in Sessions : connected'[x] # connected[x] => ~connected'[x] /\ plugged # target[x]
    <3>1. connected \in [Sessions -> BOOLEAN] /\ uses[s] \in Sessions
      BY <1>0, <2>0
    <3>2. CASE connected' = connected
      BY <3>1, <3>2
    <3>3. CASE connected' = [connected EXCEPT ![uses[s]] = FALSE] /\ plugged # target[uses[s]]
      <4>1. connected' \in [Sessions -> BOOLEAN]
        BY <3>1, <3>3, Zenon
      <4>2. \A x \in Sessions : x # uses[s] => connected'[x] = connected[x]
        BY <3>1, <3>3, Zenon
      <4>3. ~connected'[uses[s]]
        BY <3>1, <3>3, Zenon
      <4> QED
        BY <3>3, <4>1, <4>2, <4>3, Zenon
    <3> QED
      BY <1>c, <3>2, <3>3, Zenon
  <2>3. /\ transfer' \in [Sessions -> {"none", "active", "cancelled", "done", "lost"}]
        /\ transfer'[s] = "none" /\ \A x \in Sessions : x # s => transfer'[x] = transfer[x]
    BY <1>0, <1>c
  <2>4. gate' \in [Sessions -> Sessions \cup {None}]
    BY <1>0, <2>0, <2>1
  <2>5. TransferStep
    BY <1>0, <1>c, <2>1, <2>2, <2>3, <2>4 DEF TransferStep
  <2>6. GateInv'
    BY <1>b, <1>c, <2>0, <2>1
  <2>7. OneTransfer'
    BY <1>a, <1>c, <2>3
  <2> QED
    BY <2>5, <2>6, <2>7
<1>5. CASE Submit(s)
  <2> DEFINE c == uses[s]
  <2>1. /\ UNCHANGED <<deviceVars, providerVars, runtimeVars, target, uses, made, lease, claimed,
                       dropping, held>>
        /\ at[s] = "submit"
    BY <1>5 DEF Submit, dtorVars
  <2>2. at[s] \in Using /\ transfer[s] = "none" /\ c \in Sessions
    BY <1>0, <2>1 DEF Using
  <2>3. CASE ~MaySubmit(s)
    <3>1. ReleaseGate(s, [at EXCEPT ![s] = "open"]) /\ UNCHANGED <<transfer, connected>>
      BY <1>5, <2>3 DEF Submit
    <3>2. transfer' = [transfer EXCEPT ![s] = "none"]
      BY <1>0, <2>2, <3>1
    <3> QED
      BY <1>c, <2>1, <3>1, <3>2
  <2>4. CASE MaySubmit(s) /\ plugged # target[c]
    <3>1. /\ ReleaseGate(s, Notified(c, [at EXCEPT ![s] = "open"])) /\ UNCHANGED transfer
          /\ connected' = [connected EXCEPT ![c] = FALSE]
      BY <1>5, <2>4 DEF Submit
    <3>2. transfer' = [transfer EXCEPT ![s] = "none"]
      BY <1>0, <2>2, <3>1
    <3> QED
      BY <1>c, <2>1, <2>4, <3>1, <3>2
  <2>5. CASE MaySubmit(s) /\ plugged = target[c]
    <3>1. /\ transfer' = [transfer EXCEPT ![s] = "active"] /\ Go(s, "wait")
          /\ UNCHANGED <<connected, gate>>
      BY <1>5, <2>5 DEF Submit
    <3>2. TransferStep
      BY <1>0, <2>1, <3>1 DEF TransferStep, Go, Places, Using
    <3>3. GateInv'
      BY <1>0, <1>b, <2>1, <3>1 DEF Go
    <3>4. ASSUME NEW x \in Sessions, x # s, transfer[x] # "none", target[uses[x]] = target[c]
          PROVE  FALSE
      <4>1. at[x] = "wait" /\ uses[x] \in Sessions /\ gate[uses[x]] = x /\ gate[c] = s
        BY <1>0, <2>1, <3>4 DEF Using
      <4>2. /\ made[uses[x]] = "live" /\ at[uses[x]] # "register"
            /\ made[c] = "live" /\ at[c] # "register" /\ connected[c]
        BY <2>2, <2>5, <4>1 DEF ReferredInv, MaySubmit
      <4>3. CASE connected[uses[x]]
        BY <2>2, <3>4, <4>1, <4>2, <4>3 DEF SharedInv
      <4>4. CASE ~connected[uses[x]]
        BY <2>5, <3>4, <4>1, <4>2, <4>4 DEF GoneInv
      <4> QED
        BY <4>3, <4>4
    <3>5. \A x \in Sessions : x # s => transfer'[x] = transfer[x]
      BY <1>0, <3>1
    <3>6. OneTransfer'
      BY <2>1, <3>4, <3>5 DEF OneTransfer
    <3> QED
      BY <3>2, <3>3, <3>6
  <2> QED
    BY <2>3, <2>4, <2>5
<1>6. CASE Finish(s)
  <2>1. /\ UNCHANGED <<deviceVars, providerVars, runtimeVars, target, uses, made, lease, claimed,
                       dropping, held>>
        /\ at[s] = "wait" /\ transfer' = [transfer EXCEPT ![s] = "none"]
    BY <1>6 DEF Finish, dtorVars
  <2>2. \/ ReleaseGate(s, [at EXCEPT ![s] = "open"]) /\ UNCHANGED connected
        \/ /\ ReleaseGate(s, Notified(uses[s], [at EXCEPT ![s] = "open"]))
           /\ connected' = [connected EXCEPT ![uses[s]] = FALSE] /\ plugged # target[uses[s]]
    BY <1>0, <1>6 DEF Finish
  <2> QED
    BY <1>c, <2>1, <2>2
<1>7. CASE Terminate(s)
  <2>1. TransferStep
    BY <1>0, <1>7 DEF Terminate, TransferStep, connectionVars, dtorVars
  <2>2. GateInv' /\ OneTransfer'
    BY <1>0, <1>7, <1>a, <1>b DEF Terminate
  <2> QED
    BY <2>1, <2>2
<1>8. CASE Cancel(s)
  <2>1. TransferStep
    BY <1>0, <1>8 DEF Cancel, TransferStep, Notified, Places, Using, connectionVars, dtorVars
  <2>2. \A x \in Sessions : transfer'[x] # "none" => transfer[x] # "none"
    BY <1>0, <1>8 DEF Cancel
  <2>3. \A x \in Sessions : at'[x] \in {"submit", "wait"} => at[x] \in {"submit", "wait"}
    BY <1>0, <1>8 DEF Cancel, Notified
  <2>4. UNCHANGED <<uses, target, gate>>
    BY <1>8 DEF Cancel
  <2> QED
    BY <2>1, <2>2, <2>3, <2>4, <1>a, <1>b
<1>9. ASSUME NEW t \in Threads, Complete(t, s) PROVE TransferStep /\ GateInv' /\ OneTransfer'
  <2>1. TransferStep
    BY <1>0, <1>9 DEF Complete, TransferStep, connectionVars, dtorVars
  <2>2. \A x \in Sessions : transfer'[x] # "none" => transfer[x] # "none"
    BY <1>0, <1>9 DEF Complete
  <2>3. UNCHANGED <<uses, target, gate, at>>
    BY <1>9 DEF Complete
  <2> QED
    BY <2>1, <2>2, <2>3, <1>a, <1>b
<1> QED
  BY <1>1, <1>2, <1>3, <1>4, <1>5, <1>6, <1>7, <1>8, <1>9


-----------------------------------------------------------------------------
\* What opening the first handle does: the event thread it starts is the next one.
LEMMA NewThread ==
    ASSUME PlaceTypes, ThreadsStarted, NEW s \in Sessions, at[s] = "handle"
    PROVE  \E n \in Nat :
             /\ n < Cardinality(Sessions) /\ n <= Cardinality(Past)
             /\ n + 1 \in Threads
             /\ \A t \in Threads : at[t] # "none" <=> t <= n
             /\ n + 1 = CHOOSE t \in Threads : at[t] = "none" /\ \A u \in 1 .. t - 1 : at[u] # "none"
<1>1. PICK n \in Nat : n <= Cardinality(Past) /\ \A t \in Threads : at[t] # "none" <=> t <= n
  BY DEF ThreadsStarted
<1>2. Past \subseteq Sessions \ {s}
  BY DEF Past
<1>3. /\ IsFiniteSet(Sessions \ {s}) /\ Cardinality(Sessions) \in Nat
      /\ Cardinality(Sessions \ {s}) = Cardinality(Sessions) - 1
  BY NameAssumption, FS_RemoveElement, FS_CardinalityType
<1>4. Cardinality(Past) <= Cardinality(Sessions \ {s}) /\ Cardinality(Past) \in Nat
  BY <1>2, <1>3, FS_Subset, FS_CardinalityType
<1>5. n < Cardinality(Sessions) /\ n + 1 \in Threads
  BY <1>1, <1>3, <1>4, ThreadAssumption
<1>6. at[n + 1] = "none" /\ \A u \in 1 .. (n + 1) - 1 : at[u] # "none"
  BY <1>1, <1>3, <1>5, ThreadAssumption
<1>7. \A t \in Threads : at[t] = "none" /\ (\A u \in 1 .. t - 1 : at[u] # "none") => t = n + 1
  BY <1>1, <1>3, <1>5, <1>6, ThreadAssumption
<1> QED
  BY <1>1, <1>5, <1>6, <1>7

\* What opening a handle does to the threads and to the session.
LEMMA OpenHandleFacts ==
    ASSUME PlaceTypes, ThreadsStarted, NEW s \in Sessions, OpenHandle(s)
    PROVE  /\ at[s] = "handle"
           /\ at' \in [Actors -> Places]
           /\ at'[s] \in {"claim", "gone"}
           /\ \A x \in Sessions : x # s => at'[x] = at[x]
           /\ \A t \in Threads : at'[t] = at[t] \/ (at[t] = "none" /\ at'[t] = "loop")
           /\ at'[s] = "claim" => open_mutex' = open_mutex
           /\ at'[s] = "gone" => open_mutex' = None
           /\ UNCHANGED <<plugged, hotplug, departed_devices, connections, registered, mutex, target,
                          uses, made, connected, lease, claimed, dropping, held, gate, transfer>>
<1> USE ActorFacts
<1>0. at[s] = "handle"
  BY DEF OpenHandle
<1>1. UNCHANGED <<plugged, hotplug, departed_devices, connections, registered, mutex, target, uses,
                  made, connected, lease, claimed, dropping, held, gate, transfer>>
  BY DEF OpenHandle, deviceVars, connectionVars, dtorVars, ioVars
<1>2. CASE Go(s, "gone") /\ open_mutex' = None
  BY <1>0, <1>1, <1>2 DEF Go, PlaceTypes, Places, Ending
<1>3. CASE /\ open_handles = 0 /\ open_mutex' = open_mutex
           /\ LET t == CHOOSE t \in Threads : at[t] = "none" /\ \A u \in 1 .. t - 1 : at[u] # "none"
              IN  at' = [at EXCEPT ![s] = "claim", ![t] = "loop"]
  <2>1. PICK n \in Nat :
             /\ n + 1 \in Threads
             /\ \A t \in Threads : at[t] # "none" <=> t <= n
             /\ n + 1 = CHOOSE t \in Threads : at[t] = "none" /\ \A u \in 1 .. t - 1 : at[u] # "none"
    BY <1>0, NewThread
  <2>2. at' = [at EXCEPT ![s] = "claim", ![n + 1] = "loop"] /\ open_mutex' = open_mutex
    BY <1>3, <2>1
  <2>3. at[n + 1] = "none"
    BY <2>1
  <2> QED
    BY <1>0, <1>1, <2>1, <2>2, <2>3 DEF PlaceTypes, Places, Opening, InMutex, Serving
<1>4. CASE Go(s, "claim") /\ open_mutex' = open_mutex
  BY <1>0, <1>1, <1>4 DEF Go, PlaceTypes, Places, Opening, InMutex
<1> QED
  BY <1>2, <1>3, <1>4 DEF OpenHandle

\* Opening and closing handles, joining and leaving the loop ...
Walk ==
    \/ \E s \in Sessions : OpenHandle(s)
    \/ \E a \in Actors : CloseHandle(a) \/ Join(a)
    \/ \E t \in Threads : Exit(t) \/ Callback(t)

\* ... only move actors.
LEMMA WalkActions ==
    ASSUME LibusbInv, Walk
    PROVE  WalkStep
<1> USE ActorFacts
<1>0. /\ PlaceTypes /\ ThreadsStarted
      /\ at \in [Actors -> Places]
      /\ open_mutex \in Sessions \cup {None} /\ mutex \in Sessions \cup {None}
      /\ \A x \in Sessions : at[x] \in InMutex => open_mutex = x
      /\ \A x \in Sessions : mutex = x => open_mutex = x /\ at[x] \in Peeking
  BY DEF LibusbInv, PlaceTypes, DeviceTypes, PlaceInv, MutexInv
<1>1. ASSUME NEW s \in Sessions, OpenHandle(s) PROVE WalkStep
  <2>1. /\ at[s] = "handle" /\ at' \in [Actors -> Places] /\ at'[s] \in {"claim", "gone"}
        /\ \A x \in Sessions : x # s => at'[x] = at[x]
        /\ \A t \in Threads : at'[t] = at[t] \/ (at[t] = "none" /\ at'[t] = "loop")
        /\ at'[s] = "claim" => open_mutex' = open_mutex
        /\ at'[s] = "gone" => open_mutex' = None
        /\ UNCHANGED <<plugged, hotplug, departed_devices, connections, registered, mutex, target,
                       uses, made, connected, lease, claimed, dropping, held, gate, transfer>>
    BY <1>0, <1>1, OpenHandleFacts
  <2>2. open_mutex = s /\ \A x \in Sessions : mutex # x
    BY <1>0, <2>1 DEF InMutex, Peeking
  <2>3. \A x \in Sessions : at'[x] \in InMutex => open_mutex' = x
    BY <1>0, <2>1, <2>2 DEF InMutex
  <2> QED
    BY <1>0, <2>1, <2>2, <2>3 DEF WalkStep
<1>2. ASSUME NEW a \in Actors, CloseHandle(a) PROVE WalkStep
  <2>0. /\ at[a] = "close"
        /\ UNCHANGED <<plugged, hotplug, departed_devices, connections, registered, target, uses,
                       made, connected, lease, claimed, dropping, held, gate, transfer>>
    BY <1>2 DEF CloseHandle, deviceVars, connectionVars, ioVars
  <2>1. CASE Resume(a)
    <3> DEFINE more == mutex = a /\ connections[target[a]] = None
               to == CASE a \in Threads -> "drop" [] a \in Sessions /\ more -> "handle" [] OTHER -> "gone"
    <3>1. /\ at' = [at EXCEPT ![a] = to]
          /\ mutex' = IF mutex = a THEN None ELSE mutex
          /\ open_mutex' = IF open_mutex = a /\ ~more THEN None ELSE open_mutex
      BY <2>1 DEF Resume, Go
    <3>2. /\ a \in Threads => to = "drop"
          /\ a \in Sessions => IF more THEN to = "handle" ELSE to = "gone"
      OBVIOUS
    <3> HIDE DEF to
    <3>3. at'[a] = to /\ (\A x \in Actors : x # a => at'[x] = at[x]) /\ at' \in [Actors -> Places]
      BY <1>0, <3>1, <3>2 DEF Places, Opening, InMutex, Ending, Serving
    <3>4. \A x \in Sessions : at'[x] \in InMutex => open_mutex' = x
      BY <1>0, <2>0, <3>1, <3>2, <3>3 DEF InMutex
    <3>5. \A x \in Sessions : mutex' = x =>
             mutex = x /\ open_mutex' = open_mutex /\ at'[x] \in {at[x], "close", "join"}
      BY <1>0, <2>0, <3>1, <3>2, <3>3
    <3>6. \A x \in Sessions :
             \/ at'[x] = at[x]
             \/ at[x] = "close" /\ at'[x] = "gone"
             \/ /\ at[x] = "close" /\ at'[x] = "handle"
                /\ open_mutex = x /\ mutex = x /\ connections[target[x]] = None
      BY <1>0, <2>0, <3>2, <3>3
    <3>7. \A x \in Threads : at'[x] = at[x] \/ (at[x] = "close" /\ at'[x] = "drop")
      BY <2>0, <3>2, <3>3
    <3> QED
      BY <2>0, <3>1, <3>3, <3>4, <3>5, <3>6, <3>7 DEF WalkStep
  <2>2. CASE UNCHANGED <<open_mutex, mutex>> /\ (Go(a, "join") \/ UNCHANGED at)
    BY <1>0, <2>0, <2>2 DEF WalkStep, Go, Places, InMutex, Ending, Serving
  <2> QED
    BY <1>2, <2>1, <2>2 DEF CloseHandle, mutexVars
<1>3. ASSUME NEW a \in Actors, Join(a) PROVE WalkStep
  <2>1. /\ at[a] = "join" /\ Go(a, "close")
        /\ UNCHANGED <<plugged, hotplug, departed_devices, connections, registered, target, uses,
                       made, connected, lease, claimed, dropping, held, gate, transfer,
                       open_mutex, mutex>>
    BY <1>3 DEF Join, deviceVars, providerVars, mutexVars, connectionVars, ioVars
  <2> QED
    BY <1>0, <2>1 DEF WalkStep, Go, Places, InMutex, Ending, Serving
<1>4. ASSUME NEW t \in Threads, Exit(t) \/ Callback(t) PROVE WalkStep
  <2>1. /\ at[t] = "loop" /\ (Go(t, "exited") \/ Go(t, "callback"))
        /\ UNCHANGED <<plugged, hotplug, departed_devices, connections, registered, target, uses,
                       made, connected, lease, claimed, dropping, held, gate, transfer,
                       open_mutex, mutex>>
    BY <1>4 DEF Exit, Callback, deviceVars, providerVars, mutexVars, connectionVars, dtorVars, ioVars
  <2> QED
    BY <1>0, <2>1 DEF WalkStep, Go, Places, InMutex, Ending, Serving
<1> QED
  BY <1>1, <1>2, <1>3, <1>4 DEF Walk

\* viClose gives up its reference.
LEMMA CloseKind ==
    ASSUME LibusbInv, NEW s \in Sessions, Close(s)
    PROVE  KeepStep(s) \/ \E c \in Sessions : DieStep(s, c)
<1> USE ActorFacts
<1> DEFINE c == uses[s]
<1>1. /\ at[s] = "open" /\ uses' = [uses EXCEPT ![s] = None]
      /\ UNCHANGED <<runtimeVars, plugged, hotplug, departed_devices, connections, registered, open_mutex, mutex,
                     target, lease, claimed, held, gate, transfer>>
  BY DEF Close, deviceVars, providerVars, mutexVars, ioVars
<1>2. c \in Sessions /\ made[c] = "live" /\ at[c] # "register"
  BY <1>1 DEF LibusbInv, PlaceInv, ReferredInv, ConnectionTypes, Using
<1>3. held[s] = {} /\ dropping[s] = None
  BY <1>1 DEF LibusbInv, MutexInv, DyingInv
<1>4. GivesUp(s)
  BY <1>1, <1>3 DEF LibusbInv, ConnectionTypes, GivesUp
<1>5. CASE Users(c) = {s}
  <2>1. Destroy(s, c)
    BY <1>5 DEF Close
  <2>2. /\ \A x \in Sessions : uses'[x] # c
        /\ \A x \in Actors : c \notin held'[x]
    BY <1>1, <1>2, <1>3, <1>5 DEF LibusbInv, ConnectionTypes, Users
  <2> QED
    BY <1>1, <1>2, <1>3, <1>4, <2>1, <2>2 DEF DieStep
<1>6. CASE Users(c) # {s}
  <2>1. Go(s, "gone") /\ UNCHANGED <<made, connected, dropping>>
    BY <1>6 DEF Close
  <2> QED
    BY <1>1, <1>4, <2>1 DEF KeepStep
<1> QED
  BY <1>5, <1>6

\* So does device_left, one by one.
LEMMA DropKind ==
    ASSUME LibusbInv, NEW t \in Threads, Drop(t)
    PROVE  KeepStep(t) \/ \E c \in Sessions : DieStep(t, c)
<1> USE ActorFacts
<1>1. /\ at[t] = "drop"
      /\ UNCHANGED <<runtimeVars, plugged, hotplug, departed_devices, connections, registered, open_mutex, mutex,
                     target, uses, lease, claimed, gate, transfer>>
  BY DEF Drop, deviceVars, providerVars, mutexVars, ioVars
<1>2. dropping[t] = None
  BY <1>1 DEF LibusbInv, DyingInv
<1>3. CASE held[t] = {}
  <2>1. Go(t, "loop") /\ UNCHANGED <<held, made, connected, dropping>>
    BY <1>3 DEF Drop
  <2> QED
    BY <1>1, <2>1 DEF LibusbInv, ConnectionTypes, KeepStep, GivesUp
<1>4. CASE held[t] # {}
  <2>1. PICK c \in held[t] :
          /\ held' = [held EXCEPT ![t] = @ \ {c}]
          /\ IF Users(c) = {t} THEN Destroy(t, c) ELSE UNCHANGED <<at, made, connected, dropping>>
    BY <1>4 DEF Drop
  <2>2. c \in Sessions /\ made[c] = "live" /\ at[c] # "register"
    BY DEF LibusbInv, ConnectionTypes, ReferredInv
  <2>3. GivesUp(t)
    BY <1>1, <2>1 DEF LibusbInv, ConnectionTypes, GivesUp
  <2>4. CASE Users(c) = {t}
    <3>1. /\ \A x \in Sessions : uses'[x] # c
          /\ \A x \in Actors : c \notin held'[x]
      BY <1>1, <2>1, <2>2, <2>4 DEF LibusbInv, ConnectionTypes, Users
    <3> QED
      BY <1>1, <1>2, <2>1, <2>2, <2>3, <2>4, <3>1 DEF DieStep
  <2>5. CASE Users(c) # {t}
    BY <1>1, <2>1, <2>3, <2>5 DEF KeepStep
  <2> QED
    BY <2>4, <2>5
<1> QED
  BY <1>3, <1>4

\* And open_impl, when it does not share what it looked at.
LEMMA PeekKind ==
    ASSUME LibusbInv, NEW s \in Sessions, Peek(s)
    PROVE  ShareStep(s) \/ KeepStep(s) \/ \E c \in Sessions : DieStep(s, c)
<1> USE ActorFacts
<1> DEFINE c == connections[target[s]]
<1>1. /\ at[s] = "peek" /\ held' = [held EXCEPT ![s] = {}]
      /\ UNCHANGED <<runtimeVars, plugged, hotplug, departed_devices, registered, target, lease, claimed, gate,
                     transfer>>
  BY DEF Peek, deviceVars, ioVars
<1>2. held[s] = {c} /\ dropping[s] = None /\ uses[s] = None
  BY <1>1 DEF LibusbInv, MutexInv, DyingInv, PlaceInv, Using
<1>3. c \in Sessions /\ made[c] = "live" /\ at[c] # "register"
  BY <1>2 DEF LibusbInv, ConnectionTypes, ReferredInv
<1>4. CASE Shareable(c) /\ alternate[c] = alternate[s]
  <2>1. /\ uses' = [uses EXCEPT ![s] = c]
        /\ open_mutex' = None /\ mutex' = None /\ Go(s, "open")
        /\ UNCHANGED <<connections, made, connected, dropping>>
    BY <1>4 DEF Peek
  <2> QED
    BY <1>1, <2>1 DEF ShareStep
<1>5. CASE ~(Shareable(c) /\ alternate[c] = alternate[s])
  <2>1. /\ connections' = IF Shareable(c) THEN connections
                          ELSE [connections EXCEPT ![target[s]] = None]
        /\ uses' = uses
    BY <1>5 DEF Peek
  <2>2. GivesUp(s)
    BY <1>1, <1>2, <2>1 DEF LibusbInv, ConnectionTypes, GivesUp
  <2>3. CASE Users(c) = {s}
    <3>1. Destroy(s, c) /\ UNCHANGED <<open_mutex, mutex>>
      BY <1>5, <2>3 DEF Peek, mutexVars
    <3>2. /\ \A x \in Sessions : uses'[x] # c
          /\ \A x \in Actors : c \notin held'[x]
      BY <1>1, <1>2, <2>1, <2>3 DEF LibusbInv, ConnectionTypes, Users
    <3> QED
      BY <1>1, <1>2, <1>3, <2>1, <2>2, <3>1, <3>2 DEF DieStep, Shareable
  <2>4. CASE Users(c) # {s}
    <3>1. /\ mutex' = None
          /\ IF Shareable(c) THEN Go(s, "gone") /\ open_mutex' = None
                             ELSE Go(s, "handle") /\ UNCHANGED open_mutex
          /\ UNCHANGED <<made, connected, dropping>>
      BY <1>5, <2>4 DEF Peek
    <3> QED
      BY <1>1, <2>1, <2>2, <3>1 DEF KeepStep, Shareable
  <2> QED
    BY <2>3, <2>4
<1> QED
  BY <1>4, <1>5

\* open_impl makes its connection known, or drops it.
LEMMA RegisterKind ==
    ASSUME LibusbInv, NEW s \in Sessions, Register(s)
    PROVE  EnterStep(s) \/ DieStep(s, s)
<1> USE ActorFacts
<1>1. /\ at[s] = "register"
      /\ UNCHANGED <<runtimeVars, plugged, hotplug, departed_devices, mutex, target, lease, claimed, held, gate,
                     transfer>>
  BY DEF Register, deviceVars, ioVars
<1>2. CASE HasLeft(target[s])
  <2>1. Destroy(s, s) /\ UNCHANGED <<connections, registered, uses, open_mutex>>
    BY <1>2 DEF Register
  <2>2. held[s] = {} /\ dropping[s] = None /\ uses[s] = None /\ made[s] = "live"
    BY <1>1 DEF LibusbInv, MutexInv, DyingInv, PlaceInv, Using
  <2>3. GivesUp(s)
    BY <1>1, <2>1, <2>2 DEF LibusbInv, ConnectionTypes, GivesUp
  <2>4. /\ \A x \in Sessions : uses'[x] # s
        /\ \A x \in Actors : s \notin held'[x]
    BY <1>1, <2>1 DEF LibusbInv, ReferredInv
  <2> QED
    BY <1>1, <2>1, <2>2, <2>3, <2>4 DEF DieStep
<1>3. CASE ~HasLeft(target[s])
  BY <1>1, <1>3 DEF Register, EnterStep, HasLeft
<1> QED
  BY <1>2, <1>3

\* Every step is of one of these kinds.
LEMMA Kinds ==
    ASSUME LibusbInv, [Next]_vars
    PROVE  \/ TransferStep /\ GateInv' /\ OneTransfer'
           \/ WalkStep /\ Walk
           \/ \E s \in Sessions : List(s) \/ Lookup(s) \/ Claim(s) \/ ShareStep(s) \/ EnterStep(s)
           \/ \E a \in Actors : EndLease(a) \/ Release(a) \/ KeepStep(a) \/ \E c \in Sessions : DieStep(a, c)
           \/ \E t \in Threads : Hotplug(t) \/ MarkDisconnected(t)
           \/ Unplug
           \/ \E d \in Devices : Plug(d)
           \/ UNCHANGED vars
<1> USE ActorFacts
<1>1. ASSUME NEW s \in Sessions,
             SessionStep(s) \/ Cancel(s) \/ Begin(s) \/ Terminate(s) \/ Close(s)
      PROVE  \/ TransferStep /\ GateInv' /\ OneTransfer'
             \/ WalkStep /\ Walk
             \/ List(s) \/ Lookup(s) \/ Claim(s) \/ ShareStep(s) \/ EnterStep(s)
             \/ EndLease(s) \/ Release(s) \/ KeepStep(s) \/ \E c \in Sessions : DieStep(s, c)
  BY <1>1, TransferActions, WalkActions, PeekKind, RegisterKind, CloseKind
     DEF LibusbInv, SessionStep, Destructors, Walk
<1>2. ASSUME NEW t \in Threads, EventStep(t)
      PROVE  \/ (WalkStep /\ Walk) \/ Hotplug(t) \/ MarkDisconnected(t)
             \/ EndLease(t) \/ Release(t) \/ KeepStep(t) \/ \E c \in Sessions : DieStep(t, c)
  BY <1>2, WalkActions, DropKind DEF EventStep, Destructors, Walk
<1>3. ASSUME NEW t \in Threads, NEW s \in Sessions, Complete(t, s)
      PROVE  TransferStep /\ GateInv' /\ OneTransfer'
  BY <1>3, TransferActions DEF LibusbInv
<1> QED
  BY <1>1, <1>2, <1>3 DEF Next

-----------------------------------------------------------------------------
\* What the steps do, element by element.
LEMMA ListFacts ==
    ASSUME LibusbInv, NEW s \in Sessions, List(s)
    PROVE  /\ at[s] = "new" /\ made[s] = "no"
           /\ at' \in [Actors -> Places] /\ at'[s] \in {"gone", "lookup"}
           /\ \A x \in Actors : x # s => at'[x] = at[x]
           /\ target' \in [Sessions -> Devices \cup {None}]
           /\ at'[s] = "lookup" => target'[s] # None
           /\ \A x \in Sessions : x # s => target'[x] = target[x]
           /\ UNCHANGED <<runtimeVars, plugged, hotplug, departed_devices, connections, registered,
                          open_mutex, mutex, uses, made, connected, lease, claimed, dropping, held,
                          gate, transfer>>
<1> USE ActorFacts
<1>1. at[s] = "new" /\ made[s] = "no"
  BY DEF List, LibusbInv, PlaceInv, Opening
<1>2. /\ at' \in [Actors -> Places] /\ at'[s] \in {"gone", "lookup"}
      /\ \A x \in Actors : x # s => at'[x] = at[x]
  BY DEF List, Go, LibusbInv, PlaceTypes, Places, Opening, Ending
<1>3. /\ target' \in [Sessions -> Devices \cup {None}]
      /\ at'[s] = "lookup" => target'[s] # None
      /\ \A x \in Sessions : x # s => target'[x] = target[x]
  <2>1. CASE plugged = None
    BY <2>1 DEF List, Go, LibusbInv, PlaceTypes, ConnectionTypes
  <2>2. CASE plugged # None
    BY <2>2 DEF List, LibusbInv, ConnectionTypes, DeviceTypes
  <2> QED
    BY <2>1, <2>2
<1>4. UNCHANGED <<runtimeVars, plugged, hotplug, departed_devices, connections, registered,
                  open_mutex, mutex, uses, made, connected, lease, claimed, dropping, held, gate, transfer>>
  BY DEF List, deviceVars, providerVars, mutexVars, connectionVars, dtorVars, ioVars
<1> QED
  BY <1>1, <1>2, <1>3, <1>4

\* open_impl looks for the connection that is known.
LEMMA LookupFacts ==
    ASSUME LibusbInv, NEW s \in Sessions, Lookup(s)
    PROVE  /\ at[s] = "lookup" /\ made[s] = "no" /\ target[s] \in Devices
           /\ open_mutex = None /\ mutex = None /\ open_mutex' = s
           /\ at' \in [Actors -> Places] /\ at'[s] \in {"peek", "handle"}
           /\ \A x \in Actors : x # s => at'[x] = at[x]
           /\ held' \in [Actors -> SUBSET Sessions]
           /\ \A x \in Actors : x # s => held'[x] = held[x]
           /\ at'[s] = "peek" => /\ connections[target[s]] \in Sessions
                                 /\ made[connections[target[s]]] = "live"
                                 /\ held'[s] = {connections[target[s]]}
                                 /\ mutex' = s /\ connections' = connections
           /\ at'[s] = "handle" =>
                 /\ connections[target[s]] # None => made[connections[target[s]]] # "live"
                 /\ held' = held /\ mutex' = mutex
                 /\ connections' = [connections EXCEPT ![target[s]] = None]
           /\ UNCHANGED <<runtimeVars, plugged, hotplug, departed_devices, registered, target, uses,
                          made, connected, lease, claimed, dropping, gate, transfer>>
<1> USE ActorFacts
<1> DEFINE c == connections[target[s]]
<1>1. /\ at[s] = "lookup" /\ made[s] = "no" /\ target[s] \in Devices
      /\ open_mutex = None /\ mutex = None /\ open_mutex' = s
  BY DEF Lookup, LibusbInv, PlaceInv, ConnectionTypes, Opening
<1>2. UNCHANGED <<runtimeVars, plugged, hotplug, departed_devices, registered, target, uses,
                  made, connected, lease, claimed, dropping, gate, transfer>>
  BY DEF Lookup, deviceVars, connectionVars, dtorVars, ioVars
<1>3. CASE c # None /\ made[c] = "live"
  <2>1. held' = [held EXCEPT ![s] = {c}] /\ mutex' = s /\ Go(s, "peek") /\ connections' = connections
    BY <1>3 DEF Lookup
  <2>2. c \in Sessions
    BY <1>1, <1>3 DEF LibusbInv, ConnectionTypes
  <2>3. /\ at' \in [Actors -> Places] /\ at'[s] = "peek"
        /\ \A x \in Actors : x # s => at'[x] = at[x]
    BY <2>1 DEF Go, LibusbInv, PlaceTypes, Places, Opening, InMutex
  <2>4. /\ held' \in [Actors -> SUBSET Sessions] /\ held'[s] = {c}
        /\ \A x \in Actors : x # s => held'[x] = held[x]
    BY <2>1, <2>2 DEF LibusbInv, ConnectionTypes
  <2> QED
    BY <1>1, <1>2, <1>3, <2>1, <2>2, <2>3, <2>4
<1>4. CASE ~(c # None /\ made[c] = "live")
  <2>1. /\ connections' = [connections EXCEPT ![target[s]] = None]
        /\ Go(s, "handle") /\ UNCHANGED <<held, mutex>>
    BY <1>4 DEF Lookup
  <2>2. /\ at' \in [Actors -> Places] /\ at'[s] = "handle"
        /\ \A x \in Actors : x # s => at'[x] = at[x]
    BY <2>1 DEF Go, LibusbInv, PlaceTypes, Places, Opening, InMutex
  <2>3. held' \in [Actors -> SUBSET Sessions]
    BY <2>1 DEF LibusbInv, ConnectionTypes
  <2> QED
    BY <1>1, <1>2, <1>4, <2>1, <2>2, <2>3
<1> QED
  BY <1>3, <1>4

\* acquire gets a lease for the new handle, shared or new, or it fails.
LEMMA ClaimFacts ==
    ASSUME LibusbInv, NEW s \in Sessions, Claim(s)
    PROVE  /\ at[s] = "claim" /\ made[s] = "no" /\ target[s] \in Devices
           /\ at' \in [Actors -> Places] /\ at'[s] \in {"close", "register"}
           /\ \A x \in Actors : x # s => at'[x] = at[x]
           /\ at'[s] = "close" => UNCHANGED <<made, connected, lease, claimed>>
           /\ at'[s] = "register" =>
                /\ made' \in [Sessions -> {"no", "live", "expired", "ending", "dead"}]
                /\ made'[s] = "live" /\ \A x \in Sessions : x # s => made'[x] = made[x]
                /\ connected' \in [Sessions -> BOOLEAN]
                /\ connected'[s] /\ \A x \in Sessions : x # s => connected'[x] = connected[x]
                /\ lease' \in [Sessions -> Sessions \cup {None}]
                /\ \A x \in Sessions : x # s => lease'[x] = lease[x]
                /\ \/ /\ \A x \in Sessions : Leased(x) => target[x] # target[s]
                      /\ lease'[s] = s /\ claimed' = [claimed EXCEPT ![target[s]] = s]
                   \/ /\ \E x \in Sessions : Leased(x) /\ target[x] = target[s] /\ lease'[s] = lease[x]
                      /\ claimed' = claimed
           /\ UNCHANGED <<runtimeVars, plugged, hotplug, departed_devices, connections, registered,
                          open_mutex, mutex, target, uses, dropping, held, gate, transfer>>
<1> USE ActorFacts
<1> DEFINE d == target[s]
           shared == {c \in Sessions : Leased(c) /\ target[c] = d}
<1>1. at[s] = "claim" /\ made[s] = "no" /\ target[s] \in Devices
  BY DEF Claim, LibusbInv, PlaceInv, ConnectionTypes, Opening, InMutex
<1>2. UNCHANGED <<runtimeVars, plugged, hotplug, departed_devices, connections, registered,
                  open_mutex, mutex, target, uses, dropping, held, gate, transfer>>
  BY DEF Claim, deviceVars, providerVars, mutexVars, ioVars
<1>3. CASE shared = {} /\ (claimed[d] # None \/ plugged # d)
  <2>1. Go(s, "close") /\ UNCHANGED <<made, connected, lease, claimed>>
    BY <1>3 DEF Claim, connectionVars
  <2> QED
    BY <1>1, <1>2, <2>1 DEF Go, LibusbInv, PlaceTypes, Places, Ending
<1>4. CASE ~(shared = {} /\ (claimed[d] # None \/ plugged # d))
  <2>1. /\ Go(s, "register")
        /\ made' = [made EXCEPT ![s] = "live"]
        /\ connected' = [connected EXCEPT ![s] = TRUE]
        /\ lease' = [lease EXCEPT ![s] = IF shared = {} THEN s ELSE lease[CHOOSE c \in shared : TRUE]]
        /\ claimed' = IF shared = {} THEN [claimed EXCEPT ![d] = s] ELSE claimed
    BY <1>4 DEF Claim
  <2>2. /\ at' \in [Actors -> Places] /\ at'[s] = "register"
        /\ \A x \in Actors : x # s => at'[x] = at[x]
    BY <2>1 DEF Go, LibusbInv, PlaceTypes, Places, Opening, InMutex
  <2>3. /\ made' \in [Sessions -> {"no", "live", "expired", "ending", "dead"}]
        /\ made'[s] = "live" /\ \A x \in Sessions : x # s => made'[x] = made[x]
    BY <2>1 DEF LibusbInv, ConnectionTypes
  <2>4. /\ connected' \in [Sessions -> BOOLEAN]
        /\ connected'[s] /\ \A x \in Sessions : x # s => connected'[x] = connected[x]
    BY <2>1 DEF LibusbInv, ConnectionTypes
  <2>5. CASE shared = {}
    <3>1. /\ lease' \in [Sessions -> Sessions \cup {None}] /\ lease'[s] = s
          /\ \A x \in Sessions : x # s => lease'[x] = lease[x]
      BY <2>1, <2>5 DEF LibusbInv, ConnectionTypes
    <3>2. claimed' = [claimed EXCEPT ![d] = s] /\ \A x \in Sessions : Leased(x) => target[x] # d
      BY <2>1, <2>5
    <3> QED
      BY <1>1, <1>2, <2>2, <2>3, <2>4, <3>1, <3>2
  <2>6. CASE shared # {}
    <3>1. PICK x \in shared : lease' = [lease EXCEPT ![s] = lease[x]]
      <4>1. (CHOOSE c \in shared : TRUE) \in shared
        BY <2>6
      <4> QED
        BY <2>1, <2>6, <4>1
    <3>2. /\ lease' \in [Sessions -> Sessions \cup {None}] /\ lease'[s] = lease[x]
          /\ \A y \in Sessions : y # s => lease'[y] = lease[y]
      BY <3>1 DEF LibusbInv, ConnectionTypes
    <3>3. claimed' = claimed /\ x \in Sessions /\ Leased(x) /\ target[x] = d
      BY <2>1, <2>6
    <3> QED
      BY <1>1, <1>2, <2>2, <2>3, <2>4, <3>2, <3>3
  <2> QED
    BY <2>5, <2>6
<1> QED
  BY <1>3, <1>4

\* A connection that is found is shared.
LEMMA ShareFacts ==
    ASSUME LibusbInv, NEW s \in Sessions, ShareStep(s)
    PROVE  /\ at[s] = "peek" /\ open_mutex = s /\ mutex = s /\ uses[s] = None
           /\ at' \in [Actors -> Places] /\ at'[s] = "open"
           /\ \A x \in Actors : x # s => at'[x] = at[x]
           /\ uses' \in [Sessions -> Sessions \cup {None}]
           /\ uses'[s] \in held[s] /\ uses'[s] \in Sessions
           /\ \A x \in Sessions : x # s => uses'[x] = uses[x]
           /\ held' \in [Actors -> SUBSET Sessions] /\ held'[s] = {}
           /\ \A x \in Actors : x # s => held'[x] = held[x]
           /\ open_mutex' = None /\ mutex' = None
           /\ UNCHANGED <<runtimeVars, plugged, hotplug, departed_devices, connections, registered,
                          target, made, connected, lease, claimed, dropping, gate, transfer>>
<1> USE ActorFacts
<1> DEFINE c == connections[target[s]]
<1>1. at[s] = "peek" /\ open_mutex = s /\ mutex = s /\ uses[s] = None /\ held[s] = {c}
  BY DEF ShareStep, LibusbInv, PlaceInv, MutexInv, InMutex, Using
<1>2. c \in Sessions /\ c \in held[s]
  BY <1>1 DEF LibusbInv, ConnectionTypes
<1>3. /\ at' = [at EXCEPT ![s] = "open"]
      /\ uses' = [uses EXCEPT ![s] = c] /\ held' = [held EXCEPT ![s] = {}]
      /\ open_mutex' = None /\ mutex' = None
      /\ UNCHANGED <<runtimeVars, plugged, hotplug, departed_devices, connections, registered,
                     target, made, connected, lease, claimed, dropping, gate, transfer>>
  BY DEF ShareStep, Go
<1> HIDE DEF c
<1>4. /\ at' \in [Actors -> Places] /\ at'[s] = "open"
      /\ \A x \in Actors : x # s => at'[x] = at[x]
  BY <1>3 DEF LibusbInv, PlaceTypes, Places, Using
<1>5. /\ uses' \in [Sessions -> Sessions \cup {None}] /\ uses'[s] = c
      /\ \A x \in Sessions : x # s => uses'[x] = uses[x]
  BY <1>2, <1>3 DEF LibusbInv, ConnectionTypes
<1>6. /\ held' \in [Actors -> SUBSET Sessions] /\ held'[s] = {}
      /\ \A x \in Actors : x # s => held'[x] = held[x]
  BY <1>3 DEF LibusbInv, ConnectionTypes
<1> QED
  BY <1>1, <1>2, <1>3, <1>4, <1>5, <1>6

\* A new one is made known.
LEMMA EnterFacts ==
    ASSUME LibusbInv, NEW s \in Sessions, EnterStep(s)
    PROVE  /\ at[s] = "register" /\ open_mutex = s /\ mutex = None /\ uses[s] = None
           /\ made[s] = "live" /\ target[s] \in Devices /\ target[s] \notin departed_devices
           /\ at' \in [Actors -> Places] /\ at'[s] = "open"
           /\ \A x \in Actors : x # s => at'[x] = at[x]
           /\ uses' \in [Sessions -> Sessions \cup {None}]
           /\ uses'[s] = s /\ \A x \in Sessions : x # s => uses'[x] = uses[x]
           /\ connections' \in [Devices -> Sessions \cup {None}]
           /\ connections'[target[s]] = s
           /\ \A d \in Devices : d # target[s] => connections'[d] = connections[d]
           /\ registered' = registered \cup {s}
           /\ open_mutex' = None
           /\ UNCHANGED <<runtimeVars, plugged, hotplug, departed_devices, mutex, held, target, made,
                          connected, lease, claimed, dropping, gate, transfer>>
<1> USE ActorFacts
<1>1. /\ at[s] = "register" /\ open_mutex = s /\ uses[s] = None
      /\ made[s] = "live" /\ target[s] \in Devices
  BY DEF EnterStep, LibusbInv, PlaceInv, ConnectionTypes, InMutex, Using
<1>2. mutex = None
  BY <1>1 DEF LibusbInv, MutexInv, DeviceTypes, Peeking
<1>3. /\ at' \in [Actors -> Places] /\ at'[s] = "open"
      /\ \A x \in Actors : x # s => at'[x] = at[x]
  BY DEF EnterStep, Go, LibusbInv, PlaceTypes, Places, Using
<1>4. /\ uses' \in [Sessions -> Sessions \cup {None}]
      /\ uses'[s] = s /\ \A x \in Sessions : x # s => uses'[x] = uses[x]
  BY DEF EnterStep, LibusbInv, ConnectionTypes
<1>5. /\ connections' \in [Devices -> Sessions \cup {None}]
      /\ connections'[target[s]] = s
      /\ \A d \in Devices : d # target[s] => connections'[d] = connections[d]
  BY <1>1 DEF EnterStep, LibusbInv, ConnectionTypes
<1> QED
  BY <1>1, <1>2, <1>3, <1>4, <1>5 DEF EnterStep

\* A destructor begins.
LEMMA DieFacts ==
    ASSUME LibusbInv, NEW a \in Actors, NEW c \in Sessions, DieStep(a, c)
    PROVE  /\ made[c] = "live" /\ made' \in [Sessions -> {"no", "live", "expired", "ending", "dead"}]
           /\ made'[c] = "expired" /\ \A x \in Sessions : x # c => made'[x] = made[x]
           /\ connected' \in [Sessions -> BOOLEAN]
           /\ ~connected'[c] /\ \A x \in Sessions : x # c => connected'[x] = connected[x]
           /\ dropping[a] = None /\ dropping' \in [Actors -> Sessions \cup {None}]
           /\ dropping'[a] = c /\ \A x \in Actors : x # a => dropping'[x] = dropping[x]
           /\ at' \in [Actors -> Places]
           /\ at'[a] = "expired" /\ \A x \in Actors : x # a => at'[x] = at[x]
           /\ connections' \in [Devices -> Sessions \cup {None}]
           /\ \A d \in Devices :
                 connections'[d] # connections[d] =>
                    connections'[d] = None /\ at[a] = "peek" /\ d = target[a] /\ ~connected[connections[d]]
<1> USE ActorFacts
<1>1. /\ made' = [made EXCEPT ![c] = "expired"]
      /\ connected' = [connected EXCEPT ![c] = FALSE]
      /\ dropping' = [dropping EXCEPT ![a] = c]
      /\ at' = [at EXCEPT ![a] = "expired"]
  BY DEF DieStep, Destroy, Go
<1>2. /\ made' \in [Sessions -> {"no", "live", "expired", "ending", "dead"}]
      /\ made'[c] = "expired" /\ \A x \in Sessions : x # c => made'[x] = made[x]
  BY <1>1 DEF LibusbInv, ConnectionTypes
<1>3. /\ connected' \in [Sessions -> BOOLEAN]
      /\ ~connected'[c] /\ \A x \in Sessions : x # c => connected'[x] = connected[x]
  BY <1>1 DEF LibusbInv, ConnectionTypes
<1>4. /\ dropping' \in [Actors -> Sessions \cup {None}]
      /\ dropping'[a] = c /\ \A x \in Actors : x # a => dropping'[x] = dropping[x]
  BY <1>1 DEF LibusbInv, ConnectionTypes
<1>5. /\ at' \in [Actors -> Places]
      /\ at'[a] = "expired" /\ \A x \in Actors : x # a => at'[x] = at[x]
  BY <1>1 DEF LibusbInv, PlaceTypes, Places, Ending
<1>6. /\ connections' \in [Devices -> Sessions \cup {None}]
      /\ \A d \in Devices :
            connections'[d] # connections[d] =>
               connections'[d] = None /\ at[a] = "peek" /\ d = target[a] /\ ~connected[connections[d]]
  BY DEF DieStep, LibusbInv, ConnectionTypes
<1> QED
  BY <1>2, <1>3, <1>4, <1>5, <1>6 DEF DieStep

\* A reference is given up, and others are left.
LEMMA KeepFacts ==
    ASSUME LibusbInv, NEW a \in Actors, KeepStep(a)
    PROVE  /\ at' \in [Actors -> Places] /\ \A x \in Actors : x # a => at'[x] = at[x]
           /\ \/ a \in Sessions /\ at[a] \in {"open", "peek"} /\ at'[a] \in {"gone", "handle"}
              \/ a \in Threads /\ at[a] = "drop" /\ at'[a] \in {"drop", "loop"}
           /\ at'[a] = "handle" => at[a] = "peek" /\ open_mutex' = open_mutex
           /\ at[a] = "peek" => mutex' = None /\ mutex = a /\ open_mutex = a
           /\ at[a] # "peek" => UNCHANGED <<connections, open_mutex, mutex>>
           /\ open_mutex' \in {open_mutex, None}
           /\ at'[a] = "handle" => ~connected[connections[target[a]]]
           /\ connections' \in [Devices -> Sessions \cup {None}]
           /\ \A d \in Devices :
                 connections'[d] # connections[d] =>
                    connections'[d] = None /\ at[a] = "peek" /\ d = target[a] /\ ~connected[connections[d]]
<1> USE ActorFacts
<1>1. /\ at' \in [Actors -> Places] /\ \A x \in Actors : x # a => at'[x] = at[x]
      /\ \/ a \in Sessions /\ at[a] \in {"open", "peek"} /\ at'[a] \in {"gone", "handle"}
         \/ a \in Threads /\ at[a] = "drop" /\ at'[a] \in {"drop", "loop"}
      /\ at'[a] = "handle" => /\ at[a] = "peek" /\ open_mutex' = open_mutex
                              /\ ~connected[connections[target[a]]]
  BY DEF KeepStep, Go, LibusbInv, PlaceTypes, Places, Opening, InMutex, Ending, Serving
<1>2. at[a] = "peek" => a \in Sessions /\ mutex' = None /\ mutex = a /\ open_mutex = a
  BY DEF KeepStep, LibusbInv, MutexInv
<1>3. /\ connections' \in [Devices -> Sessions \cup {None}]
      /\ \A d \in Devices :
            connections'[d] # connections[d] =>
               connections'[d] = None /\ at[a] = "peek" /\ d = target[a] /\ ~connected[connections[d]]
  BY DEF KeepStep, LibusbInv, ConnectionTypes
<1>4. /\ open_mutex' \in {open_mutex, None}
      /\ at[a] # "peek" => UNCHANGED <<connections, open_mutex, mutex>>
  BY DEF KeepStep
<1> QED
  BY <1>1, <1>2, <1>3, <1>4

\* A destructor gives up the lease.
LEMMA EndLeaseFacts ==
    ASSUME LibusbInv, NEW a \in Actors, EndLease(a)
    PROVE  \E c \in Sessions :
           /\ c = dropping[a] /\ at[a] = "expired" /\ made[c] = "expired"
           /\ at' \in [Actors -> Places] /\ at'[a] = "release"
           /\ \A x \in Actors : x # a => at'[x] = at[x]
           /\ made' \in [Sessions -> {"no", "live", "expired", "ending", "dead"}]
           /\ made'[c] = "ending" /\ \A x \in Sessions : x # c => made'[x] = made[x]
           /\ lease' \in [Sessions -> Sessions \cup {None}]
           /\ \A x \in Sessions : x # c => lease'[x] = lease[x]
           /\ lease'[c] = None \/ (lease'[c] = lease[c] /\ Lessees(lease[c]) = {c})
           /\ UNCHANGED <<runtimeVars, plugged, hotplug, departed_devices, connections, registered,
                          open_mutex, mutex, target, uses, connected, claimed, dropping, held, gate,
                          transfer>>
<1> USE ActorFacts
<1> DEFINE c == dropping[a]
<1>1. at[a] = "expired" /\ c \in Sessions /\ made[c] = "expired"
  BY DEF EndLease, LibusbInv, DyingInv, ConnectionTypes
<1>2. UNCHANGED <<runtimeVars, plugged, hotplug, departed_devices, connections, registered,
                  open_mutex, mutex, target, uses, connected, claimed, dropping, held, gate, transfer>>
  BY DEF EndLease, deviceVars, providerVars, mutexVars, dtorVars, ioVars
<1>3. /\ at' \in [Actors -> Places] /\ at'[a] = "release"
      /\ \A x \in Actors : x # a => at'[x] = at[x]
  BY DEF EndLease, Go, LibusbInv, PlaceTypes, Places, Ending
<1>4. /\ made' \in [Sessions -> {"no", "live", "expired", "ending", "dead"}]
      /\ made'[c] = "ending" /\ \A x \in Sessions : x # c => made'[x] = made[x]
  BY <1>1 DEF EndLease, LibusbInv, ConnectionTypes
<1>5. /\ lease' \in [Sessions -> Sessions \cup {None}]
      /\ \A x \in Sessions : x # c => lease'[x] = lease[x]
      /\ lease'[c] = None \/ (lease'[c] = lease[c] /\ Lessees(lease[c]) = {c})
  BY <1>1 DEF EndLease, LastLessee, LibusbInv, ConnectionTypes
<1> QED
  BY <1>1, <1>2, <1>3, <1>4, <1>5

\* It gives the claim and the handles back.
LEMMA ReleaseFacts ==
    ASSUME LibusbInv, NEW a \in Actors, Release(a)
    PROVE  \E c \in Sessions :
           /\ c = dropping[a] /\ at[a] = "release" /\ made[c] = "ending"
           /\ at' \in [Actors -> Places] /\ at'[a] = "close"
           /\ \A x \in Actors : x # a => at'[x] = at[x]
           /\ made' \in [Sessions -> {"no", "live", "expired", "ending", "dead"}]
           /\ made'[c] = "dead" /\ \A x \in Sessions : x # c => made'[x] = made[x]
           /\ lease' \in [Sessions -> Sessions \cup {None}] /\ lease'[c] = None
           /\ \A x \in Sessions : x # c => lease'[x] = lease[x]
           /\ claimed' \in [Devices -> Sessions \cup {None}]
           /\ \A d \in Devices : claimed[d] # lease[c] => claimed'[d] = claimed[d]
           /\ dropping' \in [Actors -> Sessions \cup {None}]
           /\ dropping'[a] = None /\ \A x \in Actors : x # a => dropping'[x] = dropping[x]
           /\ UNCHANGED <<runtimeVars, plugged, hotplug, departed_devices, connections, registered,
                          open_mutex, mutex, target, uses, connected, held, gate, transfer>>
<1> USE ActorFacts
<1> DEFINE c == dropping[a]
<1>1. at[a] = "release" /\ c \in Sessions /\ made[c] = "ending"
  BY DEF Release, LibusbInv, DyingInv, ConnectionTypes
<1>2. UNCHANGED <<runtimeVars, plugged, hotplug, departed_devices, connections, registered,
                  open_mutex, mutex, target, uses, connected, held, gate, transfer>>
  BY DEF Release, deviceVars, providerVars, mutexVars, ioVars
<1>3. /\ at' \in [Actors -> Places] /\ at'[a] = "close"
      /\ \A x \in Actors : x # a => at'[x] = at[x]
  BY DEF Release, Go, LibusbInv, PlaceTypes, Places, Ending
<1>4. /\ made' \in [Sessions -> {"no", "live", "expired", "ending", "dead"}]
      /\ made'[c] = "dead" /\ \A x \in Sessions : x # c => made'[x] = made[x]
  BY <1>1 DEF Release, LibusbInv, ConnectionTypes
<1>5. /\ lease' \in [Sessions -> Sessions \cup {None}] /\ lease'[c] = None
      /\ \A x \in Sessions : x # c => lease'[x] = lease[x]
  BY <1>1 DEF Release, LibusbInv, ConnectionTypes
<1>6. /\ claimed' \in [Devices -> Sessions \cup {None}]
      /\ \A d \in Devices : claimed[d] # lease[c] => claimed'[d] = claimed[d]
  BY DEF Release, LibusbInv, ConnectionTypes
<1>7. /\ dropping' \in [Actors -> Sessions \cup {None}]
      /\ dropping'[a] = None /\ \A x \in Actors : x # a => dropping'[x] = dropping[x]
  BY DEF Release, LibusbInv, ConnectionTypes
<1> QED
  BY <1>1, <1>2, <1>3, <1>4, <1>5, <1>6, <1>7

\* device_left and device_arrived.
LEMMA HotplugFacts ==
    ASSUME LibusbInv, NEW t \in Threads, Hotplug(t)
    PROVE  \E d \in Devices :
           /\ at[t] = "callback" /\ at' \in [Actors -> Places]
           /\ \A x \in Actors : x # t => at'[x] = at[x]
           /\ held' \in [Actors -> SUBSET Sessions]
           /\ \A x \in Actors : x # t => held'[x] = held[x]
           /\ registered' \subseteq registered
           /\ hotplug # <<>> /\ hotplug' = Tail(hotplug)
           /\ \/ /\ at'[t] = "mark" /\ hotplug[1][1] = "left" /\ d = hotplug[1][2]
                 /\ departed_devices' = departed_devices \cup {d}
                 /\ held'[t] = {c \in registered : target[c] = d /\ made[c] = "live"}
                 /\ registered' = {c \in registered : target[c] # d}
              \/ /\ at'[t] = "loop" /\ departed_devices' = departed_devices \ {d}
                 /\ held' = held /\ registered' = registered
           /\ UNCHANGED <<runtimeVars, plugged, connections, open_mutex, mutex, target, uses, made,
                          connected, lease, claimed, dropping, gate, transfer>>
<1> USE ActorFacts
<1> DEFINE d == hotplug[1][2]
<1>0. at[t] = "callback" /\ hotplug # <<>> /\ d \in Devices
  BY DEF Hotplug, LibusbInv, DeviceTypes
<1>1. /\ hotplug' = Tail(hotplug)
      /\ UNCHANGED <<runtimeVars, plugged, connections, open_mutex, mutex, target, uses, made,
                     connected, lease, claimed, dropping, gate, transfer>>
  BY DEF Hotplug, mutexVars, connectionVars, dtorVars, ioVars
<1>2. CASE hotplug[1][1] = "left"
  <2>1. /\ departed_devices' = departed_devices \cup {d}
        /\ held' = [held EXCEPT ![t] = {c \in registered : target[c] = d /\ made[c] = "live"}]
        /\ registered' = {c \in registered : target[c] # d}
        /\ at' = [at EXCEPT ![t] = "mark"]
    BY <1>2 DEF Hotplug, Go
  <2>2. /\ at' \in [Actors -> Places] /\ at'[t] = "mark"
        /\ \A x \in Actors : x # t => at'[x] = at[x]
    BY <2>1 DEF LibusbInv, PlaceTypes, Places, Serving
  <2>3. /\ held' \in [Actors -> SUBSET Sessions]
        /\ held'[t] = {c \in registered : target[c] = d /\ made[c] = "live"}
        /\ \A x \in Actors : x # t => held'[x] = held[x]
    BY <2>1 DEF LibusbInv, ConnectionTypes
  <2> QED
    BY <1>0, <1>1, <1>2, <2>1, <2>2, <2>3
<1>3. CASE hotplug[1][1] # "left"
  <2>1. /\ departed_devices' = departed_devices \ {d}
        /\ UNCHANGED <<held, registered>> /\ at' = [at EXCEPT ![t] = "loop"]
    BY <1>3 DEF Hotplug, Go
  <2>2. /\ at' \in [Actors -> Places] /\ at'[t] = "loop"
        /\ \A x \in Actors : x # t => at'[x] = at[x]
    BY <2>1 DEF LibusbInv, PlaceTypes, Places, Serving
  <2>3. held' \in [Actors -> SUBSET Sessions]
    BY <2>1 DEF LibusbInv, ConnectionTypes
  <2> QED
    BY <1>0, <1>1, <2>1, <2>2, <2>3
<1> QED
  BY <1>2, <1>3

\* The connections device_left has taken are marked.
LEMMA MarkFacts ==
    ASSUME LibusbInv, NEW t \in Threads, MarkDisconnected(t)
    PROVE  /\ at[t] = "mark" /\ at' \in [Actors -> Places] /\ at'[t] = "drop"
           /\ \A x \in Threads : x # t => at'[x] = at[x]
           /\ \A x \in Sessions : at'[x] = at[x] \/ (at[x] = "asleep" /\ at'[x] = "gate")
           /\ connected' \in [Sessions -> BOOLEAN]
           /\ \A c \in Sessions : connected'[c] <=> connected[c] /\ c \notin held[t]
           /\ UNCHANGED <<runtimeVars, plugged, hotplug, departed_devices, connections, registered,
                          open_mutex, mutex, target, uses, made, lease, claimed, dropping, held, gate,
                          transfer>>
<1> USE ActorFacts
<1>1. /\ at[t] = "mark" /\ at' \in [Actors -> Places] /\ at'[t] = "drop"
      /\ \A x \in Threads : x # t => at'[x] = at[x]
      /\ \A x \in Sessions : at'[x] = at[x] \/ (at[x] = "asleep" /\ at'[x] = "gate")
  BY DEF MarkDisconnected, LibusbInv, PlaceTypes, Places, Serving, Using
<1>2. /\ connected' \in [Sessions -> BOOLEAN]
      /\ \A c \in Sessions : connected'[c] <=> connected[c] /\ c \notin held[t]
  BY DEF MarkDisconnected, LibusbInv, ConnectionTypes
<1> QED
  BY <1>1, <1>2 DEF MarkDisconnected, deviceVars, providerVars, mutexVars, dtorVars, ioVars

\* The device comes and goes.
PlugStep ==
    /\ \/ plugged # None /\ plugged' = None /\ hotplug' = Append(hotplug, <<"left", plugged>>)
       \/ \E d \in Devices :
             /\ plugged = None /\ plugged' = d /\ hotplug' = Append(hotplug, <<"arrived", d>>)
             /\ \A s \in Sessions : target[s] = d => at[s] = "gone" /\ made[s] \in {"no", "dead"}
             /\ \A i \in DOMAIN hotplug : hotplug[i][2] # d
    /\ UNCHANGED <<runtimeVars, departed_devices, connections, registered, open_mutex, mutex, at,
                   target, uses, made, connected, lease, claimed, dropping, held, gate, transfer>>

\* Its coming and going are events.
LEMMA PlugEvents ==
    ASSUME DeviceTypes, PlugStep
    PROVE  hotplug' \in Seq({"left", "arrived"} \X Devices)
<1> DEFINE Events == {"left", "arrived"} \X Devices
<1>1. PICK e \in Events : hotplug' = Append(hotplug, e)
  BY DEF PlugStep, DeviceTypes
<1>2. hotplug \in Seq(Events)
  BY DEF DeviceTypes
<1> HIDE DEF Events
<1>3. hotplug' \in Seq(Events)
  BY <1>1, <1>2
<1> QED
  BY <1>3 DEF Events

\* Every step, with the moves of the device as one kind and stuttering spelled out.
LEMMA Steps ==
    ASSUME LibusbInv, [Next]_vars
    PROVE  \/ TransferStep /\ GateInv' /\ OneTransfer'
           \/ WalkStep /\ Walk
           \/ \E s \in Sessions : List(s) \/ Lookup(s) \/ Claim(s) \/ ShareStep(s) \/ EnterStep(s)
           \/ \E a \in Actors : EndLease(a) \/ Release(a) \/ KeepStep(a) \/ \E c \in Sessions : DieStep(a, c)
           \/ \E t \in Threads : Hotplug(t) \/ MarkDisconnected(t)
           \/ PlugStep
           \/ UNCHANGED <<runtimeVars, plugged, hotplug, departed_devices, connections, registered,
                          open_mutex, mutex, at, target, uses, made, connected, lease, claimed,
                          dropping, held, gate, transfer>>
<1>1. Unplug \/ (\E d \in Devices : Plug(d)) => PlugStep
  BY DEF Unplug, Plug, PlugStep, providerVars, mutexVars, connectionVars, dtorVars, ioVars
<1>2. UNCHANGED vars =>
         UNCHANGED <<runtimeVars, plugged, hotplug, departed_devices, connections, registered,
                     open_mutex, mutex, at, target, uses, made, connected, lease, claimed,
                     dropping, held, gate, transfer>>
  BY DEF vars, deviceVars, providerVars, mutexVars, connectionVars, dtorVars, ioVars
<1> QED
  BY <1>1, <1>2, Kinds

-----------------------------------------------------------------------------
\* Every actor stays within its places.
LEMMA PlaceTypesStep ==
    ASSUME LibusbInv, [Next]_vars
    PROVE  PlaceTypes'
<1> USE ActorFacts
<1>0. PlaceTypes
  BY DEF LibusbInv
<1>1. CASE TransferStep /\ GateInv' /\ OneTransfer'
  BY <1>0, <1>1 DEF PlaceTypes, Opening, InMutex, Using, Ending, Serving, TransferStep, deviceVars, providerVars, mutexVars
<1>2. CASE WalkStep /\ Walk
  BY <1>0, <1>2 DEF PlaceTypes, Opening, InMutex, Using, Ending, Serving, WalkStep
<1>3. ASSUME NEW s \in Sessions, List(s) PROVE PlaceTypes'
  BY <1>0, <1>3, ListFacts DEF PlaceTypes, Opening, InMutex, Using, Ending, Serving
<1>4. ASSUME NEW s \in Sessions, Lookup(s) PROVE PlaceTypes'
  BY <1>0, <1>4, LookupFacts DEF PlaceTypes, Opening, InMutex, Using, Ending, Serving
<1>5. ASSUME NEW s \in Sessions, Claim(s) PROVE PlaceTypes'
  BY <1>0, <1>5, ClaimFacts DEF PlaceTypes, Opening, InMutex, Using, Ending, Serving
<1>6. ASSUME NEW s \in Sessions, ShareStep(s) PROVE PlaceTypes'
  BY <1>0, <1>6, ShareFacts DEF PlaceTypes, Opening, InMutex, Using, Ending, Serving
<1>7. ASSUME NEW s \in Sessions, EnterStep(s) PROVE PlaceTypes'
  BY <1>0, <1>7, EnterFacts DEF PlaceTypes, Opening, InMutex, Using, Ending, Serving
<1>8. ASSUME NEW a \in Actors, EndLease(a) PROVE PlaceTypes'
  BY <1>0, <1>8, EndLeaseFacts DEF PlaceTypes, Opening, InMutex, Using, Ending, Serving
<1>9. ASSUME NEW a \in Actors, Release(a) PROVE PlaceTypes'
  BY <1>0, <1>9, ReleaseFacts DEF PlaceTypes, Opening, InMutex, Using, Ending, Serving
<1>10. ASSUME NEW a \in Actors, KeepStep(a) PROVE PlaceTypes'
  BY <1>0, <1>10, KeepFacts DEF PlaceTypes, Opening, InMutex, Using, Ending, Serving, KeepStep, GivesUp
<1>11. ASSUME NEW a \in Actors, NEW c \in Sessions, DieStep(a, c) PROVE PlaceTypes'
  BY <1>0, <1>11, DieFacts DEF PlaceTypes, Opening, InMutex, Using, Ending, Serving, DieStep, GivesUp
<1>12. ASSUME NEW t \in Threads, Hotplug(t) PROVE PlaceTypes'
  BY <1>0, <1>12, HotplugFacts DEF PlaceTypes, Opening, InMutex, Using, Ending, Serving
<1>13. ASSUME NEW t \in Threads, MarkDisconnected(t) PROVE PlaceTypes'
  BY <1>0, <1>13, MarkFacts DEF PlaceTypes, Opening, InMutex, Using, Ending, Serving
<1>14. CASE PlugStep
  BY <1>0, <1>14 DEF PlaceTypes, Opening, InMutex, Using, Ending, Serving, PlugStep
<1>15. CASE UNCHANGED <<runtimeVars, plugged, hotplug, departed_devices, connections, registered,
                 open_mutex, mutex, at, target, uses, made, connected, lease, claimed,
                 dropping, held, gate, transfer>>
  BY <1>0, <1>15 DEF PlaceTypes, Opening, InMutex, Using, Ending, Serving
<1> QED
  BY <1>1, <1>2, <1>3, <1>4, <1>5, <1>6, <1>7, <1>8, <1>9, <1>10, <1>11, <1>12, <1>13, <1>14,
     <1>15, Steps

\* The connections and what refers to them.
LEMMA ConnectionTypesStep ==
    ASSUME LibusbInv, [Next]_vars
    PROVE  ConnectionTypes'
<1> USE ActorFacts
<1>0. PlaceTypes /\ ConnectionTypes /\ PlaceInv
  BY DEF LibusbInv
<1>1. CASE TransferStep /\ GateInv' /\ OneTransfer'
  BY <1>0, <1>1 DEF ConnectionTypes, TransferStep, deviceVars, providerVars, mutexVars
<1>2. CASE WalkStep /\ Walk
  BY <1>0, <1>2 DEF ConnectionTypes, WalkStep
<1>3. ASSUME NEW s \in Sessions, List(s) PROVE ConnectionTypes'
  BY <1>0, <1>3, ListFacts DEF ConnectionTypes
<1>4. ASSUME NEW s \in Sessions, Lookup(s) PROVE ConnectionTypes'
  BY <1>0, <1>4, LookupFacts DEF ConnectionTypes
<1>5. ASSUME NEW s \in Sessions, Claim(s) PROVE ConnectionTypes'
  BY <1>0, <1>5, ClaimFacts DEF ConnectionTypes
<1>6. ASSUME NEW s \in Sessions, ShareStep(s) PROVE ConnectionTypes'
  BY <1>0, <1>6, ShareFacts DEF ConnectionTypes
<1>7. ASSUME NEW s \in Sessions, EnterStep(s) PROVE ConnectionTypes'
  BY <1>0, <1>7, EnterFacts DEF ConnectionTypes
<1>8. ASSUME NEW a \in Actors, EndLease(a) PROVE ConnectionTypes'
  BY <1>0, <1>8, EndLeaseFacts DEF ConnectionTypes
<1>9. ASSUME NEW a \in Actors, Release(a) PROVE ConnectionTypes'
  BY <1>0, <1>9, ReleaseFacts DEF ConnectionTypes
<1>10. ASSUME NEW a \in Actors, KeepStep(a) PROVE ConnectionTypes'
  BY <1>0, <1>10, KeepFacts DEF ConnectionTypes, KeepStep, GivesUp
<1>11. ASSUME NEW a \in Actors, NEW c \in Sessions, DieStep(a, c) PROVE ConnectionTypes'
  BY <1>0, <1>11, DieFacts DEF ConnectionTypes, DieStep, GivesUp
<1>12. ASSUME NEW t \in Threads, Hotplug(t) PROVE ConnectionTypes'
  BY <1>0, <1>12, HotplugFacts DEF ConnectionTypes
<1>13. ASSUME NEW t \in Threads, MarkDisconnected(t) PROVE ConnectionTypes'
  BY <1>0, <1>13, MarkFacts DEF ConnectionTypes
<1>14. CASE PlugStep
  BY <1>0, <1>14 DEF ConnectionTypes, PlugStep
<1>15. CASE UNCHANGED <<runtimeVars, plugged, hotplug, departed_devices, connections, registered,
                 open_mutex, mutex, at, target, uses, made, connected, lease, claimed,
                 dropping, held, gate, transfer>>
  BY <1>0, <1>15 DEF ConnectionTypes
<1> QED
  BY <1>1, <1>2, <1>3, <1>4, <1>5, <1>6, <1>7, <1>8, <1>9, <1>10, <1>11, <1>12, <1>13, <1>14,
     <1>15, Steps

\* The device, the mutexes and the transfers.
LEMMA DeviceTypesStep ==
    ASSUME LibusbInv, [Next]_vars
    PROVE  DeviceTypes'
<1> USE ActorFacts
<1>0. DeviceTypes
  BY DEF LibusbInv
<1>1. CASE TransferStep /\ GateInv' /\ OneTransfer'
  BY <1>0, <1>1 DEF DeviceTypes, TransferStep, deviceVars, providerVars, mutexVars
<1>2. CASE WalkStep /\ Walk
  BY <1>0, <1>2 DEF DeviceTypes, WalkStep
<1>3. ASSUME NEW s \in Sessions, List(s) PROVE DeviceTypes'
  BY <1>0, <1>3, ListFacts DEF DeviceTypes
<1>4. ASSUME NEW s \in Sessions, Lookup(s) PROVE DeviceTypes'
  BY <1>0, <1>4, LookupFacts DEF DeviceTypes
<1>5. ASSUME NEW s \in Sessions, Claim(s) PROVE DeviceTypes'
  BY <1>0, <1>5, ClaimFacts DEF DeviceTypes
<1>6. ASSUME NEW s \in Sessions, ShareStep(s) PROVE DeviceTypes'
  BY <1>0, <1>6, ShareFacts DEF DeviceTypes
<1>7. ASSUME NEW s \in Sessions, EnterStep(s) PROVE DeviceTypes'
  BY <1>0, <1>7, EnterFacts DEF DeviceTypes
<1>8. ASSUME NEW a \in Actors, EndLease(a) PROVE DeviceTypes'
  BY <1>0, <1>8, EndLeaseFacts DEF DeviceTypes
<1>9. ASSUME NEW a \in Actors, Release(a) PROVE DeviceTypes'
  BY <1>0, <1>9, ReleaseFacts DEF DeviceTypes
<1>10. ASSUME NEW a \in Actors, KeepStep(a) PROVE DeviceTypes'
  BY <1>0, <1>10, KeepFacts DEF DeviceTypes, KeepStep, GivesUp
<1>11. ASSUME NEW a \in Actors, NEW c \in Sessions, DieStep(a, c) PROVE DeviceTypes'
  BY <1>0, <1>11, DieFacts DEF DeviceTypes, DieStep, GivesUp
<1>12. ASSUME NEW t \in Threads, Hotplug(t) PROVE DeviceTypes'
  <2> DEFINE Events == {"left", "arrived"} \X Devices
  <2>1. hotplug \in Seq(Events) /\ hotplug # <<>> /\ hotplug' = Tail(hotplug)
    BY <1>0, <1>12, HotplugFacts DEF DeviceTypes
  <2>2. hotplug' \in Seq(Events)
    <3> HIDE DEF Events
    <3> QED
      BY <2>1
  <2> QED
    BY <1>0, <1>12, <2>2, HotplugFacts DEF DeviceTypes
<1>13. ASSUME NEW t \in Threads, MarkDisconnected(t) PROVE DeviceTypes'
  BY <1>0, <1>13, MarkFacts DEF DeviceTypes
<1>14. CASE PlugStep
  <2>1. hotplug' \in Seq({"left", "arrived"} \X Devices)
    BY <1>0, <1>14, PlugEvents
  <2> QED
    BY <1>0, <1>14, <2>1 DEF DeviceTypes, PlugStep
<1>15. CASE UNCHANGED <<runtimeVars, plugged, hotplug, departed_devices, connections, registered,
                 open_mutex, mutex, at, target, uses, made, connected, lease, claimed,
                 dropping, held, gate, transfer>>
  BY <1>0, <1>15 DEF DeviceTypes
<1> QED
  BY <1>1, <1>2, <1>3, <1>4, <1>5, <1>6, <1>7, <1>8, <1>9, <1>10, <1>11, <1>12, <1>13, <1>14,
     <1>15, Steps


\* The first handle starts the next event thread.
LEMMA FirstHandle ==
    ASSUME LibusbInv, NEW s \in Sessions, OpenHandle(s), open_handles = 0, at'[s] = "claim"
    PROVE  /\ ThreadsStarted'
           /\ events_running' = TRUE /\ events_thread' \in Threads
           /\ at'[events_thread'] = "loop" /\ open_handles' = 1
<1> USE ActorFacts
<1>0. PlaceTypes /\ ThreadsStarted /\ at[s] = "handle" /\ mutex # s /\ mutex' = mutex
  BY OpenHandleFacts DEF OpenHandle, LibusbInv, MutexInv, Peeking
<1>1. PICK n \in Nat :
           /\ n < Cardinality(Sessions) /\ n <= Cardinality(Past)
           /\ n + 1 \in Threads
           /\ \A t \in Threads : at[t] # "none" <=> t <= n
           /\ n + 1 = CHOOSE t \in Threads : at[t] = "none" /\ \A u \in 1 .. t - 1 : at[u] # "none"
  BY <1>0, NewThread
<1>2. /\ at' = [at EXCEPT ![s] = "claim", ![n + 1] = "loop"] /\ open_handles' = open_handles + 1
      /\ events_running' = TRUE /\ events_thread' = n + 1
  <2>1. ~Go(s, "gone")
    BY <1>0 DEF Go, PlaceTypes
  <2> QED
    BY <1>1, <2>1 DEF OpenHandle
<1>3. Past' = Past \cup {s} /\ s \notin Past
  BY <1>0, <1>1, <1>2 DEF Past, PlaceTypes
<1>4. IsFiniteSet(Past) /\ Cardinality(Past) \in Nat
  BY NameAssumption, FS_Subset, FS_CardinalityType DEF Past
<1>5. Cardinality(Past') = Cardinality(Past) + 1
  BY <1>3, <1>4, FS_AddElement
<1>6. at'[n + 1] = "loop" /\ \A t \in Threads : t # n + 1 => at'[t] = at[t]
  BY <1>0, <1>1, <1>2 DEF PlaceTypes
<1>7. \A t \in Threads : at'[t] # "none" <=> t <= n + 1
  BY <1>1, <1>6
<1>8. n + 1 \in Nat /\ n + 1 <= Cardinality(Past')
  BY <1>1, <1>4, <1>5
<1>9. ThreadsStarted'
  BY <1>7, <1>8 DEF ThreadsStarted
<1> QED
  BY <1>1, <1>2, <1>6, <1>9

\* Other steps start no thread, and no session becomes one that may.
ThreadsKept ==
    /\ \A s \in Sessions : s \in Past => s \in Past'
    /\ \A t \in Threads : at'[t] = "none" <=> at[t] = "none"

\* Then as many threads are started as were, by as many sessions or more.
LEMMA KeptStarted ==
    ASSUME ThreadsStarted, ThreadsKept PROVE ThreadsStarted'
<1>1. PICK n \in Nat : n <= Cardinality(Past) /\ \A t \in Threads : at[t] # "none" <=> t <= n
  BY DEF ThreadsStarted
<1>2. Past \subseteq Past' /\ Past' \subseteq Sessions
  BY DEF Past, ThreadsKept
<1>3. IsFiniteSet(Past') /\ IsFiniteSet(Past)
  BY <1>2, NameAssumption, FS_Subset DEF Past
<1>4. Cardinality(Past) <= Cardinality(Past') /\ Cardinality(Past) \in Nat /\ Cardinality(Past') \in Nat
  BY <1>2, <1>3, FS_Subset, FS_CardinalityType
<1>5. n <= Cardinality(Past') /\ \A t \in Threads : at'[t] # "none" <=> t <= n
  BY <1>1, <1>4 DEF ThreadsKept
<1> QED
  BY <1>5 DEF ThreadsStarted

\* Actors that walk start no thread, but for the first handle.
LEMMA WalkKeeps ==
    ASSUME LibusbInv, WalkStep, Walk
    PROVE  \/ ThreadsKept
           \/ \E s \in Sessions : OpenHandle(s) /\ open_handles = 0 /\ at'[s] = "claim"
<1> USE ActorFacts
<1>0. PlaceTypes /\ ThreadsStarted
  BY DEF LibusbInv
<1>1. \A s \in Sessions : s \in Past => s \in Past'
  BY DEF WalkStep, Past
<1>2. ASSUME NEW s \in Sessions, OpenHandle(s), ~(open_handles = 0 /\ at'[s] = "claim")
      PROVE  \A t \in Threads : at'[t] = at[t]
  <2>1. CASE Go(s, "gone") \/ Go(s, "claim")
    BY <1>0, <2>1 DEF Go, PlaceTypes
  <2>2. CASE ~(Go(s, "gone") \/ Go(s, "claim"))
    <3>1. open_handles = 0 /\ ~Go(s, "gone")
      BY <1>2, <2>2 DEF OpenHandle
    <3>2. at'[s] # "gone"
      <4>1. PICK t \in Threads : at' = [at EXCEPT ![s] = "claim", ![t] = "loop"]
        <5>1. PICK n \in Nat :
                 /\ n + 1 \in Threads
                 /\ n + 1 = CHOOSE t \in Threads : at[t] = "none" /\ \A u \in 1 .. t - 1 : at[u] # "none"
          BY <1>0, <1>2, NewThread DEF OpenHandle
        <5> QED
          BY <1>2, <3>1, <5>1 DEF OpenHandle
      <4> QED
        BY <1>0, <4>1 DEF PlaceTypes
    <3> QED
      BY <1>0, <1>2, <3>1, <3>2, OpenHandleFacts
  <2> QED
    BY <2>1, <2>2
<1>3. ASSUME NEW a \in Actors, CloseHandle(a) \/ Join(a)
      PROVE  \A t \in Threads : at'[t] = "none" <=> at[t] = "none"
  BY <1>0, <1>3 DEF CloseHandle, Join, Resume, Go, PlaceTypes
<1>4. ASSUME NEW t \in Threads, Exit(t) \/ Callback(t)
      PROVE  \A u \in Threads : at'[u] = "none" <=> at[u] = "none"
  BY <1>0, <1>4 DEF Exit, Callback, Go, PlaceTypes
<1> QED
  BY <1>1, <1>2, <1>3, <1>4 DEF Walk, ThreadsKept

\* Threads are started in order, each with the handle of a session of its own.
LEMMA StartedStep ==
    ASSUME LibusbInv, [Next]_vars
    PROVE  ThreadsStarted'
<1> USE ActorFacts
<1>0. PlaceTypes /\ ThreadsStarted /\ MutexInv
  BY DEF LibusbInv
<1>k. ThreadsKept => ThreadsStarted'
  BY <1>0, KeptStarted
<1>1. CASE TransferStep /\ GateInv' /\ OneTransfer'
  BY <1>0, <1>k, <1>1 DEF ThreadsKept, Past, PlaceTypes, TransferStep, deviceVars, providerVars, mutexVars, Using
<1>2. CASE WalkStep /\ Walk
  BY <1>0, <1>2, WalkKeeps, KeptStarted, FirstHandle
<1>3. ASSUME NEW s \in Sessions, List(s) PROVE ThreadsStarted'
  BY <1>0, <1>k, <1>3, ListFacts DEF ThreadsKept, Past, PlaceTypes
<1>4. ASSUME NEW s \in Sessions, Lookup(s) PROVE ThreadsStarted'
  BY <1>0, <1>k, <1>4, LookupFacts DEF ThreadsKept, Past, PlaceTypes
<1>5. ASSUME NEW s \in Sessions, Claim(s) PROVE ThreadsStarted'
  BY <1>0, <1>k, <1>5, ClaimFacts DEF ThreadsKept, Past, PlaceTypes
<1>6. ASSUME NEW s \in Sessions, ShareStep(s) PROVE ThreadsStarted'
  BY <1>0, <1>k, <1>6, ShareFacts DEF ThreadsKept, Past, PlaceTypes
<1>7. ASSUME NEW s \in Sessions, EnterStep(s) PROVE ThreadsStarted'
  BY <1>0, <1>k, <1>7, EnterFacts DEF ThreadsKept, Past, PlaceTypes
<1>8. ASSUME NEW a \in Actors, EndLease(a) PROVE ThreadsStarted'
  BY <1>0, <1>k, <1>8, EndLeaseFacts DEF ThreadsKept, Past, PlaceTypes
<1>9. ASSUME NEW a \in Actors, Release(a) PROVE ThreadsStarted'
  BY <1>0, <1>k, <1>9, ReleaseFacts DEF ThreadsKept, Past, PlaceTypes
<1>10. ASSUME NEW a \in Actors, KeepStep(a) PROVE ThreadsStarted'
  BY <1>0, <1>k, <1>10, KeepFacts DEF ThreadsKept, Past, PlaceTypes, KeepStep, GivesUp
<1>11. ASSUME NEW a \in Actors, NEW c \in Sessions, DieStep(a, c) PROVE ThreadsStarted'
  BY <1>0, <1>k, <1>11, DieFacts DEF ThreadsKept, Past, PlaceTypes, DieStep, GivesUp
<1>12. ASSUME NEW t \in Threads, Hotplug(t) PROVE ThreadsStarted'
  BY <1>0, <1>k, <1>12, HotplugFacts DEF ThreadsKept, Past, PlaceTypes
<1>13. ASSUME NEW t \in Threads, MarkDisconnected(t) PROVE ThreadsStarted'
  BY <1>0, <1>k, <1>13, MarkFacts DEF ThreadsKept, Past, PlaceTypes
<1>14. CASE PlugStep
  BY <1>0, <1>k, <1>14 DEF ThreadsKept, Past, PlaceTypes, PlugStep
<1>15. CASE UNCHANGED <<runtimeVars, plugged, hotplug, departed_devices, connections, registered,
                 open_mutex, mutex, at, target, uses, made, connected, lease, claimed,
                 dropping, held, gate, transfer>>
  BY <1>0, <1>k, <1>15 DEF ThreadsKept, Past, PlaceTypes
<1> QED
  BY <1>1, <1>2, <1>3, <1>4, <1>5, <1>6, <1>7, <1>8, <1>9, <1>10, <1>11, <1>12, <1>13, <1>14,
     <1>15, Steps


\* Handles are counted.
LEMMA WalkServed ==
    ASSUME LibusbInv, WalkStep, Walk
    PROVE  Served'
<1> USE ActorFacts DEF runtimeVars
<1>0. PlaceTypes /\ ThreadsStarted /\ Served
  BY DEF LibusbInv
<1>1. ASSUME NEW s \in Sessions, OpenHandle(s) PROVE Served'
  <2>0. open_handles \in Int
    BY <1>0 DEF Served
  <2>1. CASE open_handles = 0 /\ at'[s] = "claim"
    <3>1. /\ events_running' = TRUE /\ events_thread' \in Threads
          /\ at'[events_thread'] = "loop" /\ open_handles' = 1
      BY <1>1, <2>1, FirstHandle
    <3> QED
      BY <3>1 DEF Served
  <2>2. CASE at'[s] # "claim"
    <3>1. UNCHANGED <<open_handles, events_running, events_thread>> /\ Go(s, "gone")
      <4>1. \A t \in Threads : at' # [at EXCEPT ![s] = "claim", ![t] = "loop"]
        BY <1>0, <2>2 DEF PlaceTypes
      <4>2. ~Go(s, "claim")
        BY <1>0, <2>2 DEF Go, PlaceTypes
      <4>3. (CHOOSE t \in Threads : at[t] = "none" /\ \A u \in 1 .. t - 1 : at[u] # "none") \in Threads
        BY <1>0, <1>1, NewThread DEF OpenHandle
      <4> QED
        BY <1>1, <4>1, <4>2, <4>3 DEF OpenHandle
    <3> QED
      BY <1>0, <3>1 DEF Served, Go, PlaceTypes
  <2>3. CASE open_handles # 0 /\ at'[s] = "claim"
    <3>1. ~Go(s, "gone")
      BY <1>0, <2>3 DEF Go, PlaceTypes
    <3>2. /\ open_handles' = open_handles + 1 /\ Go(s, "claim")
          /\ UNCHANGED <<events_running, events_thread>>
      BY <1>1, <2>3, <3>1 DEF OpenHandle
    <3>3. \A t \in Threads : at'[t] = at[t]
      BY <1>0, <3>2 DEF Go, PlaceTypes
    <3> QED
      BY <1>0, <2>0, <2>3, <3>2, <3>3 DEF Served
  <2> QED
    BY <2>1, <2>2, <2>3
<1>2. ASSUME NEW a \in Actors, CloseHandle(a) PROVE Served'
  BY <1>0, <1>2 DEF CloseHandle, LastHandle, StopEvents, Resume, Go, Served, PlaceTypes
<1>3. ASSUME NEW a \in Actors, Join(a) PROVE Served'
  BY <1>0, <1>3 DEF Join, Go, Served, PlaceTypes
<1>4. ASSUME NEW t \in Threads, Exit(t) PROVE Served'
  BY <1>0, <1>4 DEF Exit, Go, Served, PlaceTypes
<1>5. ASSUME NEW t \in Threads, Callback(t) PROVE Served'
  BY <1>0, <1>5 DEF Callback, Go, Served, PlaceTypes
<1> QED
  BY <1>1, <1>2, <1>3, <1>4, <1>5 DEF Walk

\* The thread that is started with the first handle stays until the last one is closed.
LEMMA ServedStep ==
    ASSUME LibusbInv, [Next]_vars
    PROVE  Served'
<1> USE ActorFacts
<1>0. PlaceTypes /\ Served
  BY DEF LibusbInv
<1>1. CASE TransferStep /\ GateInv' /\ OneTransfer'
  BY <1>0, <1>1 DEF Served, runtimeVars, TransferStep, deviceVars, providerVars, mutexVars
<1>2. CASE WalkStep /\ Walk
  BY <1>2, WalkServed
<1>3. ASSUME NEW s \in Sessions, List(s) PROVE Served'
  BY <1>0, <1>3, ListFacts DEF Served, runtimeVars
<1>4. ASSUME NEW s \in Sessions, Lookup(s) PROVE Served'
  BY <1>0, <1>4, LookupFacts DEF Served, runtimeVars
<1>5. ASSUME NEW s \in Sessions, Claim(s) PROVE Served'
  BY <1>0, <1>5, ClaimFacts DEF Served, runtimeVars
<1>6. ASSUME NEW s \in Sessions, ShareStep(s) PROVE Served'
  BY <1>0, <1>6, ShareFacts DEF Served, runtimeVars
<1>7. ASSUME NEW s \in Sessions, EnterStep(s) PROVE Served'
  BY <1>0, <1>7, EnterFacts DEF Served, runtimeVars
<1>8. ASSUME NEW a \in Actors, EndLease(a) PROVE Served'
  BY <1>0, <1>8, EndLeaseFacts DEF Served, runtimeVars
<1>9. ASSUME NEW a \in Actors, Release(a) PROVE Served'
  BY <1>0, <1>9, ReleaseFacts DEF Served, runtimeVars
<1>10. ASSUME NEW a \in Actors, KeepStep(a) PROVE Served'
  BY <1>0, <1>10, KeepFacts DEF Served, runtimeVars, KeepStep, GivesUp
<1>11. ASSUME NEW a \in Actors, NEW c \in Sessions, DieStep(a, c) PROVE Served'
  BY <1>0, <1>11, DieFacts DEF Served, runtimeVars, DieStep, GivesUp
<1>12. ASSUME NEW t \in Threads, Hotplug(t) PROVE Served'
  BY <1>0, <1>12, HotplugFacts DEF Served, runtimeVars
<1>13. ASSUME NEW t \in Threads, MarkDisconnected(t) PROVE Served'
  BY <1>0, <1>13, MarkFacts DEF Served, runtimeVars
<1>14. CASE PlugStep
  BY <1>0, <1>14 DEF Served, runtimeVars, PlugStep
<1>15. CASE UNCHANGED <<runtimeVars, plugged, hotplug, departed_devices, connections, registered,
                 open_mutex, mutex, at, target, uses, made, connected, lease, claimed,
                 dropping, held, gate, transfer>>
  BY <1>0, <1>15 DEF Served, runtimeVars
<1> QED
  BY <1>1, <1>2, <1>3, <1>4, <1>5, <1>6, <1>7, <1>8, <1>9, <1>10, <1>11, <1>12, <1>13, <1>14,
     <1>15, Steps

\* A session has what its place says it has.
LEMMA PlaceStep ==
    ASSUME LibusbInv, [Next]_vars
    PROVE  PlaceInv'
<1> USE ActorFacts
<1>0. PlaceTypes /\ ConnectionTypes /\ DeviceTypes /\ PlaceInv /\ MutexInv /\ ReferredInv
  BY DEF LibusbInv
<1>1. CASE TransferStep /\ GateInv' /\ OneTransfer'
  BY <1>0, <1>1 DEF PlaceInv, Opening, InMutex, Using, Ending, Serving, TransferStep, deviceVars, providerVars, mutexVars
<1>2. CASE WalkStep /\ Walk
  <2>1. /\ UNCHANGED <<target, uses, made, transfer>>
        /\ \A x \in Sessions : at'[x] \in InMutex => open_mutex' = x
    BY <1>2 DEF WalkStep
  <2>2. ASSUME NEW x \in Sessions, at'[x] # at[x]
        PROVE  /\ at[x] \in {"handle", "close", "join"} /\ at'[x] \in {"claim", "gone", "close", "join", "handle"}
               /\ at'[x] \in {"claim", "handle"} => made[x] = "no"
    BY <1>0, <1>2, <2>2 DEF WalkStep, PlaceInv, MutexInv, Opening, InMutex
  <2> QED
    BY <1>0, <2>1, <2>2 DEF PlaceInv, Opening, InMutex, Using
<1>3. ASSUME NEW s \in Sessions, List(s) PROVE PlaceInv'
  BY <1>0, <1>3, ListFacts DEF PlaceInv, Opening, InMutex, Using, Ending, Serving
<1>4. ASSUME NEW s \in Sessions, Lookup(s) PROVE PlaceInv'
  BY <1>0, <1>4, LookupFacts DEF PlaceInv, Opening, InMutex, Using, Ending, Serving
<1>5. ASSUME NEW s \in Sessions, Claim(s) PROVE PlaceInv'
  BY <1>0, <1>5, ClaimFacts DEF PlaceInv, Opening, InMutex, Using, Ending, Serving
<1>6. ASSUME NEW s \in Sessions, ShareStep(s) PROVE PlaceInv'
  BY <1>0, <1>6, ShareFacts DEF PlaceInv, Opening, InMutex, Using, Ending, Serving
<1>7. ASSUME NEW s \in Sessions, EnterStep(s) PROVE PlaceInv'
  BY <1>0, <1>7, EnterFacts DEF PlaceInv, Opening, InMutex, Using, Ending, Serving
<1>8. ASSUME NEW a \in Actors, EndLease(a) PROVE PlaceInv'
  BY <1>0, <1>8, EndLeaseFacts DEF PlaceInv, Opening, InMutex, Using, Ending, Serving
<1>9. ASSUME NEW a \in Actors, Release(a) PROVE PlaceInv'
  BY <1>0, <1>9, ReleaseFacts DEF PlaceInv, Opening, InMutex, Using, Ending, Serving
<1>10. ASSUME NEW a \in Actors, KeepStep(a) PROVE PlaceInv'
  BY <1>0, <1>10, KeepFacts DEF PlaceInv, Opening, InMutex, Using, Ending, Serving, KeepStep, GivesUp
<1>11. ASSUME NEW a \in Actors, NEW c \in Sessions, DieStep(a, c) PROVE PlaceInv'
  BY <1>0, <1>11, DieFacts DEF PlaceInv, Opening, InMutex, Using, Ending, Serving, DieStep, GivesUp
<1>12. ASSUME NEW t \in Threads, Hotplug(t) PROVE PlaceInv'
  BY <1>0, <1>12, HotplugFacts DEF PlaceInv, Opening, InMutex, Using, Ending, Serving
<1>13. ASSUME NEW t \in Threads, MarkDisconnected(t) PROVE PlaceInv'
  BY <1>0, <1>13, MarkFacts DEF PlaceInv, Opening, InMutex, Using, Ending, Serving
<1>14. CASE PlugStep
  BY <1>0, <1>14 DEF PlaceInv, Opening, InMutex, Using, Ending, Serving, PlugStep
<1>15. CASE UNCHANGED <<runtimeVars, plugged, hotplug, departed_devices, connections, registered,
                 open_mutex, mutex, at, target, uses, made, connected, lease, claimed,
                 dropping, held, gate, transfer>>
  BY <1>0, <1>15 DEF PlaceInv, Opening, InMutex, Using, Ending, Serving
<1> QED
  BY <1>1, <1>2, <1>3, <1>4, <1>5, <1>6, <1>7, <1>8, <1>9, <1>10, <1>11, <1>12, <1>13, <1>14,
     <1>15, Steps

\* Who has mutex_ for several steps has open_mutex_ too.
LEMMA MutexStep ==
    ASSUME LibusbInv, [Next]_vars
    PROVE  MutexInv'
<1> USE ActorFacts
<1>0. PlaceTypes /\ ConnectionTypes /\ DeviceTypes /\ PlaceInv /\ MutexInv
  BY DEF LibusbInv
<1>1. CASE TransferStep /\ GateInv' /\ OneTransfer'
  BY <1>0, <1>1 DEF MutexInv, PlaceInv, InMutex, Using, Peeking, TransferStep, deviceVars, providerVars, mutexVars
<1>2. CASE WalkStep /\ Walk
  <2>1. /\ UNCHANGED <<target, held, connections, made>>
        /\ mutex' \in {mutex, None}
        /\ \A x \in Sessions : mutex' = x =>
              mutex = x /\ open_mutex' = open_mutex /\ at'[x] \in {at[x], "close", "join"}
    BY <1>2 DEF WalkStep
  <2>2. ASSUME NEW x \in Sessions PROVE at'[x] = "peek" <=> at[x] = "peek"
    BY <1>2 DEF WalkStep
  <2>3. ASSUME NEW x \in Sessions, at[x] = "peek" PROVE mutex' = x
    <3>1. mutex = x /\ open_mutex = x /\ at'[x] \in InMutex
      BY <1>0, <2>2, <2>3 DEF MutexInv, PlaceInv, InMutex
    <3> QED
      BY <1>2, <2>2, <2>3, <3>1 DEF WalkStep
  <2> QED
    BY <1>0, <2>1, <2>2, <2>3 DEF MutexInv, Peeking
<1>3. ASSUME NEW s \in Sessions, List(s) PROVE MutexInv'
  BY <1>0, <1>3, ListFacts DEF MutexInv, PlaceInv, InMutex, Using, Peeking
<1>4. ASSUME NEW s \in Sessions, Lookup(s) PROVE MutexInv'
  BY <1>0, <1>4, LookupFacts DEF MutexInv, PlaceInv, InMutex, Using, Peeking
<1>5. ASSUME NEW s \in Sessions, Claim(s) PROVE MutexInv'
  BY <1>0, <1>5, ClaimFacts DEF MutexInv, PlaceInv, InMutex, Using, Peeking
<1>6. ASSUME NEW s \in Sessions, ShareStep(s) PROVE MutexInv'
  BY <1>0, <1>6, ShareFacts DEF MutexInv, PlaceInv, InMutex, Using, Peeking
<1>7. ASSUME NEW s \in Sessions, EnterStep(s) PROVE MutexInv'
  BY <1>0, <1>7, EnterFacts DEF MutexInv, PlaceInv, InMutex, Using, Peeking
<1>8. ASSUME NEW a \in Actors, EndLease(a) PROVE MutexInv'
  BY <1>0, <1>8, EndLeaseFacts DEF MutexInv, PlaceInv, InMutex, Using, Peeking
<1>9. ASSUME NEW a \in Actors, Release(a) PROVE MutexInv'
  BY <1>0, <1>9, ReleaseFacts DEF MutexInv, PlaceInv, InMutex, Using, Peeking
<1>10. ASSUME NEW a \in Actors, KeepStep(a) PROVE MutexInv'
  BY <1>0, <1>10, KeepFacts DEF MutexInv, PlaceInv, InMutex, Using, Peeking, KeepStep, GivesUp
<1>11. ASSUME NEW a \in Actors, NEW c \in Sessions, DieStep(a, c) PROVE MutexInv'
  BY <1>0, <1>11, DieFacts DEF MutexInv, PlaceInv, InMutex, Using, Peeking, DieStep, GivesUp
<1>12. ASSUME NEW t \in Threads, Hotplug(t) PROVE MutexInv'
  BY <1>0, <1>12, HotplugFacts DEF MutexInv, PlaceInv, InMutex, Using, Peeking
<1>13. ASSUME NEW t \in Threads, MarkDisconnected(t) PROVE MutexInv'
  BY <1>0, <1>13, MarkFacts DEF MutexInv, PlaceInv, InMutex, Using, Peeking
<1>14. CASE PlugStep
  BY <1>0, <1>14 DEF MutexInv, PlaceInv, InMutex, Using, Peeking, PlugStep
<1>15. CASE UNCHANGED <<runtimeVars, plugged, hotplug, departed_devices, connections, registered,
                 open_mutex, mutex, at, target, uses, made, connected, lease, claimed,
                 dropping, held, gate, transfer>>
  BY <1>0, <1>15 DEF MutexInv, PlaceInv, InMutex, Using, Peeking
<1> QED
  BY <1>1, <1>2, <1>3, <1>4, <1>5, <1>6, <1>7, <1>8, <1>9, <1>10, <1>11, <1>12, <1>13, <1>14,
     <1>15, Steps

\* What is referred to is alive.
LEMMA ReferredStep ==
    ASSUME LibusbInv, [Next]_vars
    PROVE  ReferredInv'
<1> USE ActorFacts
<1>0. PlaceTypes /\ ConnectionTypes /\ PlaceInv /\ ReferredInv
  BY DEF LibusbInv
<1>1. CASE TransferStep /\ GateInv' /\ OneTransfer'
  BY <1>0, <1>1 DEF ReferredInv, PlaceInv, Opening, InMutex, TransferStep, deviceVars, providerVars, mutexVars, Using
<1>2. CASE WalkStep /\ Walk
  BY <1>0, <1>2 DEF ReferredInv, PlaceInv, Opening, InMutex, WalkStep
<1>3. ASSUME NEW s \in Sessions, List(s) PROVE ReferredInv'
  BY <1>0, <1>3, ListFacts DEF ReferredInv, PlaceInv, Opening, InMutex
<1>4. ASSUME NEW s \in Sessions, Lookup(s) PROVE ReferredInv'
  <2> DEFINE k == connections[target[s]]
  <2>1. k \in Sessions => made[k] # "no" /\ at[k] # "register"
    BY <1>0, <1>4, LookupFacts DEF ReferredInv
  <2>2. \A x \in Sessions : \A b \in Actors : x \in held'[b] => made[x] = "live" /\ at[x] # "register"
    BY <1>0, <1>4, <2>1, LookupFacts DEF ReferredInv
  <2>3. \A d \in Devices : connections'[d] \in {connections[d], None}
    BY <1>0, <1>4, LookupFacts DEF ConnectionTypes
  <2>4. \A x \in Sessions : at'[x] = "register" <=> at[x] = "register"
    BY <1>4, LookupFacts
  <2>5. UNCHANGED <<made, target, connected, uses, registered>>
    BY <1>4, LookupFacts
  <2> QED
    BY <1>0, <2>2, <2>3, <2>4, <2>5 DEF ReferredInv
<1>5. ASSUME NEW s \in Sessions, Claim(s) PROVE ReferredInv'
  BY <1>0, <1>5, ClaimFacts DEF ReferredInv, PlaceInv, Opening, InMutex
<1>6. ASSUME NEW s \in Sessions, ShareStep(s) PROVE ReferredInv'
  BY <1>0, <1>6, ShareFacts DEF ReferredInv, PlaceInv, Opening, InMutex
<1>7. ASSUME NEW s \in Sessions, EnterStep(s) PROVE ReferredInv'
  BY <1>0, <1>7, EnterFacts DEF ReferredInv, PlaceInv, Opening, InMutex
<1>8. ASSUME NEW a \in Actors, EndLease(a) PROVE ReferredInv'
  BY <1>0, <1>8, EndLeaseFacts DEF ReferredInv, PlaceInv, Opening, InMutex
<1>9. ASSUME NEW a \in Actors, Release(a) PROVE ReferredInv'
  BY <1>0, <1>9, ReleaseFacts DEF ReferredInv, PlaceInv, Opening, InMutex
<1>10. ASSUME NEW a \in Actors, KeepStep(a) PROVE ReferredInv'
  BY <1>0, <1>10, KeepFacts DEF ReferredInv, PlaceInv, Opening, InMutex, KeepStep, GivesUp
<1>11. ASSUME NEW a \in Actors, NEW c \in Sessions, DieStep(a, c) PROVE ReferredInv'
  BY <1>0, <1>11, DieFacts DEF ReferredInv, PlaceInv, Opening, InMutex, DieStep, GivesUp
<1>12. ASSUME NEW t \in Threads, Hotplug(t) PROVE ReferredInv'
  BY <1>0, <1>12, HotplugFacts DEF ReferredInv, PlaceInv, Opening, InMutex
<1>13. ASSUME NEW t \in Threads, MarkDisconnected(t) PROVE ReferredInv'
  BY <1>0, <1>13, MarkFacts DEF ReferredInv, PlaceInv, Opening, InMutex
<1>14. CASE PlugStep
  BY <1>0, <1>14 DEF ReferredInv, PlaceInv, Opening, InMutex, PlugStep
<1>15. CASE UNCHANGED <<runtimeVars, plugged, hotplug, departed_devices, connections, registered,
                 open_mutex, mutex, at, target, uses, made, connected, lease, claimed,
                 dropping, held, gate, transfer>>
  BY <1>0, <1>15 DEF ReferredInv, PlaceInv, Opening, InMutex
<1> QED
  BY <1>1, <1>2, <1>3, <1>4, <1>5, <1>6, <1>7, <1>8, <1>9, <1>10, <1>11, <1>12, <1>13, <1>14,
     <1>15, Steps

\* A connection is destroyed once.
LEMMA DyingStep ==
    ASSUME LibusbInv, [Next]_vars
    PROVE  DyingInv'
<1> USE ActorFacts
<1>0. PlaceTypes /\ ConnectionTypes /\ DyingInv
  BY DEF LibusbInv
<1>1. CASE TransferStep /\ GateInv' /\ OneTransfer'
  BY <1>0, <1>1 DEF DyingInv, Using, TransferStep, deviceVars, providerVars, mutexVars
<1>2. CASE WalkStep /\ Walk
  BY <1>0, <1>2 DEF DyingInv, Using, WalkStep
<1>3. ASSUME NEW s \in Sessions, List(s) PROVE DyingInv'
  BY <1>0, <1>3, ListFacts DEF DyingInv, Using
<1>4. ASSUME NEW s \in Sessions, Lookup(s) PROVE DyingInv'
  BY <1>0, <1>4, LookupFacts DEF DyingInv, Using
<1>5. ASSUME NEW s \in Sessions, Claim(s) PROVE DyingInv'
  <2>1. \A b \in Actors : at'[b] \in {"expired", "release"} <=> at[b] \in {"expired", "release"}
    BY <1>5, ClaimFacts
  <2>2. \A b \in Actors : at[b] \in {"expired", "release"} => at'[b] = at[b] /\ dropping[b] \in Sessions /\ dropping[b] # s
    BY <1>0, <1>5, ClaimFacts DEF DyingInv, ConnectionTypes
  <2>3. \A x \in Sessions : x # s => made'[x] = made[x]
    BY <1>5, ClaimFacts
  <2>4. dropping' = dropping
    BY <1>5, ClaimFacts
  <2>5. \A b \in Actors : at'[b] \in {"expired", "release"} => at'[b] = at[b] /\ made'[dropping[b]] = made[dropping[b]]
    BY <2>1, <2>2, <2>3
  <2> QED
    BY <1>0, <2>1, <2>4, <2>5 DEF DyingInv
<1>6. ASSUME NEW s \in Sessions, ShareStep(s) PROVE DyingInv'
  BY <1>0, <1>6, ShareFacts DEF DyingInv, Using
<1>7. ASSUME NEW s \in Sessions, EnterStep(s) PROVE DyingInv'
  BY <1>0, <1>7, EnterFacts DEF DyingInv, Using
<1>8. ASSUME NEW a \in Actors, EndLease(a) PROVE DyingInv'
  <2>1. PICK k \in Sessions :
           /\ k = dropping[a] /\ at[a] = "expired" /\ at'[a] = "release"
           /\ \A x \in Actors : x # a => at'[x] = at[x]
           /\ made'[k] = "ending" /\ \A x \in Sessions : x # k => made'[x] = made[x]
           /\ dropping' = dropping
    BY <1>8, EndLeaseFacts
  <2>2. \A b \in Actors : b # a /\ dropping[b] # None => dropping[b] \in Sessions /\ dropping[b] # k
    BY <1>0, <2>1 DEF DyingInv, ConnectionTypes
  <2>3. \A b \in Actors : b # a /\ dropping[b] # None => made'[dropping[b]] = made[dropping[b]]
    BY <2>1, <2>2
  <2> QED
    BY <1>0, <2>1, <2>3 DEF DyingInv
<1>9. ASSUME NEW a \in Actors, Release(a) PROVE DyingInv'
  BY <1>0, <1>9, ReleaseFacts DEF DyingInv, Using
<1>10. ASSUME NEW a \in Actors, KeepStep(a) PROVE DyingInv'
  BY <1>0, <1>10, KeepFacts DEF DyingInv, Using, KeepStep, GivesUp
<1>11. ASSUME NEW a \in Actors, NEW c \in Sessions, DieStep(a, c) PROVE DyingInv'
  <2>1. \A b \in Actors : dropping[b] # None => dropping[b] \in Sessions /\ dropping[b] # c
    BY <1>0, <1>11, DieFacts DEF DyingInv, ConnectionTypes
  <2>2. \A b \in Actors : dropping[b] # None => made'[dropping[b]] = made[dropping[b]]
    BY <1>11, <2>1, DieFacts
  <2>3. /\ dropping[a] = None /\ dropping'[a] = c /\ made'[c] = "expired" /\ at'[a] = "expired"
        /\ \A x \in Actors : x # a => dropping'[x] = dropping[x] /\ at'[x] = at[x]
    BY <1>11, DieFacts
  <2>4. \A b \in Actors : at'[b] \in {"expired", "release"} <=> dropping'[b] # None
    BY <1>0, <2>3 DEF DyingInv
  <2>5. \A b \in Actors : /\ at'[b] = "expired" => made'[dropping'[b]] = "expired"
                          /\ at'[b] = "release" => made'[dropping'[b]] = "ending"
    BY <1>0, <2>2, <2>3 DEF DyingInv
  <2>6. \A x, y \in Actors : dropping'[x] # None /\ dropping'[x] = dropping'[y] => x = y
    BY <1>0, <2>1, <2>3 DEF DyingInv
  <2> QED
    BY <2>4, <2>5, <2>6 DEF DyingInv
<1>12. ASSUME NEW t \in Threads, Hotplug(t) PROVE DyingInv'
  <2>1. \A b \in Actors : at'[b] # at[b] => at'[b] \in {"mark", "loop"} /\ at[b] = "callback"
    BY <1>12, HotplugFacts
  <2>2. UNCHANGED <<made, dropping>>
    BY <1>12, HotplugFacts
  <2> QED
    BY <1>0, <2>1, <2>2 DEF DyingInv
<1>13. ASSUME NEW t \in Threads, MarkDisconnected(t) PROVE DyingInv'
  BY <1>0, <1>13, MarkFacts DEF DyingInv, Using
<1>14. CASE PlugStep
  BY <1>0, <1>14 DEF DyingInv, Using, PlugStep
<1>15. CASE UNCHANGED <<runtimeVars, plugged, hotplug, departed_devices, connections, registered,
                 open_mutex, mutex, at, target, uses, made, connected, lease, claimed,
                 dropping, held, gate, transfer>>
  BY <1>0, <1>15 DEF DyingInv, Using
<1> QED
  BY <1>1, <1>2, <1>3, <1>4, <1>5, <1>6, <1>7, <1>8, <1>9, <1>10, <1>11, <1>12, <1>13, <1>14,
     <1>15, Steps

\* device_left does not miss a connected connection.
LEMMA LeftStep ==
    ASSUME LibusbInv, [Next]_vars
    PROVE  LeftInv'
<1> USE ActorFacts
<1>0. PlaceTypes /\ ConnectionTypes /\ ReferredInv /\ LeftInv
  BY DEF LibusbInv
<1>1. CASE TransferStep /\ GateInv' /\ OneTransfer'
  BY <1>0, <1>1 DEF LeftInv, ToBeMarked, TransferStep, deviceVars, providerVars, mutexVars, Using
<1>2. CASE WalkStep /\ Walk
  BY <1>0, <1>2 DEF LeftInv, ToBeMarked, WalkStep
<1>3. ASSUME NEW s \in Sessions, List(s) PROVE LeftInv'
  <2>1. ~connected[s]
    BY <1>0, <1>3, ListFacts DEF ReferredInv
  <2> QED
    BY <1>0, <1>3, <2>1, ListFacts DEF LeftInv, ToBeMarked
<1>4. ASSUME NEW s \in Sessions, Lookup(s) PROVE LeftInv'
  BY <1>0, <1>4, LookupFacts DEF LeftInv, ToBeMarked
<1>5. ASSUME NEW s \in Sessions, Claim(s) PROVE LeftInv'
  BY <1>0, <1>5, ClaimFacts DEF LeftInv, ToBeMarked
<1>6. ASSUME NEW s \in Sessions, ShareStep(s) PROVE LeftInv'
  BY <1>0, <1>6, ShareFacts DEF LeftInv, ToBeMarked
<1>7. ASSUME NEW s \in Sessions, EnterStep(s) PROVE LeftInv'
  BY <1>0, <1>7, EnterFacts DEF LeftInv, ToBeMarked
<1>8. ASSUME NEW a \in Actors, EndLease(a) PROVE LeftInv'
  BY <1>0, <1>8, EndLeaseFacts DEF LeftInv, ToBeMarked
<1>9. ASSUME NEW a \in Actors, Release(a) PROVE LeftInv'
  BY <1>0, <1>9, ReleaseFacts DEF LeftInv, ToBeMarked
<1>10. ASSUME NEW a \in Actors, KeepStep(a) PROVE LeftInv'
  BY <1>0, <1>10, KeepFacts DEF LeftInv, ToBeMarked, KeepStep, GivesUp
<1>11. ASSUME NEW a \in Actors, NEW c \in Sessions, DieStep(a, c) PROVE LeftInv'
  BY <1>0, <1>11, DieFacts, SMTT(60) DEF LeftInv, ToBeMarked, DieStep, GivesUp
<1>12. ASSUME NEW t \in Threads, Hotplug(t) PROVE LeftInv'
  <2>1. PICK d \in Devices :
           /\ at[t] = "callback" /\ \A x \in Actors : x # t => at'[x] = at[x] /\ held'[x] = held[x]
           /\ \/ /\ at'[t] = "mark" /\ departed_devices' = departed_devices \cup {d}
                 /\ held'[t] = {c \in registered : target[c] = d /\ made[c] = "live"}
                 /\ registered' = {c \in registered : target[c] # d}
              \/ /\ at'[t] = "loop" /\ departed_devices' = departed_devices \ {d}
                 /\ held' = held /\ registered' = registered
           /\ UNCHANGED <<connected, target>>
    BY <1>12, HotplugFacts
  <2>2. ASSUME NEW c \in Sessions, ToBeMarked(c) PROVE ToBeMarked(c)'
    <3>1. PICK u \in Threads : c \in held[u] /\ at[u] = "mark"
      BY <2>2 DEF ToBeMarked
    <3>2. c \in held'[u] /\ at'[u] = "mark"
      BY <2>1, <3>1
    <3> QED
      BY <3>2 DEF ToBeMarked
  <2>3. ASSUME NEW c \in Sessions, connected[c], at[c] # "register", ~ToBeMarked(c)
        PROVE  (c \in registered' /\ target[c] \notin departed_devices') \/ ToBeMarked(c)'
    <3>1. c \in registered /\ target[c] \notin departed_devices /\ made[c] = "live"
      BY <1>0, <2>3 DEF LeftInv, ReferredInv
    <3>2. CASE at'[t] = "mark" /\ target[c] = d
      BY <2>1, <3>1, <3>2 DEF ToBeMarked
    <3>3. CASE ~(at'[t] = "mark" /\ target[c] = d)
      BY <2>1, <3>1, <3>3
    <3> QED
      BY <3>2, <3>3
  <2>4. \A c \in Sessions : at'[c] = at[c]
    BY <2>1
  <2> QED
    BY <2>1, <2>2, <2>3, <2>4 DEF LeftInv
<1>13. ASSUME NEW t \in Threads, MarkDisconnected(t) PROVE LeftInv'
  BY <1>0, <1>13, MarkFacts DEF LeftInv, ToBeMarked
<1>14. CASE PlugStep
  BY <1>0, <1>14 DEF LeftInv, ToBeMarked, PlugStep
<1>15. CASE UNCHANGED <<runtimeVars, plugged, hotplug, departed_devices, connections, registered,
                 open_mutex, mutex, at, target, uses, made, connected, lease, claimed,
                 dropping, held, gate, transfer>>
  BY <1>0, <1>15 DEF LeftInv, ToBeMarked
<1> QED
  BY <1>1, <1>2, <1>3, <1>4, <1>5, <1>6, <1>7, <1>8, <1>9, <1>10, <1>11, <1>12, <1>13, <1>14,
     <1>15, Steps

\* The departure of a device is told while the device is away.
LEMMA ToldStep ==
    ASSUME LibusbInv, [Next]_vars
    PROVE  ToldInv'
<1> USE ActorFacts
<1>0. DeviceTypes /\ ToldInv
  BY DEF LibusbInv
<1>1. CASE TransferStep /\ GateInv' /\ OneTransfer'
  BY <1>0, <1>1 DEF ToldInv, TransferStep, deviceVars, providerVars, mutexVars
<1>2. CASE WalkStep /\ Walk
  BY <1>0, <1>2 DEF ToldInv, WalkStep
<1>3. ASSUME NEW s \in Sessions, List(s) PROVE ToldInv'
  BY <1>0, <1>3, ListFacts DEF ToldInv
<1>4. ASSUME NEW s \in Sessions, Lookup(s) PROVE ToldInv'
  BY <1>0, <1>4, LookupFacts DEF ToldInv
<1>5. ASSUME NEW s \in Sessions, Claim(s) PROVE ToldInv'
  BY <1>0, <1>5, ClaimFacts DEF ToldInv
<1>6. ASSUME NEW s \in Sessions, ShareStep(s) PROVE ToldInv'
  BY <1>0, <1>6, ShareFacts DEF ToldInv
<1>7. ASSUME NEW s \in Sessions, EnterStep(s) PROVE ToldInv'
  BY <1>0, <1>7, EnterFacts DEF ToldInv
<1>8. ASSUME NEW a \in Actors, EndLease(a) PROVE ToldInv'
  BY <1>0, <1>8, EndLeaseFacts DEF ToldInv
<1>9. ASSUME NEW a \in Actors, Release(a) PROVE ToldInv'
  BY <1>0, <1>9, ReleaseFacts DEF ToldInv
<1>10. ASSUME NEW a \in Actors, KeepStep(a) PROVE ToldInv'
  BY <1>0, <1>10, KeepFacts DEF ToldInv, KeepStep, GivesUp
<1>11. ASSUME NEW a \in Actors, NEW c \in Sessions, DieStep(a, c) PROVE ToldInv'
  BY <1>0, <1>11, DieFacts DEF ToldInv, DieStep, GivesUp
<1>12. ASSUME NEW t \in Threads, Hotplug(t) PROVE ToldInv'
  <2>1. hotplug # <<>> /\ hotplug' = Tail(hotplug) /\ plugged' = plugged
    BY <1>12, HotplugFacts
  <2> QED
    BY <1>0, <2>1 DEF ToldInv, DeviceTypes
<1>13. ASSUME NEW t \in Threads, MarkDisconnected(t) PROVE ToldInv'
  BY <1>0, <1>13, MarkFacts DEF ToldInv
<1>14. CASE PlugStep
  <2>1. CASE plugged' = None
    <3>1. hotplug' \in Seq({"left", "arrived"} \X Devices)
      BY <1>0, <1>14, PlugEvents
    <3>2. \A i \in DOMAIN hotplug' : hotplug'[i][2] \in Devices
      BY <3>1
    <3> QED
      BY <2>1, <3>2 DEF ToldInv
  <2>2. CASE plugged' # None
    BY <1>0, <1>14, <2>2 DEF ToldInv, DeviceTypes, PlugStep
  <2> QED
    BY <2>1, <2>2
<1>15. CASE UNCHANGED <<runtimeVars, plugged, hotplug, departed_devices, connections, registered,
                 open_mutex, mutex, at, target, uses, made, connected, lease, claimed,
                 dropping, held, gate, transfer>>
  BY <1>0, <1>15 DEF ToldInv
<1> QED
  BY <1>1, <1>2, <1>3, <1>4, <1>5, <1>6, <1>7, <1>8, <1>9, <1>10, <1>11, <1>12, <1>13, <1>14,
     <1>15, Steps

\* A device comes back only when nobody refers to it.
LEMMA GoneStep ==
    ASSUME LibusbInv, [Next]_vars
    PROVE  GoneInv'
<1> USE ActorFacts
<1>0. PlaceTypes /\ ConnectionTypes /\ DeviceTypes /\ PlaceInv /\ ReferredInv /\ ToldInv /\ GoneInv
  BY DEF LibusbInv
<1>1. CASE TransferStep /\ GateInv' /\ OneTransfer'
  BY <1>0, <1>1 DEF GoneInv, PlaceInv, ReferredInv, Using, TransferStep, deviceVars, providerVars, mutexVars
<1>2. CASE WalkStep /\ Walk
  BY <1>0, <1>2 DEF GoneInv, PlaceInv, ReferredInv, Using, WalkStep
<1>3. ASSUME NEW s \in Sessions, List(s) PROVE GoneInv'
  <2>1. \A x \in Sessions : uses[x] # s
    BY <1>0, <1>3, ListFacts DEF ReferredInv
  <2>2. \A x \in Actors : s \notin held[x]
    BY <1>0, <1>3, ListFacts DEF ReferredInv
  <2>3. \A x \in Sessions : transfer[x] = "lost" => uses[x] \in Sessions
    BY <1>0 DEF PlaceInv, ConnectionTypes, Using
  <2> QED
    BY <1>0, <1>3, <2>1, <2>2, <2>3, ListFacts DEF GoneInv
<1>4. ASSUME NEW s \in Sessions, Lookup(s) PROVE GoneInv'
  BY <1>0, <1>4, LookupFacts DEF GoneInv, PlaceInv, ReferredInv, Using
<1>5. ASSUME NEW s \in Sessions, Claim(s) PROVE GoneInv'
  BY <1>0, <1>5, ClaimFacts DEF GoneInv, PlaceInv, ReferredInv, Using
<1>6. ASSUME NEW s \in Sessions, ShareStep(s) PROVE GoneInv'
  BY <1>0, <1>6, ShareFacts DEF GoneInv, PlaceInv, ReferredInv, Using
<1>7. ASSUME NEW s \in Sessions, EnterStep(s) PROVE GoneInv'
  BY <1>0, <1>7, EnterFacts DEF GoneInv, PlaceInv, ReferredInv, Using
<1>8. ASSUME NEW a \in Actors, EndLease(a) PROVE GoneInv'
  BY <1>0, <1>8, EndLeaseFacts DEF GoneInv, PlaceInv, ReferredInv, Using
<1>9. ASSUME NEW a \in Actors, Release(a) PROVE GoneInv'
  BY <1>0, <1>9, ReleaseFacts DEF GoneInv, PlaceInv, ReferredInv, Using
<1>10. ASSUME NEW a \in Actors, KeepStep(a) PROVE GoneInv'
  BY <1>0, <1>10, KeepFacts DEF GoneInv, PlaceInv, ReferredInv, Using, KeepStep, GivesUp
<1>11. ASSUME NEW a \in Actors, NEW c \in Sessions, DieStep(a, c) PROVE GoneInv'
  <2>1. /\ UNCHANGED <<plugged, target, transfer>> /\ at[a] \in {"peek", "open", "drop", "register"}
        /\ \A x \in Sessions : x # a => uses'[x] = uses[x]
        /\ \A x \in Actors : held'[x] \subseteq held[x]
    BY <1>11 DEF DieStep, GivesUp
  <2>2. \A x \in Sessions : transfer[x] = "lost" => x # a
    BY <1>0, <2>1 DEF PlaceInv
  <2>3. \A x \in Sessions : made'[x] = "live" => made[x] = "live" /\ connected'[x] = connected[x]
    BY <1>11, DieFacts
  <2>4. \A x \in Actors : at'[x] = "mark" => at[x] = "mark"
    BY <1>11, DieFacts
  <2> QED
    BY <1>0, <2>1, <2>2, <2>3, <2>4 DEF GoneInv
<1>12. ASSUME NEW t \in Threads, Hotplug(t) PROVE GoneInv'
  <2>1. PICK d \in Devices :
           /\ at[t] = "callback" /\ \A x \in Actors : x # t => at'[x] = at[x] /\ held'[x] = held[x]
           /\ at'[t] = "mark" => /\ hotplug # <<>> /\ hotplug[1][1] = "left" /\ d = hotplug[1][2]
                                 /\ held'[t] = {c \in registered : target[c] = d /\ made[c] = "live"}
           /\ UNCHANGED <<plugged, target, made, connected, transfer, uses>>
    BY <1>12, HotplugFacts
  <2>2. at'[t] = "mark" => plugged # d
    BY <1>0, <2>1 DEF ToldInv, DeviceTypes
  <2> QED
    BY <1>0, <2>1, <2>2 DEF GoneInv
<1>13. ASSUME NEW t \in Threads, MarkDisconnected(t) PROVE GoneInv'
  BY <1>0, <1>13, MarkFacts DEF GoneInv, PlaceInv, ReferredInv, Using
<1>14. CASE PlugStep
  <2>0. UNCHANGED <<made, connected, held, target, at, transfer, uses>>
    BY <1>14 DEF PlugStep
  <2>1. \A x \in Sessions : made[x] = "live" => plugged' # target[x]
    BY <1>0, <1>14 DEF PlugStep, ReferredInv
  <2>2. \A x \in Sessions : \A b \in Actors : x \in held[b] => made[x] = "live"
    BY <1>0 DEF ReferredInv
  <2>3. \A x \in Sessions : transfer[x] = "lost" => uses[x] \in Sessions /\ made[uses[x]] = "live"
    BY <1>0 DEF PlaceInv, ReferredInv, ConnectionTypes, Using
  <2> QED
    BY <2>0, <2>1, <2>2, <2>3 DEF GoneInv
<1>15. CASE UNCHANGED <<runtimeVars, plugged, hotplug, departed_devices, connections, registered,
                 open_mutex, mutex, at, target, uses, made, connected, lease, claimed,
                 dropping, held, gate, transfer>>
  BY <1>0, <1>15 DEF GoneInv, PlaceInv, ReferredInv, Using
<1> QED
  BY <1>1, <1>2, <1>3, <1>4, <1>5, <1>6, <1>7, <1>8, <1>9, <1>10, <1>11, <1>12, <1>13, <1>14,
     <1>15, Steps

\* Two connections of a device are not connected at a time.
LEMMA SharedStep ==
    ASSUME LibusbInv, [Next]_vars
    PROVE  SharedInv'
<1> USE ActorFacts
<1>0. PlaceTypes /\ ConnectionTypes /\ DeviceTypes /\ PlaceInv /\ MutexInv /\ ReferredInv /\ SharedInv
  BY DEF LibusbInv
<1>1. CASE TransferStep /\ GateInv' /\ OneTransfer'
  BY <1>0, <1>1 DEF SharedInv, PlaceInv, ReferredInv, InMutex, TransferStep, deviceVars, providerVars, mutexVars, Using
<1>2. CASE WalkStep /\ Walk
  BY <1>0, <1>2 DEF SharedInv, PlaceInv, ReferredInv, InMutex, WalkStep
<1>3. ASSUME NEW s \in Sessions, List(s) PROVE SharedInv'
  BY <1>0, <1>3, ListFacts DEF SharedInv, PlaceInv, ReferredInv, InMutex
<1>4. ASSUME NEW s \in Sessions, Lookup(s) PROVE SharedInv'
  <2> DEFINE k == connections[target[s]]
  <2>1. \A x \in Sessions : at[x] # "register" /\ at'[x] # "register"
    BY <1>0, <1>4, LookupFacts DEF PlaceInv, InMutex
  <2>2. ASSUME NEW x \in Sessions, connected[x], at'[s] = "handle" PROVE target[x] # target[s]
    <3>1. connections[target[x]] = x /\ made[x] = "live"
      BY <1>0, <2>1, <2>2 DEF SharedInv, ReferredInv
    <3> QED
      BY <1>4, <2>2, <3>1, LookupFacts
  <2>3. ASSUME NEW x \in Sessions, connected[x] PROVE connections'[target[x]] = x
    <3>1. connections[target[x]] = x /\ target[x] \in Devices
      BY <1>0, <2>1, <2>3 DEF SharedInv, ReferredInv, ConnectionTypes
    <3> QED
      BY <1>0, <1>4, <2>2, <2>3, <3>1, LookupFacts DEF ConnectionTypes
  <2>4. \A x \in Sessions : x # s => at'[x] \notin InMutex
    BY <1>0, <1>4, LookupFacts DEF PlaceInv
  <2>5. UNCHANGED <<connected, target>> /\ at'[s] \in {"peek", "handle"}
    BY <1>4, LookupFacts
  <2> QED
    BY <2>2, <2>3, <2>4, <2>5 DEF SharedInv
<1>5. ASSUME NEW s \in Sessions, Claim(s) PROVE SharedInv'
  BY <1>0, <1>5, ClaimFacts DEF SharedInv, PlaceInv, ReferredInv, InMutex
<1>6. ASSUME NEW s \in Sessions, ShareStep(s) PROVE SharedInv'
  BY <1>0, <1>6, ShareFacts DEF SharedInv, PlaceInv, ReferredInv, InMutex
<1>7. ASSUME NEW s \in Sessions, EnterStep(s) PROVE SharedInv'
  <2>1. \A x \in Sessions : x # s => at[x] \notin InMutex
    BY <1>0, <1>7, EnterFacts DEF PlaceInv
  <2>2. \A x \in Sessions : connected[x] /\ x # s => target[x] # target[s] /\ target[x] \in Devices
    BY <1>0, <1>7, EnterFacts DEF SharedInv, ReferredInv, ConnectionTypes, InMutex
  <2>3. \A x \in Sessions : at'[x] \notin InMutex
    BY <1>7, <2>1, EnterFacts DEF InMutex
  <2>4. UNCHANGED <<connected, target>>
    BY <1>7, EnterFacts
  <2>5. ASSUME NEW x \in Sessions, connected[x] PROVE connections'[target[x]] = x
    BY <1>0, <1>7, <2>1, <2>2, <2>5, EnterFacts DEF SharedInv, InMutex
  <2> QED
    BY <2>3, <2>4, <2>5 DEF SharedInv
<1>8. ASSUME NEW a \in Actors, EndLease(a) PROVE SharedInv'
  BY <1>0, <1>8, EndLeaseFacts DEF SharedInv, PlaceInv, ReferredInv, InMutex
<1>9. ASSUME NEW a \in Actors, Release(a) PROVE SharedInv'
  BY <1>0, <1>9, ReleaseFacts DEF SharedInv, PlaceInv, ReferredInv, InMutex
<1>10. ASSUME NEW a \in Actors, KeepStep(a) PROVE SharedInv'
  <2>1. UNCHANGED <<connected, target>>
    BY <1>10 DEF KeepStep
  <2>2. ASSUME NEW x \in Sessions, connected[x], at'[x] # "register"
        PROVE  at[x] # "register" /\ connections[target[x]] = x /\ target[x] \in Devices
    <3>1. at[x] # "register"
      BY <1>10, <2>2, KeepFacts
    <3> QED
      BY <1>0, <2>2, <3>1 DEF SharedInv, ReferredInv, ConnectionTypes
  <2>3. ASSUME NEW x \in Sessions, connected[x], at'[x] # "register" PROVE connections'[target[x]] = x
    BY <1>10, <2>2, <2>3, KeepFacts
  <2>4. ASSUME NEW y \in Sessions, NEW x \in Sessions, at'[y] \in InMutex \ {"peek"}, x # y, connected[x]
        PROVE  target[x] # target[y]
    <3>1. CASE at'[y] = at[y]
      BY <1>0, <2>4, <3>1 DEF SharedInv
    <3>2. CASE at'[y] # at[y]
      <4>1. y = a /\ at[a] = "peek" /\ open_mutex = a /\ ~connected[connections[target[a]]]
        BY <1>10, <2>4, <3>2, KeepFacts DEF InMutex
      <4>2. at[x] # "register"
        BY <1>0, <2>4, <4>1 DEF PlaceInv, InMutex
      <4> QED
        BY <1>0, <2>4, <4>1, <4>2 DEF SharedInv
    <3> QED
      BY <3>1, <3>2
  <2> QED
    BY <2>1, <2>3, <2>4 DEF SharedInv
<1>11. ASSUME NEW a \in Actors, NEW c \in Sessions, DieStep(a, c) PROVE SharedInv'
  <2>1. target' = target /\ (at[c] = "register" => a = c)
    BY <1>11 DEF DieStep
  <2>2. \A x \in Sessions : connected'[x] => connected[x] /\ x # c
    BY <1>11, DieFacts
  <2>3. \A x \in Sessions : at'[x] = at[x] \/ at'[x] = "expired"
    BY <1>11, DieFacts
  <2>4. ASSUME NEW x \in Sessions, connected'[x], at'[x] # "register" PROVE connections'[target[x]] = x
    <3>1. connected[x] /\ x # c /\ target[x] \in Devices
      BY <1>0, <2>2, <2>4 DEF ReferredInv, ConnectionTypes
    <3>2. at[x] # "register"
      BY <1>11, <2>4, <3>1, DieFacts DEF DieStep
    <3>3. connections[target[x]] = x
      BY <1>0, <3>1, <3>2 DEF SharedInv
    <3> QED
      BY <1>11, <3>1, <3>3, DieFacts
  <2> QED
    BY <1>0, <2>1, <2>2, <2>3, <2>4 DEF SharedInv, InMutex
<1>12. ASSUME NEW t \in Threads, Hotplug(t) PROVE SharedInv'
  BY <1>0, <1>12, HotplugFacts DEF SharedInv, PlaceInv, ReferredInv, InMutex
<1>13. ASSUME NEW t \in Threads, MarkDisconnected(t) PROVE SharedInv'
  BY <1>0, <1>13, MarkFacts DEF SharedInv, PlaceInv, ReferredInv, InMutex
<1>14. CASE PlugStep
  BY <1>0, <1>14 DEF SharedInv, PlaceInv, ReferredInv, InMutex, PlugStep
<1>15. CASE UNCHANGED <<runtimeVars, plugged, hotplug, departed_devices, connections, registered,
                 open_mutex, mutex, at, target, uses, made, connected, lease, claimed,
                 dropping, held, gate, transfer>>
  BY <1>0, <1>15 DEF SharedInv, PlaceInv, ReferredInv, InMutex
<1> QED
  BY <1>1, <1>2, <1>3, <1>4, <1>5, <1>6, <1>7, <1>8, <1>9, <1>10, <1>11, <1>12, <1>13, <1>14,
     <1>15, Steps

\* Every connection that is not at its end has a lease.
LEMMA LeaseStep ==
    ASSUME LibusbInv, [Next]_vars
    PROVE  LeaseInv'
<1> USE ActorFacts
<1>0. ConnectionTypes /\ PlaceInv /\ LeaseInv
  BY DEF LibusbInv
<1>1. CASE TransferStep /\ GateInv' /\ OneTransfer'
  BY <1>0, <1>1 DEF LeaseInv, Leased, ConnectionTypes, TransferStep, deviceVars, providerVars, mutexVars
<1>2. CASE WalkStep /\ Walk
  BY <1>0, <1>2 DEF LeaseInv, Leased, ConnectionTypes, WalkStep
<1>3. ASSUME NEW s \in Sessions, List(s) PROVE LeaseInv'
  BY <1>0, <1>3, ListFacts DEF LeaseInv, Leased, ConnectionTypes
<1>4. ASSUME NEW s \in Sessions, Lookup(s) PROVE LeaseInv'
  BY <1>0, <1>4, LookupFacts DEF LeaseInv, Leased, ConnectionTypes
<1>5. ASSUME NEW s \in Sessions, Claim(s) PROVE LeaseInv'
  BY <1>0, <1>5, ClaimFacts DEF LeaseInv, Leased, ConnectionTypes
<1>6. ASSUME NEW s \in Sessions, ShareStep(s) PROVE LeaseInv'
  BY <1>0, <1>6, ShareFacts DEF LeaseInv, Leased, ConnectionTypes
<1>7. ASSUME NEW s \in Sessions, EnterStep(s) PROVE LeaseInv'
  BY <1>0, <1>7, EnterFacts DEF LeaseInv, Leased, ConnectionTypes
<1>8. ASSUME NEW a \in Actors, EndLease(a) PROVE LeaseInv'
  BY <1>0, <1>8, EndLeaseFacts DEF LeaseInv, Leased, ConnectionTypes
<1>9. ASSUME NEW a \in Actors, Release(a) PROVE LeaseInv'
  BY <1>0, <1>9, ReleaseFacts DEF LeaseInv, Leased, ConnectionTypes
<1>10. ASSUME NEW a \in Actors, KeepStep(a) PROVE LeaseInv'
  BY <1>0, <1>10, KeepFacts DEF LeaseInv, Leased, ConnectionTypes, KeepStep, GivesUp
<1>11. ASSUME NEW a \in Actors, NEW c \in Sessions, DieStep(a, c) PROVE LeaseInv'
  BY <1>0, <1>11, DieFacts DEF LeaseInv, Leased, ConnectionTypes, DieStep, GivesUp
<1>12. ASSUME NEW t \in Threads, Hotplug(t) PROVE LeaseInv'
  BY <1>0, <1>12, HotplugFacts DEF LeaseInv, Leased, ConnectionTypes
<1>13. ASSUME NEW t \in Threads, MarkDisconnected(t) PROVE LeaseInv'
  BY <1>0, <1>13, MarkFacts DEF LeaseInv, Leased, ConnectionTypes
<1>14. CASE PlugStep
  BY <1>0, <1>14 DEF LeaseInv, Leased, ConnectionTypes, PlugStep
<1>15. CASE UNCHANGED <<runtimeVars, plugged, hotplug, departed_devices, connections, registered,
                 open_mutex, mutex, at, target, uses, made, connected, lease, claimed,
                 dropping, held, gate, transfer>>
  BY <1>0, <1>15 DEF LeaseInv, Leased, ConnectionTypes
<1> QED
  BY <1>1, <1>2, <1>3, <1>4, <1>5, <1>6, <1>7, <1>8, <1>9, <1>10, <1>11, <1>12, <1>13, <1>14,
     <1>15, Steps

\* A lease that is being released is not shared any more.
LEMMA ReleaseStep ==
    ASSUME LibusbInv, [Next]_vars
    PROVE  ReleaseInv'
<1> USE ActorFacts
<1>0. ConnectionTypes /\ LeaseInv /\ ReleaseInv
  BY DEF LibusbInv
<1>1. CASE TransferStep /\ GateInv' /\ OneTransfer'
  BY <1>0, <1>1 DEF ReleaseInv, LeaseInv, Leased, ConnectionTypes, TransferStep, deviceVars, providerVars, mutexVars
<1>2. CASE WalkStep /\ Walk
  BY <1>0, <1>2 DEF ReleaseInv, LeaseInv, Leased, ConnectionTypes, WalkStep
<1>3. ASSUME NEW s \in Sessions, List(s) PROVE ReleaseInv'
  BY <1>0, <1>3, ListFacts DEF ReleaseInv, LeaseInv, Leased, ConnectionTypes
<1>4. ASSUME NEW s \in Sessions, Lookup(s) PROVE ReleaseInv'
  BY <1>0, <1>4, LookupFacts DEF ReleaseInv, LeaseInv, Leased, ConnectionTypes
<1>5. ASSUME NEW s \in Sessions, Claim(s) PROVE ReleaseInv'
  BY <1>0, <1>5, ClaimFacts DEF ReleaseInv, LeaseInv, Leased, ConnectionTypes
<1>6. ASSUME NEW s \in Sessions, ShareStep(s) PROVE ReleaseInv'
  BY <1>0, <1>6, ShareFacts DEF ReleaseInv, LeaseInv, Leased, ConnectionTypes
<1>7. ASSUME NEW s \in Sessions, EnterStep(s) PROVE ReleaseInv'
  BY <1>0, <1>7, EnterFacts DEF ReleaseInv, LeaseInv, Leased, ConnectionTypes
<1>8. ASSUME NEW a \in Actors, EndLease(a) PROVE ReleaseInv'
  BY <1>0, <1>8, EndLeaseFacts DEF ReleaseInv, LeaseInv, Leased, ConnectionTypes, Lessees
<1>9. ASSUME NEW a \in Actors, Release(a) PROVE ReleaseInv'
  BY <1>0, <1>9, ReleaseFacts DEF ReleaseInv, LeaseInv, Leased, ConnectionTypes
<1>10. ASSUME NEW a \in Actors, KeepStep(a) PROVE ReleaseInv'
  BY <1>0, <1>10, KeepFacts DEF ReleaseInv, LeaseInv, Leased, ConnectionTypes, KeepStep, GivesUp
<1>11. ASSUME NEW a \in Actors, NEW c \in Sessions, DieStep(a, c) PROVE ReleaseInv'
  BY <1>0, <1>11, DieFacts, SMTT(60) DEF ReleaseInv, LeaseInv, Leased, ConnectionTypes, DieStep, GivesUp
<1>12. ASSUME NEW t \in Threads, Hotplug(t) PROVE ReleaseInv'
  BY <1>0, <1>12, HotplugFacts DEF ReleaseInv, LeaseInv, Leased, ConnectionTypes
<1>13. ASSUME NEW t \in Threads, MarkDisconnected(t) PROVE ReleaseInv'
  BY <1>0, <1>13, MarkFacts DEF ReleaseInv, LeaseInv, Leased, ConnectionTypes
<1>14. CASE PlugStep
  BY <1>0, <1>14 DEF ReleaseInv, LeaseInv, Leased, ConnectionTypes, PlugStep
<1>15. CASE UNCHANGED <<runtimeVars, plugged, hotplug, departed_devices, connections, registered,
                 open_mutex, mutex, at, target, uses, made, connected, lease, claimed,
                 dropping, held, gate, transfer>>
  BY <1>0, <1>15 DEF ReleaseInv, LeaseInv, Leased, ConnectionTypes
<1> QED
  BY <1>1, <1>2, <1>3, <1>4, <1>5, <1>6, <1>7, <1>8, <1>9, <1>10, <1>11, <1>12, <1>13, <1>14,
     <1>15, Steps

\* The claim stays with the lease of the connections.
LEMMA ClaimStep ==
    ASSUME LibusbInv, [Next]_vars
    PROVE  ClaimInv'
<1> USE ActorFacts
<1>0. ConnectionTypes /\ ReferredInv /\ LeaseInv /\ ReleaseInv /\ ClaimInv
  BY DEF LibusbInv
<1>1. CASE TransferStep /\ GateInv' /\ OneTransfer'
  BY <1>0, <1>1 DEF ClaimInv, Leased, ConnectionTypes, ReferredInv, TransferStep, deviceVars, providerVars, mutexVars
<1>2. CASE WalkStep /\ Walk
  BY <1>0, <1>2 DEF ClaimInv, Leased, ConnectionTypes, ReferredInv, WalkStep
<1>3. ASSUME NEW s \in Sessions, List(s) PROVE ClaimInv'
  BY <1>0, <1>3, ListFacts DEF ClaimInv, Leased, ConnectionTypes, ReferredInv
<1>4. ASSUME NEW s \in Sessions, Lookup(s) PROVE ClaimInv'
  BY <1>0, <1>4, LookupFacts DEF ClaimInv, Leased, ConnectionTypes, ReferredInv
<1>5. ASSUME NEW s \in Sessions, Claim(s) PROVE ClaimInv'
  BY <1>0, <1>5, ClaimFacts DEF ClaimInv, Leased, ConnectionTypes, ReferredInv
<1>6. ASSUME NEW s \in Sessions, ShareStep(s) PROVE ClaimInv'
  BY <1>0, <1>6, ShareFacts DEF ClaimInv, Leased, ConnectionTypes, ReferredInv
<1>7. ASSUME NEW s \in Sessions, EnterStep(s) PROVE ClaimInv'
  BY <1>0, <1>7, EnterFacts DEF ClaimInv, Leased, ConnectionTypes, ReferredInv
<1>8. ASSUME NEW a \in Actors, EndLease(a) PROVE ClaimInv'
  BY <1>0, <1>8, EndLeaseFacts DEF ClaimInv, Leased, ConnectionTypes, ReferredInv
<1>9. ASSUME NEW a \in Actors, Release(a) PROVE ClaimInv'
  BY <1>0, <1>9, ReleaseFacts DEF ClaimInv, Leased, ConnectionTypes, ReferredInv, ReleaseInv, LeaseInv
<1>10. ASSUME NEW a \in Actors, KeepStep(a) PROVE ClaimInv'
  BY <1>0, <1>10, KeepFacts DEF ClaimInv, Leased, ConnectionTypes, ReferredInv, KeepStep, GivesUp
<1>11. ASSUME NEW a \in Actors, NEW c \in Sessions, DieStep(a, c) PROVE ClaimInv'
  BY <1>0, <1>11, DieFacts, SMTT(60) DEF ClaimInv, Leased, ConnectionTypes, ReferredInv, DieStep, GivesUp
<1>12. ASSUME NEW t \in Threads, Hotplug(t) PROVE ClaimInv'
  BY <1>0, <1>12, HotplugFacts DEF ClaimInv, Leased, ConnectionTypes, ReferredInv
<1>13. ASSUME NEW t \in Threads, MarkDisconnected(t) PROVE ClaimInv'
  BY <1>0, <1>13, MarkFacts DEF ClaimInv, Leased, ConnectionTypes, ReferredInv
<1>14. CASE PlugStep
  BY <1>0, <1>14 DEF ClaimInv, Leased, ConnectionTypes, ReferredInv, PlugStep
<1>15. CASE UNCHANGED <<runtimeVars, plugged, hotplug, departed_devices, connections, registered,
                 open_mutex, mutex, at, target, uses, made, connected, lease, claimed,
                 dropping, held, gate, transfer>>
  BY <1>0, <1>15 DEF ClaimInv, Leased, ConnectionTypes, ReferredInv
<1> QED
  BY <1>1, <1>2, <1>3, <1>4, <1>5, <1>6, <1>7, <1>8, <1>9, <1>10, <1>11, <1>12, <1>13, <1>14,
     <1>15, Steps

\* The gate belongs to who submits or waits.
LEMMA GateStep ==
    ASSUME LibusbInv, [Next]_vars
    PROVE  GateInv'
<1> USE ActorFacts
<1>0. PlaceTypes /\ ConnectionTypes /\ PlaceInv /\ GateInv
  BY DEF LibusbInv
<1>1. CASE TransferStep /\ GateInv' /\ OneTransfer'
  BY <1>1
<1>2. CASE WalkStep /\ Walk
  BY <1>0, <1>2 DEF GateInv, WalkStep
<1>3. ASSUME NEW s \in Sessions, List(s) PROVE GateInv'
  BY <1>0, <1>3, ListFacts DEF GateInv
<1>4. ASSUME NEW s \in Sessions, Lookup(s) PROVE GateInv'
  BY <1>0, <1>4, LookupFacts DEF GateInv
<1>5. ASSUME NEW s \in Sessions, Claim(s) PROVE GateInv'
  BY <1>0, <1>5, ClaimFacts DEF GateInv
<1>6. ASSUME NEW s \in Sessions, ShareStep(s) PROVE GateInv'
  BY <1>0, <1>6, ShareFacts DEF GateInv
<1>7. ASSUME NEW s \in Sessions, EnterStep(s) PROVE GateInv'
  BY <1>0, <1>7, EnterFacts DEF GateInv
<1>8. ASSUME NEW a \in Actors, EndLease(a) PROVE GateInv'
  BY <1>0, <1>8, EndLeaseFacts DEF GateInv
<1>9. ASSUME NEW a \in Actors, Release(a) PROVE GateInv'
  BY <1>0, <1>9, ReleaseFacts DEF GateInv
<1>10. ASSUME NEW a \in Actors, KeepStep(a) PROVE GateInv'
  BY <1>0, <1>10, KeepFacts DEF GateInv, KeepStep, GivesUp
<1>11. ASSUME NEW a \in Actors, NEW c \in Sessions, DieStep(a, c) PROVE GateInv'
  BY <1>0, <1>11, DieFacts DEF GateInv, DieStep, GivesUp
<1>12. ASSUME NEW t \in Threads, Hotplug(t) PROVE GateInv'
  BY <1>0, <1>12, HotplugFacts DEF GateInv
<1>13. ASSUME NEW t \in Threads, MarkDisconnected(t) PROVE GateInv'
  BY <1>0, <1>13, MarkFacts DEF GateInv
<1>14. CASE PlugStep
  BY <1>0, <1>14 DEF GateInv, PlugStep
<1>15. CASE UNCHANGED <<runtimeVars, plugged, hotplug, departed_devices, connections, registered,
                 open_mutex, mutex, at, target, uses, made, connected, lease, claimed,
                 dropping, held, gate, transfer>>
  BY <1>0, <1>15 DEF GateInv
<1> QED
  BY <1>1, <1>2, <1>3, <1>4, <1>5, <1>6, <1>7, <1>8, <1>9, <1>10, <1>11, <1>12, <1>13, <1>14,
     <1>15, Steps

\* Nothing else starts a transfer, or moves one to another device.
LEMMA OneTransferStep ==
    ASSUME LibusbInv, [Next]_vars
    PROVE  OneTransfer'
<1> USE ActorFacts
<1>0. PlaceTypes /\ ConnectionTypes /\ PlaceInv /\ ReferredInv /\ OneTransfer
  BY DEF LibusbInv
<1>1. CASE TransferStep /\ GateInv' /\ OneTransfer'
  BY <1>1
<1>2. CASE WalkStep /\ Walk
  BY <1>0, <1>2 DEF OneTransfer, PlaceInv, ReferredInv, Using, WalkStep
<1>3. ASSUME NEW s \in Sessions, List(s) PROVE OneTransfer'
  <2>1. \A x \in Sessions : transfer[x] # "none" => uses[x] \in Sessions /\ uses[x] # s
    BY <1>0, <1>3, ListFacts DEF PlaceInv, ReferredInv, ConnectionTypes, Using
  <2> QED
    BY <1>0, <1>3, <2>1, ListFacts DEF OneTransfer
<1>4. ASSUME NEW s \in Sessions, Lookup(s) PROVE OneTransfer'
  BY <1>0, <1>4, LookupFacts DEF OneTransfer, PlaceInv, ReferredInv, Using
<1>5. ASSUME NEW s \in Sessions, Claim(s) PROVE OneTransfer'
  BY <1>0, <1>5, ClaimFacts DEF OneTransfer, PlaceInv, ReferredInv, Using
<1>6. ASSUME NEW s \in Sessions, ShareStep(s) PROVE OneTransfer'
  BY <1>0, <1>6, ShareFacts DEF OneTransfer, PlaceInv, ReferredInv, Using
<1>7. ASSUME NEW s \in Sessions, EnterStep(s) PROVE OneTransfer'
  BY <1>0, <1>7, EnterFacts DEF OneTransfer, PlaceInv, ReferredInv, Using
<1>8. ASSUME NEW a \in Actors, EndLease(a) PROVE OneTransfer'
  BY <1>0, <1>8, EndLeaseFacts DEF OneTransfer, PlaceInv, ReferredInv, Using
<1>9. ASSUME NEW a \in Actors, Release(a) PROVE OneTransfer'
  BY <1>0, <1>9, ReleaseFacts DEF OneTransfer, PlaceInv, ReferredInv, Using
<1>10. ASSUME NEW a \in Actors, KeepStep(a) PROVE OneTransfer'
  BY <1>0, <1>10, KeepFacts DEF OneTransfer, PlaceInv, ReferredInv, Using, KeepStep, GivesUp
<1>11. ASSUME NEW a \in Actors, NEW c \in Sessions, DieStep(a, c) PROVE OneTransfer'
  BY <1>0, <1>11, DieFacts DEF OneTransfer, PlaceInv, ReferredInv, Using, DieStep, GivesUp
<1>12. ASSUME NEW t \in Threads, Hotplug(t) PROVE OneTransfer'
  BY <1>0, <1>12, HotplugFacts DEF OneTransfer, PlaceInv, ReferredInv, Using
<1>13. ASSUME NEW t \in Threads, MarkDisconnected(t) PROVE OneTransfer'
  BY <1>0, <1>13, MarkFacts DEF OneTransfer, PlaceInv, ReferredInv, Using
<1>14. CASE PlugStep
  BY <1>0, <1>14 DEF OneTransfer, PlaceInv, ReferredInv, Using, PlugStep
<1>15. CASE UNCHANGED <<runtimeVars, plugged, hotplug, departed_devices, connections, registered,
                 open_mutex, mutex, at, target, uses, made, connected, lease, claimed,
                 dropping, held, gate, transfer>>
  BY <1>0, <1>15 DEF OneTransfer, PlaceInv, ReferredInv, Using
<1> QED
  BY <1>1, <1>2, <1>3, <1>4, <1>5, <1>6, <1>7, <1>8, <1>9, <1>10, <1>11, <1>12, <1>13, <1>14,
     <1>15, Steps
-----------------------------------------------------------------------------
\* The invariant holds initially.
LEMMA LibusbInit == Init => LibusbInv
<1> SUFFICES ASSUME Init PROVE LibusbInv
  OBVIOUS
<1> USE ActorFacts
<1>1. plugged \in Devices
  BY NameAssumption DEF Init
<1>2. PlaceTypes
  BY DEF Init, PlaceTypes, Places, Opening, Serving
<1>3. ConnectionTypes
  BY DEF Init, ConnectionTypes
<1>4. DeviceTypes
  BY <1>1 DEF Init, DeviceTypes
<1>5. Served
  BY DEF Init, Served
<1>6. ThreadsStarted
  <2>1. Past = {} /\ \A t \in Threads : at[t] = "none"
    BY DEF Init, Past, Actors
  <2>2. Cardinality(Past) = 0
    BY <2>1, FS_EmptySet
  <2>3. \A t \in Threads : at[t] # "none" <=> t <= 0
    BY <2>1
  <2> QED
    BY <2>2, <2>3 DEF ThreadsStarted
<1>7. PlaceInv /\ MutexInv /\ ReferredInv /\ DyingInv
  BY DEF Init, PlaceInv, MutexInv, ReferredInv, DyingInv, Actors, Using, InMutex, Opening
<1>8. LeftInv /\ ToldInv /\ GoneInv /\ SharedInv
  BY DEF Init, LeftInv, ToldInv, GoneInv, SharedInv
<1>9. LeaseInv /\ ReleaseInv /\ ClaimInv
  BY DEF Init, LeaseInv, ReleaseInv, ClaimInv, Leased
<1>10. GateInv /\ OneTransfer
  BY DEF Init, GateInv, OneTransfer, Actors
<1> QED
  BY <1>2, <1>3, <1>4, <1>5, <1>6, <1>7, <1>8, <1>9, <1>10 DEF LibusbInv

\* Every step preserves the invariant.
LEMMA LibusbStep == LibusbInv /\ [Next]_vars => LibusbInv'
<1> SUFFICES ASSUME LibusbInv, [Next]_vars PROVE LibusbInv'
  OBVIOUS
<1>1. PlaceTypes' /\ ConnectionTypes' /\ DeviceTypes'
  BY PlaceTypesStep, ConnectionTypesStep, DeviceTypesStep
<1>2. ThreadsStarted' /\ Served'
  BY StartedStep, ServedStep
<1>3. PlaceInv' /\ MutexInv' /\ ReferredInv' /\ DyingInv'
  BY PlaceStep, MutexStep, ReferredStep, DyingStep
<1>4. LeftInv' /\ ToldInv' /\ GoneInv' /\ SharedInv'
  BY LeftStep, ToldStep, GoneStep, SharedStep
<1>5. LeaseInv' /\ ReleaseInv' /\ ClaimInv'
  BY LeaseStep, ReleaseStep, ClaimStep
<1>6. GateInv' /\ OneTransfer'
  BY GateStep, OneTransferStep
<1> QED
  BY <1>1, <1>2, <1>3, <1>4, <1>5, <1>6 DEF LibusbInv

\* The inductive invariant holds for any number of sessions and devices: who is in
\* open_impl, who refers to which connection, how far destructors are, whose lease
\* the claim belongs to (LibusbProvider, LibusbRuntime, LibusbConnection and
\* UsbInterfaceArbiter together).
THEOREM LibusbCorrect == Spec => []LibusbInv
BY LibusbInit, LibusbStep, PTL DEF Spec

\* While a handle is open there is an event thread that will not stop, in whatever
\* order handles are opened and closed (retain_handle, close_handle).
THEOREM EventsServedAlways == Spec => []EventsServed
<1>1. LibusbInv => EventsServed
  BY ActorFacts DEF LibusbInv, Served, EventsServed
<1> QED
  BY <1>1, LibusbCorrect, PTL

\* A session opened while its device leaves is marked as disconnected, whichever of
\* open_impl and device_left takes mutex_ first.
THEOREM NoLateOpenAlways == Spec => []NoLateOpen
<1>1. LibusbInv => NoLateOpen
  <2> SUFFICES ASSUME LibusbInv, NEW s \in Sessions, uses[s] # None,
                      target[uses[s]] \in departed_devices, connected[uses[s]]
               PROVE  \E t \in Threads : uses[s] \in held[t] /\ at[t] = "mark"
    BY DEF NoLateOpen
  <2> DEFINE c == uses[s]
  <2>1. c \in Sessions /\ at[c] # "register"
    BY DEF LibusbInv, ConnectionTypes, ReferredInv
  <2> QED
    BY <2>1 DEF LibusbInv, LeftInv, ToBeMarked
<1> QED
  BY <1>1, LibusbCorrect, PTL

\* The claim a transport relies on is held as long as it has its connection and its
\* device is there, also when a new connection shares the lease of one that is being
\* destroyed (UsbInterfaceArbiter::acquire, ~LibusbConnection, ~UsbInterfaceLease).
THEOREM UsesClaimAlways == Spec => []UsesClaim
<1>1. LibusbInv => UsesClaim
  BY DEF LibusbInv, ConnectionTypes, ReferredInv, LeaseInv, ClaimInv, Leased, UsesClaim
<1> QED
  BY <1>1, LibusbCorrect, PTL

\* Two sessions never have transfers on the endpoint of one device at a time,
\* whichever connections they came to share (EndpointGate, open_impl).
THEOREM OneTransferAlways == Spec => []OneTransfer
<1>1. LibusbInv => OneTransfer
  BY DEF LibusbInv
<1> QED
  BY <1>1, LibusbCorrect, PTL
=============================================================================
