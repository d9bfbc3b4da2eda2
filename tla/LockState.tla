----------------------------- MODULE LockState -----------------------------
(***************************************************************************)
(* The value LockManager keeps for one resource (struct LockState in       *)
(* src/core/lock_manager.h) and what acquire, release, release_all and the *)
(* queries compute from it.  Everything here is a pure operator: each      *)
(* use in LockManager and Session happens under LockManager::mutex_.       *)
(*                                                                         *)
(* shared_owners is a map from session to depth whose entries are erased   *)
(* at depth 0; it is the function Sessions -> Nat that is 0 where the map  *)
(* has no entry.  An access key "WRVISA-<n>" is the number n; NoKey is     *)
(* both VI_NULL and a text no key was ever equal to, such as "".           *)
(***************************************************************************)
EXTENDS Naturals

CONSTANTS
    Sessions,    \* ViSession handles that may own a lock
    NoSession    \* VI_NULL

ASSUME NoSessionAssumption == NoSession \notin Sessions

NoKey == 0

\* ViAccessMode values a caller may ask for.
LockTypes == {"exclusive", "shared"}

LockStates ==
    [type            : LockTypes \cup {"none"},
     exclusive_owner : Sessions \cup {NoSession},
     exclusive_depth : Nat,
     shared_key      : Nat,
     shared_owners   : [Sessions -> Nat]]

\* A default-constructed LockState: what acquire sees for a resource without
\* an entry in locks_, and what erasing the entry leaves.
NoLock ==
    [type            |-> "none",
     exclusive_owner |-> NoSession,
     exclusive_depth |-> 0,
     shared_key      |-> NoKey,
     shared_owners   |-> [s \in Sessions |-> 0]]

OwnsExclusive(state, s) ==
    state.type = "exclusive" /\ state.exclusive_owner = s

OwnsShared(state, s) ==
    state.type = "shared" /\ state.shared_owners[s] > 0

-----------------------------------------------------------------------------
\* Faulty variant of CanGrant: the owner of an exclusive lock is not compared.
CanGrantAnyOwner(state, s, lockType, key) ==
    \/ state.type = "none"
    \/ lockType = state.type

CanGrant(state, s, lockType, key) ==
    \/ state.type = "none"
    \/ lockType = "exclusive" /\ OwnsExclusive(state, s)
    \/ /\ lockType = "shared"
       /\ state.type = "shared"
       /\ \/ OwnsShared(state, s)
          \/ key # NoKey /\ key = state.shared_key

\* The tail of acquire, reached only when CanGrant holds.  freshKey is what
\* next_key() would return; it is consumed only by the first shared lock.
Grant(state, s, lockType, freshKey) ==
    CASE state.type = "exclusive" ->
           [state EXCEPT !.exclusive_depth = @ + 1]
      [] state.type = "shared" ->
           [state EXCEPT !.shared_owners[s] = @ + 1]
      [] state.type = "none" /\ lockType = "exclusive" ->
           [type            |-> "exclusive",
            exclusive_owner |-> s,
            exclusive_depth |-> 1,
            shared_key      |-> state.shared_key,
            shared_owners   |-> state.shared_owners]
      [] OTHER ->
           [type            |-> "shared",
            exclusive_owner |-> state.exclusive_owner,
            exclusive_depth |-> state.exclusive_depth,
            shared_key      |-> freshKey,
            shared_owners   |-> [state.shared_owners EXCEPT ![s] = 1]]

UsesFreshKey(state, lockType) == state.type = "none" /\ lockType = "shared"

-----------------------------------------------------------------------------
\* Faulty variant of EraseIfUnowned: the entry stays in locks_.
KeepUnowned(state) == state

\* A shared lock without owners is erased from locks_.
EraseIfUnowned(state) ==
    IF \E s \in Sessions : state.shared_owners[s] > 0 THEN state ELSE NoLock

\* release(): one level of s; a session that owns nothing changes nothing
\* (VI_ERROR_SESN_NLOCKED).
Release(state, s) ==
    CASE OwnsExclusive(state, s) ->
           IF state.exclusive_depth = 1
             THEN NoLock
             ELSE [state EXCEPT !.exclusive_depth = @ - 1]
      [] OwnsShared(state, s) ->
           EraseIfUnowned([state EXCEPT !.shared_owners[s] = @ - 1])
      [] OTHER -> state

\* Faulty variant of ReleaseAll: the entry is erased under the other owners.
ReleaseAllErases(state, s) ==
    IF OwnsExclusive(state, s) \/ OwnsShared(state, s) THEN NoLock ELSE state

\* release_all(): every level of s.
ReleaseAll(state, s) ==
    CASE OwnsExclusive(state, s) -> NoLock
      [] OwnsShared(state, s) ->
           EraseIfUnowned([state EXCEPT !.shared_owners[s] = 0])
      [] OTHER -> state

-----------------------------------------------------------------------------
CanAccess(state, s) ==
    state.type = "none" \/ OwnsExclusive(state, s) \/ OwnsShared(state, s)

OwnedLockType(state, s) ==
    CASE OwnsExclusive(state, s) -> "exclusive"
      [] OwnsShared(state, s)    -> "shared"
      [] OTHER                   -> "none"

OwnedLockDepth(state, s) ==
    CASE OwnsExclusive(state, s) -> state.exclusive_depth
      [] OwnsShared(state, s)    -> state.shared_owners[s]
      [] OTHER                   -> 0

-----------------------------------------------------------------------------
\* What every value of locks_ looks like between two critical sections: an
\* exclusive lock has one owner and no shared ones, a shared lock has an issued
\* key and an owner, and anything else is the default value.
WellFormed(state) ==
    \/ state = NoLock
    \/ /\ state.type = "exclusive"
       /\ state.exclusive_owner \in Sessions
       /\ state.exclusive_depth > 0
       /\ \A s \in Sessions : state.shared_owners[s] = 0
    \/ /\ state.type = "shared"
       /\ state.exclusive_owner = NoSession
       /\ state.shared_key > 0
       /\ \E s \in Sessions : state.shared_owners[s] > 0
=============================================================================
